\* Every call returns: two threads, one slot, two blocks.
SPECIFICATION FairSpec

CONSTANTS
  AESDCHAR_MAX_WRITE_OPERATIONS_SUPPORTED = 1
  NULL = NULL
  Threads = {t1, t2}
  Blocks = {b1, b2}
  ZERO_SIZE_PTR = ZERO_SIZE_PTR
  FREE = FREE
  KMALLOC_MAX_SIZE = 2
  c = c
  nl = nl
  zero = zero
  Char <- MCChar
  NEWLINE = nl
  ZERO = zero
  NoCall = NoCall
  NoRet = NoRet
  Calls <- LivenessCalls
  MaxPos = 0

PROPERTY CallReturns
