\* Where AESDCHAR_IOCSEEKTO goes once the buffer has wrapped around.
SPECIFICATION Spec

CONSTANTS
  AESDCHAR_MAX_WRITE_OPERATIONS_SUPPORTED = 2
  NULL = NULL
  Threads = {t1, t2}
  Blocks = {b1, b2, b3}
  ZERO_SIZE_PTR = ZERO_SIZE_PTR
  FREE = FREE
  KMALLOC_MAX_SIZE = 2
  c = c
  nl = nl
  zero = zero
  Char <- MCChar
  NEWLINE = nl
  ZERO = zero
  NoCall = NoCall
  NoRet = NoRet
  Calls <- PositionCalls
  MaxPos = 2

SYMMETRY Symmetry

PROPERTY SeekLandsOnCommand
