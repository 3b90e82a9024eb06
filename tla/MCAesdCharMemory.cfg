\* The memory of the driver: two threads, two slots, four blocks.
SPECIFICATION Spec

CONSTANTS
  AESDCHAR_MAX_WRITE_OPERATIONS_SUPPORTED = 2
  NULL = NULL
  Threads = {t1, t2}
  Blocks = {b1, b2, b3, b4}
  ZERO_SIZE_PTR = ZERO_SIZE_PTR
  FREE = FREE
  KMALLOC_MAX_SIZE = 3
  c = c
  nl = nl
  zero = zero
  Char <- MCChar
  NEWLINE = nl
  ZERO = zero
  NoCall = NoCall
  NoRet = NoRet
  Calls <- MemoryCalls
  MaxPos = 0

SYMMETRY Symmetry

INVARIANTS
  LockInv
  HeapSafe
  CopyNotFreed
  CopyInBounds
  NewlineCommits

PROPERTIES
  LeaksNothing
  AbstractSpec
