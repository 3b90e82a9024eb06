CONSTANTS
  AESDCHAR_MAX_WRITE_OPERATIONS_SUPPORTED = 8
  NULL = NULL
  p = p
  q = q
  Pointers <- MCPointers
  Entries <- MCEntries

SPECIFICATION Spec

INVARIANTS
  TypeOK
  RingShape
  FindAgreesWithStream
  SeekEndIsReadEof

PROPERTY RecentEntriesSpec
