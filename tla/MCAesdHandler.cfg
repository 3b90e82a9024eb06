SPECIFICATION FairSpec
CONSTANTS
  h1 = h1
  h2 = h2
  Conns = {h1, h2}
  NULL = NULL
  Capacity = 2
  BUFFER_SIZE = 6
  Scripts <- MixedScripts
  SEEK1 = SEEK1
  SEEK2 = SEEK2
  COMMA = COMMA
  NEWLINE = NEWLINE
  STAMP = STAMP
  MaxStamps = 1
INVARIANTS TypeOK BufferBounds BytesAccounted
PROPERTIES   FollowsProtocol Finishes
CHECK_DEADLOCK FALSE
