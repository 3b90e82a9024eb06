SPECIFICATION Spec
CONSTANTS
  h1 = h1
  h2 = h2
  Conns = {h1}
  NULL = NULL
  Capacity = 2
  BUFFER_SIZE = 3
  Scripts <- FullScripts
  SEEK1 = SEEK1
  SEEK2 = SEEK2
  COMMA = COMMA
  NEWLINE = NEWLINE
  STAMP = STAMP
  MaxStamps = 0
PROPERTIES EchoesOwnPacket
CHECK_DEADLOCK FALSE
