SPECIFICATION FairSpec
CONSTANTS
  Nodes = {n1}
  NULL = NULL
  UseCharDevice = TRUE
  Backlog = 1
PROPERTIES ShutsDown
CHECK_DEADLOCK FALSE
