SPECIFICATION FairSpec
CONSTANTS
  Nodes = {n1, n2, n3}
  NULL = NULL
  UseCharDevice = FALSE
  Backlog = 1
INVARIANTS TypeOK ListIsAllocated NodesNotFreed JoinReturns DescriptorsAccounted SameFile
CHECK_DEADLOCK FALSE
PROPERTIES FollowsProtocol JoinsAndShutsDown
