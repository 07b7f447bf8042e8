CONSTANTS
  relay = relay
  leaf = leaf
  BlockCount = 3
  IdPeriod = 16
  Node = {relay, leaf}
  Root = relay
  Parent <- MCParent
  EarlySubscriber = {leaf}
  MaxFaults <- MCNoFaults
  MaxDuplicates = 0
SPECIFICATION Spec
INVARIANT NodesStayUp
CHECK_DEADLOCK FALSE
