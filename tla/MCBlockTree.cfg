CONSTANTS
  relay = relay
  leaf = leaf
  BlockCount = 2
  IdPeriod = 16
  Node = {relay, leaf}
  Root = relay
  Parent <- MCParent
  EarlySubscriber = {}
  MaxFaults <- MCMaxFaults
  MaxDuplicates = 1
SPECIFICATION FairSpec
INVARIANTS TypeOK OnlyRepetitionsThrow
PROPERTIES FreshRedundancy GeneratesOnce BlockReachesAll
CHECK_DEADLOCK FALSE
