CONSTANTS
  n1 = n1
  r1 = r1
  i1 = i1
  None = None
  Node = {n1}
  Rule = {r1}
  Query = {1, 2}
  CommandId = {i1}
  Loads <- RulesAndQueries
  MaxConn = 2
  MaxQueue = 1
  MayEdit = TRUE
SPECIFICATION FairSpec
INVARIANTS TypeOK RegistryExact ViewCurrent PendingIsWanted
PROPERTIES PendingCleared ViewsCatchUp
