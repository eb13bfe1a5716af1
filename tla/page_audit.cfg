CONSTANTS
  n1 = n1
  n2 = n2
  k1 = k1
  t1 = t1
  t2 = t2
  None = None
  Node = {n1, n2}
  Key = {k1}
  Target = {t1, t2}
  MaxFetch = 2
  Loads <- TargetsOrTraffic
  MayEdit = TRUE
SPECIFICATION FairSpec
INVARIANTS TypeOK OneVerdict GroupAgrees
PROPERTY ListCatchesUp
