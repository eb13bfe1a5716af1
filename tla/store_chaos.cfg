CONSTANTS
  k1 = k1
  k2 = k2
  t1 = t1
  t2 = t2
  w1 = w1
  w2 = w2
  None = None
  Unknown = Unknown
  Garbled = Garbled
  Absent = Absent
  Task = {w1, w2}
  RuleKey = {k1, k2}
  Target = {t1, t2}
  MaxRules = 2
  MayCrash = TRUE
  MayMiss = TRUE
  MayFailDisk = TRUE
SPECIFICATION HSpec
INVARIANTS FileWasLive LiveInv
SYMMETRY Symmetry
VIEW Seen
