CONSTANTS
  k1 = k1
  k2 = k2
  k3 = k3
  t1 = t1
  t2 = t2
  w1 = w1
  w2 = w2
  None = None
  Unknown = Unknown
  Garbled = Garbled
  Absent = Absent
  Task = {w1, w2}
  RuleKey = {k1, k2}
  Target = {t1}
  MaxRules = 2
  MayCrash = FALSE
  MayMiss = FALSE
  MayFailDisk = FALSE
SPECIFICATION Spec
INVARIANT Durable
