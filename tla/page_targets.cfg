CONSTANTS
  n1 = n1
  n2 = n2
  g1 = g1
  g2 = g2
  None = None
  All = All
  Node = {n1, n2}
  Group = {g1, g2}
  DefaultGroup = g1
  MaxFetch = 2
  MaxPost = 1
SPECIFICATION Spec
INVARIANTS TypeOK FormStands CheckedAreReached PanelFollows
