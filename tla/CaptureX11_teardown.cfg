SPECIFICATION Spec
CONSTANTS
  Devs = {d1}
  Xids = {1}
  Floats = {}
  EdgeSide = "left"
  NormMax = 5
  SwitchMargin = 2
  ReturnMargin = 1
  ReclaimMargin = 1
  Kinds = {"rel"}
  Moves <- MCMoves
  Landings = {0, 5}
  ListMayFail = FALSE
  LeftOff = {}
INVARIANT TeardownAlwaysRestores
