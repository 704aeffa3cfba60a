SPECIFICATION Spec
CONSTANTS
  Devs = {d1, d2}
  Xids = {1}
  Floats = {}
  EdgeSide = "right"
  NormMax = 5
  SwitchMargin = 2
  ReturnMargin = 1
  ReclaimMargin = 1
  Kinds = {"rel", "wheel"}
  Moves <- MCMoves
  Landings = {5}
  ListMayFail = TRUE
  LeftOff = {}
INVARIANTS DevicesFollowOwnership CrossNeedsAway DrainedBeforeClose AtMostOneLateEvent
PROPERTY ImplementsRemoteCursor
SYMMETRY DevSymmetry
