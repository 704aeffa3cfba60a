SPECIFICATION FairSpec
CONSTANTS
  Devs = {d1}
  Xids = {1}
  Floats = {}
  EdgeSide = "left"
  NormMax = 5
  SwitchMargin = 2
  ReturnMargin = 1
  ReclaimMargin = 1
  Kinds = {"wheel", "button", "right", "ctrlDown", "altDown"}
  Moves <- MCMoves
  Landings = {0}
  ListMayFail = FALSE
  LeftOff = {1}
INVARIANT DevicesFollowOwnership
PROPERTY StopTerminates
