SPECIFICATION Spec
CONSTANTS
  NormMax = 7
  SwitchMargin = 3
  ReturnMargin = 1
  Frac = 2
  Edges = {"left", "right", "top", "bottom"}
  Deltas <- MCDeltas
  Perps <- MCPerps
INVARIANTS HandBackNeedsTravel NoMotionLost EdgeIsNeverDeaf
PROPERTY NoMomentumBounce
