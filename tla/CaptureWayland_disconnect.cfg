\* One activation, libei may disconnect.  No deadlock check: the program
\* ends closed, or stuck, which is what the property is about.
SPECIFICATION FairSpec
CONSTANTS
  NormMax = 5
  SwitchMargin = 2
  ReturnMargin = 1
  Frac = 1
  Edges = {"left"}
  Perps = {2}
  Motions <- MCMotions
  Gates <- MCOneGate
  EiMax = 1
  ReleaseMayFail = FALSE
PROPERTY StopAlwaysReturns
CHECK_DEADLOCK FALSE
