\* Two activations on one edge, one event in flight, gated or not,
\* with D-Bus calls that fail.  No deadlock check: the program ends closed,
\* or stuck once libei has disconnected.
SPECIFICATION Spec
CONSTANTS
  NormMax = 5
  SwitchMargin = 2
  ReturnMargin = 1
  Frac = 1
  Edges = {"left"}
  Perps = {2}
  Motions <- MCMotions
  Gates <- MCGates
  EiMax = 1
  ReleaseMayFail = TRUE
INVARIANTS DrainedBeforeClose NoFrozenPointer StopNotStuck
CHECK_DEADLOCK FALSE
