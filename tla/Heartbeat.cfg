SPECIFICATION FairSpec
CONSTANTS
  Interval = 2
  Timeout = 6
  MaxDelay = 1
  QMax = 8
INVARIANTS
  SilentPeerCaught
  StalledPeerCaught
PROPERTIES
  NoHungLink
