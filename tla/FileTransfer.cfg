SPECIFICATION FileFairSpec
CONSTANTS
  Pulls = {p1, p2}
  Block = 2
  SendBuf = 4
  RecvBuf = 4
  Sizes = {3, 4, 5, 6}
  FirstSize = 5
  MaxFile = 5
  Versions = 2
  Managers = 2
INVARIANTS ReceivedIntact NoNeedlessFailure
PROPERTIES PullEnds PortGivenBack
