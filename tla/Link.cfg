SPECIFICATION FairSpec
CONSTANTS
  Slots = {d1, d2}
  HandshakeLimit = 2
  Platforms = {"x11", "wayland", "off"}
INVARIANTS HandBackWired AttemptOwned
PROPERTIES SelectMovesOn InboundTaken
