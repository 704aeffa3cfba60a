SPECIFICATION InboundSpec
CONSTANTS
  Plain = {"a"}
  Modifiers = {"lctrl", "rctrl", "ralt", "altgr"}
  WritesMayFail = TRUE
  ScreenMax = 6
  JumpThreshold = 2
  Gains <- MCGains
  MouseMayFail = TRUE
  Users <- MCUsers
INVARIANTS TrackedKeys NothingHeldAway NoStuckKey ButtonsFollow
PROPERTIES CtrlGoesFirst EntrySnaps NeverFlies
