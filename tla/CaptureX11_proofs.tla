------------------------ MODULE CaptureX11_proofs ------------------------
(* Theorems about CaptureX11, for any number of devices, any grid and any  *)
(* set of events.                                                          *)
EXTENDS CaptureX11, TLAPS

USE CaptureAssumption DEF Goto, MuFree, EndEvent, Threads, Poll, Main, NoOne,
      vars, capVars, keyVars, xVars, stopVars, histVars

(***************************************************************************)
(* The invariants rest on where each goroutine is, so the control points   *)
(* come first: each goroutine stays within its own.                        *)
(***************************************************************************)
PollPoints == {"loop", "read", "gate", "cross", "list", "store", "disable",
               "done"}
DevPoints == {"loop", "read", "check", "grace", "handle", "sendLocked",
              "hotkey", "forward", "send", "activate", "take", "relist",
              "enable", "done"}
MainPoints == {"recv", "activate", "take", "relist", "enable", "closeFds",
               "wait", "close", "done"}

Points ==
  /\ pc = [t \in Threads |-> pc[t]]
  /\ pc[Poll] \in PollPoints
  /\ pc[Main] \in MainPoints
  /\ \A d \in Devs : pc[d] \in DevPoints

\* What the actors do, but for enabling devices, which several do.
Switchers == Devs \cup {Main}

DevEvent(d) ==
  \/ DevLoop(d) \/ ReadFails(d) \/ ReadEvent(d) \/ CheckActive(d)
  \/ CheckGrace(d) \/ HandleRel(d) \/ HandleWheel(d) \/ SendLocked(d)
  \/ TrackHotkey(d) \/ HandleKey(d) \/ HandleRight(d) \/ HotkeyCheck(d)
  \/ ForwardCheck(d) \/ Send(d)

MainStep ==
  \/ CloseFds \/ WaitDrained \/ CloseConn \/ LinkDown
  \/ RecvMachineSwitched \/ (\E requestX \in Landings : RecvNextMachine(requestX))
  \/ DebounceExpires \/ GraceExpires \/ UNCHANGED vars

LEMMA Actors ==
  ASSUME [Next]_vars
  PROVE  \/ PollStep \/ PollExit
         \/ \E d \in Devs : DevEvent(d)
         \/ \E t \in Switchers : EnableStep(t)
         \/ MainStep
BY DEF Next, DevStep, DevEvent, TeardownStep, MainStep, Terminated, Switchers

LEMMA PointsInit == ASSUME Init PROVE Points
BY DEF Init, Points, PollPoints, MainPoints, DevPoints

LEMMA PointsStep ==
  ASSUME Points, [Next]_vars PROVE Points'
<1> USE DEF Points, PollPoints, MainPoints, DevPoints
<1>1. CASE PollStep \/ PollExit
  BY <1>1 DEF PollStep, PollExit, PollTick, ReadPointer, EdgeGate, Cross, ListToDisable,
    StoreDisabled, DisableOne, NotifyRemote
<1>2. ASSUME NEW d \in Devs, DevEvent(d) PROVE Points'
  <2>1. \E l \in DevPoints : pc' = [pc EXCEPT ![d] = l]
    <3>1. CASE DevLoop(d) \/ ReadFails(d) \/ ReadEvent(d) \/ CheckActive(d) \/ CheckGrace(d)
      BY <3>1 DEF DevLoop, ReadFails, ReadEvent, CheckActive, CheckGrace
    <3>2. CASE HandleRel(d)
      BY <3>2 DEF HandleRel
    <3>3. CASE HandleWheel(d) \/ SendLocked(d) \/ TrackHotkey(d) \/ HandleKey(d)
      BY <3>3 DEF HandleWheel, SendLocked, TrackHotkey, HandleKey
    <3>4. CASE HandleRight(d) \/ HotkeyCheck(d) \/ ForwardCheck(d) \/ Send(d)
      BY <3>4 DEF HandleRight, HotkeyCheck, ForwardCheck, Send
    <3> QED BY <1>2, <3>1, <3>2, <3>3, <3>4 DEF DevEvent
  <2> QED BY <2>1
<1>3. ASSUME NEW t \in Switchers, EnableStep(t) PROVE Points'
  BY <1>3 DEF EnableStep, SetActive, TakeDisabled, MergeListing, EnableOne, EnableDone, Resume,
    Switchers
<1>4. CASE MainStep
  BY <1>4 DEF MainStep, CloseFds, WaitDrained, CloseConn, LinkDown, RecvMachineSwitched, RecvNextMachine,
    DebounceExpires, GraceExpires
<1> QED BY <1>1, <1>2, <1>3, <1>4, Actors

(* Each goroutine stays within its control points.                         *)
THEOREM PointsCorrect == Spec => []Points
BY PointsInit, PointsStep, PTL DEF Spec

----------------------------------------------------------------------------
(***************************************************************************)
(* What a step of one actor leaves alone.  Control comes home only with    *)
(* the crossing gate closed.                                               *)
(***************************************************************************)
Moved(t) == pc[t] # "done" /\ \A u \in Threads \ {t} : pc'[u] = pc[u]

OwnerSame == UNCHANGED <<active, canSwitch, awaySeen>>
CameHome  == active' /\ ~canSwitch' /\ awaySeen' = (active /\ awaySeen)

LEMMA PollFrame ==
  ASSUME Points, PollStep \/ PollExit
  PROVE  Moved(Poll) /\ UNCHANGED stopVars
BY DEF PollStep, PollExit, PollTick, ReadPointer, EdgeGate, Cross, ListToDisable,
  StoreDisabled, DisableOne, NotifyRemote, Moved, Points

LEMMA DevFrame ==
  ASSUME Points, NEW d \in Devs, DevEvent(d)
  PROVE  Moved(d) /\ UNCHANGED <<stopVars, x>> /\ (OwnerSame \/ CameHome)
<1>1. CASE HandleRel(d)
  BY <1>1 DEF HandleRel, Moved, OwnerSame, CameHome, Points
<1>2. CASE ~HandleRel(d)
  BY <1>2 DEF DevEvent, DevLoop, ReadFails, ReadEvent, CheckActive, CheckGrace,
    HandleWheel, SendLocked, TrackHotkey, HandleKey, HandleRight, HotkeyCheck,
    ForwardCheck, Send, Moved, OwnerSame, Points
<1> QED BY <1>1, <1>2

LEMMA EnableFrame ==
  ASSUME Points, NEW t \in Switchers, EnableStep(t)
  PROVE  /\ Moved(t) /\ UNCHANGED <<stopVars, x, late>>
         /\ pc[t] \in {"activate", "take", "relist", "enable"}
         /\ pc'[t] \in {"take", "relist", "enable", Resume(t)}
         /\ OwnerSame \/ (CameHome /\ ~active)
<1>1. CASE SetActive(t)
  <2>1. CASE active
    BY <1>1, <2>1 DEF SetActive, Moved, OwnerSame, Points, Switchers
  <2>2. CASE ~active
    BY <1>1, <2>2 DEF SetActive, Moved, CameHome, Points, Switchers
  <2> QED BY <2>1, <2>2
<1>2. CASE ~SetActive(t)
  BY <1>2 DEF EnableStep, TakeDisabled, MergeListing, EnableOne, EnableDone,
    Moved, OwnerSame, Points, Switchers
<1> QED BY <1>1, <1>2

LEMMA MainFrame ==
  ASSUME Points, MainStep
  PROVE  /\ \A t \in Threads \ {Main} : pc'[t] = pc[t]
         /\ OwnerSame /\ UNCHANGED <<x, late>>
BY DEF MainStep, CloseFds, WaitDrained, CloseConn, LinkDown, RecvMachineSwitched,
  RecvNextMachine, DebounceExpires, GraceExpires, OwnerSame, Points

----------------------------------------------------------------------------
(***************************************************************************)
(* A crossing needs a reading away from the edge.  What makes this         *)
(* inductive: the poller is the only one to give control away, so from its *)
(* ownership test to the crossing Linux keeps the pointer, and nobody can  *)
(* come home in between and outdate the reading.                           *)
(***************************************************************************)
AwayInv ==
  /\ pc[Poll] \in {"read", "gate", "cross"} => active
  /\ active /\ canSwitch => awaySeen
  /\ pc[Poll] = "gate" /\ x = "away" => awaySeen
  /\ pc[Poll] = "cross" => awaySeen

LEMMA AwayStep ==
  ASSUME Points, AwayInv, [Next]_vars PROVE AwayInv'
<1>p. Poll \notin Devs /\ Poll \notin Switchers
  BY DEF Switchers
<1>1. CASE PollStep \/ PollExit
  <2>1. CASE PollExit \/ PollTick
    BY <2>1 DEF PollExit, PollTick, AwayInv, Points
  <2>5. CASE ReadPointer
    BY <2>5 DEF ReadPointer, AwayInv, Points, PollPoints
  <2>2. CASE EdgeGate
    BY <2>2 DEF EdgeGate, AwayInv, Points
  <2>3. CASE Cross
    BY <2>3 DEF Cross, AwayInv, Points
  <2>4. CASE ~(PollExit \/ PollTick \/ ReadPointer \/ EdgeGate \/ Cross)
    BY <1>1, <2>4 DEF PollStep, ListToDisable, StoreDisabled, DisableOne,
      NotifyRemote, AwayInv, Points
  <2> QED BY <2>1, <2>2, <2>3, <2>4, <2>5
<1>2. CASE ~(PollStep \/ PollExit)
  <2>1. /\ pc'[Poll] = pc[Poll] /\ x' = x
        /\ OwnerSame \/ CameHome
    BY <1>2, <1>p, Actors, DevFrame, EnableFrame, MainFrame DEF Moved
  <2>2. CASE OwnerSame
    BY <2>1, <2>2 DEF AwayInv, OwnerSame
  <2>3. CASE CameHome
    BY <2>1, <2>3 DEF AwayInv, CameHome
  <2> QED BY <2>1, <2>2, <2>3
<1> QED BY <1>1, <1>2

(* The pointer was read away from the edge since it last came home,        *)
(* whenever control crosses to the remote.                                 *)
THEOREM CrossAway == Spec => []CrossNeedsAway
<1>1. Init => AwayInv
  BY DEF Init, AwayInv
<1>2. AwayInv => CrossNeedsAway
  BY DEF AwayInv, CrossNeedsAway
<1> QED BY <1>1, <1>2, AwayStep, PointsCorrect, PTL DEF Spec

----------------------------------------------------------------------------
(***************************************************************************)
(* At most one late event per device.  A device goroutine that has passed  *)
(* its ownership test is at one of the points InHand; if control comes     *)
(* home meanwhile it can still send that one event, and then meets the     *)
(* test again.                                                             *)
(***************************************************************************)
InHand == {"grace", "handle", "sendLocked", "hotkey", "forward", "send"}

LateInv ==
  /\ late = [d \in Devs |-> late[d]]
  /\ \A d \in Devs :
       /\ late[d] \in {0, 1}
       /\ late[d] = 1 => active /\ pc[d] \notin InHand

LEMMA LateStep ==
  ASSUME Points, LateInv, [Next]_vars PROVE LateInv'
<1>1. CASE Cross
  BY <1>1 DEF Cross, LateInv
<1>2. CASE (PollStep /\ ~Cross) \/ PollExit \/ MainStep
  <2>1. UNCHANGED <<late, active>> /\ \A d \in Devs : pc'[d] = pc[d]
    <3>1. CASE MainStep
      BY <3>1, MainFrame DEF OwnerSame
    <3>2. CASE (PollStep /\ ~Cross) \/ PollExit
      BY <3>2, PollFrame DEF Moved, PollStep, PollExit, PollTick, ReadPointer,
        EdgeGate, ListToDisable, StoreDisabled, DisableOne, NotifyRemote
    <3> QED BY <1>2, <3>1, <3>2
  <2> QED BY <2>1 DEF LateInv
<1>3. ASSUME NEW t \in Switchers, EnableStep(t) PROVE LateInv'
  <2>1. /\ late' = late /\ (active => active') /\ pc'[t] \notin InHand
        /\ \A d \in Devs : d # t => pc'[d] = pc[d]
    <3>1. OwnerSame \/ CameHome => (active => active')
      BY DEF OwnerSame, CameHome
    <3> QED BY <1>3, <3>1, EnableFrame DEF Moved, InHand, Resume
  <2> QED BY <2>1 DEF LateInv
<1>4. ASSUME NEW d \in Devs, DevEvent(d) PROVE LateInv'
  <2>1. /\ active => active'
        /\ \A u \in Devs \ {d} : pc'[u] = pc[u]
    <3>1. OwnerSame \/ CameHome => (active => active')
      BY DEF OwnerSame, CameHome
    <3> QED BY <1>4, <3>1, DevFrame DEF Moved
  <2>2. CASE SendLocked(d) \/ Send(d)
    <3>1. /\ UNCHANGED active /\ pc'[d] = "loop" /\ pc[d] \in InHand
          /\ CountLate(d)
      BY <2>2 DEF SendLocked, Send, InHand, Points
    <3> QED BY <2>1, <3>1 DEF LateInv, CountLate, InHand
  <2>3. CASE ~(SendLocked(d) \/ Send(d))
    <3>1. /\ late' = late
          /\ pc'[d] \in InHand => pc[d] \in InHand \/ ~active
      BY <1>4, <2>3 DEF DevEvent, DevLoop, ReadFails, ReadEvent, CheckActive,
        CheckGrace, HandleRel, HandleWheel, TrackHotkey, HandleKey, HandleRight,
        HotkeyCheck, ForwardCheck, InHand, Points
    <3> QED BY <2>1, <3>1 DEF LateInv
  <2> QED BY <2>2, <2>3
<1> QED BY <1>1, <1>2, <1>3, <1>4, Actors

(* No device sends two events after control came home.                     *)
THEOREM OneLateEvent == Spec => []AtMostOneLateEvent
<1>1. Init => LateInv
  BY DEF Init, LateInv
<1>2. ASSUME LateInv PROVE AtMostOneLateEvent
  <2>1. ASSUME NEW d \in Devs PROVE late[d] = 0 \/ late[d] = 1
    BY <1>2 DEF LateInv
  <2>2. ASSUME NEW d \in Devs PROVE late[d] <= 1
    <3>1. CASE late[d] = 0
      BY <3>1
    <3>2. CASE late[d] = 1
      BY <3>2
    <3> QED BY <2>1, <3>1, <3>2
  <2> QED BY <2>2 DEF AtMostOneLateEvent
<1> QED BY <1>1, <1>2, LateStep, PointsCorrect, PTL DEF Spec

----------------------------------------------------------------------------
(***************************************************************************)
(* Stop drains the goroutines it tracks.  Once Main is past wg.Wait they   *)
(* are done and stay so; the connection is closed only then.               *)
(***************************************************************************)
DrainInv ==
  /\ stopped <=> pc[Main] \in {"closeFds", "wait", "close", "done"}
                   \/ (stopped /\ pc[Main] \in {"take", "relist", "enable"})
  /\ stopped /\ pc[Main] \notin {"closeFds", "wait"}
       => \A t \in Devs \cup {Poll} : pc[t] = "done"
  /\ ~connOpen => pc[Main] = "done"

LEMMA DrainStep ==
  ASSUME Points, DrainInv, [Next]_vars PROVE DrainInv'
<1>m. Main \notin Devs /\ Main # Poll
  OBVIOUS
<1>1. ASSUME NEW t \in Devs \cup {Poll}, Moved(t), UNCHANGED stopVars PROVE DrainInv'
  BY <1>1, <1>m DEF DrainInv, Moved
<1>2. CASE PollStep \/ PollExit
  BY <1>1, <1>2, PollFrame
<1>3. ASSUME NEW d \in Devs, DevEvent(d) PROVE DrainInv'
  BY <1>1, <1>3, DevFrame
<1>4. ASSUME NEW t \in Switchers, EnableStep(t) PROVE DrainInv'
  <2>1. CASE t \in Devs
    BY <1>1, <1>4, <2>1, EnableFrame
  <2>2. CASE t = Main
    <3>1. /\ UNCHANGED <<stopped, connOpen>>
          /\ \A u \in Devs \cup {Poll} : pc'[u] = pc[u]
          /\ pc[Main] \in {"activate", "take", "relist", "enable"}
          /\ pc'[Main] \in {"take", "relist", "enable", Resume(Main)}
      BY <1>4, <2>2, <1>m, EnableFrame DEF Moved
    <3> QED BY <3>1 DEF DrainInv, Resume
  <2> QED BY <2>1, <2>2 DEF Switchers
<1>5. CASE MainStep
  <2>1. \A u \in Devs \cup {Poll} : pc'[u] = pc[u]
    BY <1>5, <1>m, MainFrame
  <2>2. \/ CloseFds \/ WaitDrained \/ CloseConn \/ LinkDown
        \/ UNCHANGED <<stopped, connOpen, pc[Main]>>
        \/ pc[Main] = "recv" /\ pc'[Main] = "activate" /\ UNCHANGED <<stopped, connOpen>>
    BY <1>5 DEF MainStep, RecvMachineSwitched, RecvNextMachine, DebounceExpires,
      GraceExpires, Points
  <2>3. CASE CloseFds \/ WaitDrained \/ CloseConn \/ LinkDown
    BY <2>1, <2>3 DEF DrainInv, CloseFds, WaitDrained, CloseConn, LinkDown, Points,
      MainPoints
  <2>4. CASE UNCHANGED <<stopped, connOpen, pc[Main]>>
    BY <2>1, <2>4 DEF DrainInv
  <2>5. CASE pc[Main] = "recv" /\ pc'[Main] = "activate" /\ UNCHANGED <<stopped, connOpen>>
    BY <2>1, <2>5 DEF DrainInv
  <2> QED BY <2>2, <2>3, <2>4, <2>5
<1> QED BY <1>2, <1>3, <1>4, <1>5, Actors

(* When the connection is closed, no tracked goroutine can still use it.   *)
THEOREM Drained == Spec => []DrainedBeforeClose
<1>1. Init => DrainInv
  BY DEF Init, DrainInv
<1>2. DrainInv => DrainedBeforeClose
  BY DEF DrainInv, DrainedBeforeClose
<1> QED BY <1>1, <1>2, DrainStep, PointsCorrect, PTL DEF Spec

----------------------------------------------------------------------------
(***************************************************************************)
(* Most steps neither move the cursor or its owner nor switch a device.    *)
(***************************************************************************)
Switching == {"list", "store", "disable", "take", "relist", "enable"}

Bystander ==
  /\ UNCHANGED <<active, canReturn, remoteX, xVars, todo, astray>>
  /\ \A t \in Threads :
       pc'[t] = pc[t] \/ (pc[t] \notin Switching /\ pc'[t] \notin Switching)
  /\ pc[Main] \notin {"close", "done"} => pc'[Main] \notin {"close", "done"}

LEMMA PollBystander ==
  ASSUME Points, PollExit \/ PollTick \/ ReadPointer \/ EdgeGate
  PROVE  Bystander
BY DEF PollExit, PollTick, ReadPointer, EdgeGate, Bystander, Switching, Points

LEMMA DeviceBystander ==
  ASSUME Points, NEW d \in Devs,
         \/ DevLoop(d) \/ ReadFails(d) \/ ReadEvent(d) \/ CheckActive(d)
         \/ CheckGrace(d) \/ HandleWheel(d) \/ SendLocked(d) \/ TrackHotkey(d)
         \/ HandleKey(d) \/ HandleRight(d) \/ HotkeyCheck(d)
         \/ ForwardCheck(d) \/ Send(d)
  PROVE  Bystander
BY DEF DevLoop, ReadFails, ReadEvent, CheckActive, CheckGrace, HandleWheel,
  SendLocked, TrackHotkey, HandleKey, HandleRight, HotkeyCheck, ForwardCheck,
  Send, Bystander, Switching, Points

LEMMA MainBystander ==
  ASSUME Points,
         \/ RecvMachineSwitched \/ (\E requestX \in Landings : RecvNextMachine(requestX))
         \/ LinkDown \/ CloseFds \/ DebounceExpires \/ GraceExpires
         \/ UNCHANGED vars
  PROVE  Bystander
BY DEF RecvMachineSwitched, RecvNextMachine, LinkDown, CloseFds,
  DebounceExpires, GraceExpires, Bystander, Switching, Points

LEMMA ByRole ==
  ASSUME Points, [Next]_vars
  PROVE  \/ Cross \/ ListToDisable \/ StoreDisabled
         \/ (\E id \in Xids : DisableOne(id)) \/ NotifyRemote
         \/ \E d \in Devs : HandleRel(d)
         \/ \E t \in Devs \cup {Main} : EnableStep(t)
         \/ WaitDrained \/ CloseConn
         \/ Bystander
BY PollBystander, DeviceBystander, MainBystander
  DEF Next, PollStep, DevStep, TeardownStep, Terminated

----------------------------------------------------------------------------
(***************************************************************************)
(* The refinement.  The cursor's fields change only where control crosses, *)
(* in an event's motion and in SetActive; each is a step of RemoteCursor   *)
(* on one axis, with a carry that is always zero.                          *)
(***************************************************************************)
CursorOK ==
  /\ active \in BOOLEAN /\ canReturn \in BOOLEAN
  /\ remoteX \in 0 .. NormMax
  /\ ev \in [Devs -> Events \cup {NoEvent}]

LEMMA MotionOfEvent ==
  ASSUME CursorOK, NEW d \in Devs, ev[d].kind = "rel"
  PROVE  ev[d].dx \in Moves /\ ev[d].dx \in Int
<1>1. ev[d] \in Events \cup {NoEvent}
  BY DEF CursorOK
<1>2. ev[d] \in [kind : Kinds \cap {"rel"}, dx : Moves]
  BY <1>1 DEF Events, NoEvent
<1> QED BY <1>2

LEMMA ClampRange == ASSUME NEW v \in Int PROVE Clamp(v) \in 0 .. NormMax
BY DEF Clamp

LEMMA EntryRange == EntryX \in 0 .. NormMax
BY DEF EntryX

LEMMA CursorOKInit == ASSUME Init PROVE CursorOK
<1>1. ev \in [Devs -> Events \cup {NoEvent}]
  BY DEF Init
<1>2. active \in BOOLEAN /\ canReturn \in BOOLEAN
  BY DEF Init
<1>3. remoteX \in 0 .. NormMax
  BY DEF Init
<1> QED BY <1>1, <1>2, <1>3 DEF CursorOK

LEMMA EventStep ==
  ASSUME Points, CursorOK, [Next]_vars
  PROVE  ev' \in [Devs -> Events \cup {NoEvent}]
<1>1. CASE PollStep \/ PollExit \/ TeardownStep \/ LinkDown \/ RecvMachineSwitched
           \/ (\E requestX \in Landings : RecvNextMachine(requestX))
           \/ DebounceExpires \/ GraceExpires \/ Terminated \/ UNCHANGED vars
  BY <1>1 DEF CursorOK, PollStep, PollExit, PollTick, ReadPointer, EdgeGate, Cross,
    ListToDisable, StoreDisabled, DisableOne, NotifyRemote, TeardownStep,
    CloseFds, WaitDrained, CloseConn, EnableStep, SetActive, TakeDisabled,
    MergeListing, EnableOne, EnableDone, LinkDown, RecvMachineSwitched,
    RecvNextMachine, DebounceExpires, GraceExpires, Terminated
<1>2. ASSUME NEW d \in Devs, DevStep(d)
      PROVE  UNCHANGED ev \/ ev' = [ev EXCEPT ![d] = NoEvent]
  BY <1>2 DEF DevStep, DevLoop, ReadFails, CheckActive, CheckGrace, HandleRel,
    HandleWheel, SendLocked, TrackHotkey, HandleKey, HandleRight, HotkeyCheck,
    ForwardCheck, Send, EnableStep, SetActive, TakeDisabled, MergeListing,
    EnableOne, EnableDone
<1>3. ASSUME NEW d \in Devs, ReadEvent(d)
      PROVE  \E e \in Events : ev' = [ev EXCEPT ![d] = e]
  BY <1>3 DEF ReadEvent
<1> QED BY <1>1, <1>2, <1>3 DEF Next, CursorOK

\* A step changes the cursor in one of three ways, or not.
CursorSame == UNCHANGED <<active, canReturn, remoteX>>

LEMMA CursorByRole ==
  ASSUME Points, [Next]_vars
  PROVE  \/ Cross \/ (\E d \in Devs : HandleRel(d))
         \/ (\E t \in Devs \cup {Main} : SetActive(t)) \/ CursorSame
BY ByRole DEF ListToDisable, StoreDisabled, DisableOne, NotifyRemote, EnableStep,
  TakeDisabled, MergeListing, EnableOne, EnableDone, WaitDrained, CloseConn,
  Bystander, CursorSame

LEMMA CursorOKStep ==
  ASSUME Points, CursorOK, [Next]_vars PROVE CursorOK'
<1>1. active' \in BOOLEAN /\ canReturn' \in BOOLEAN /\ remoteX' \in 0 .. NormMax
  <2>1. CASE Cross
    BY <2>1, EntryRange DEF Cross
  <2>2. ASSUME NEW d \in Devs, HandleRel(d)
        PROVE active' \in BOOLEAN /\ canReturn' \in BOOLEAN /\ remoteX' \in 0 .. NormMax
    <3>1. ev[d].dx \in Int /\ remoteX \in Int
      BY <2>2, MotionOfEvent DEF HandleRel, CursorOK
    <3>2. remoteX' \in 0 .. NormMax
      BY <2>2, <3>1, ClampRange DEF HandleRel
    <3>3. canReturn' \in BOOLEAN
      BY <2>2 DEF HandleRel, CursorOK
    <3>4. active' \in BOOLEAN
      BY <2>2 DEF HandleRel, CursorOK
    <3> QED BY <3>2, <3>3, <3>4
  <2>3. CASE \E t \in Devs \cup {Main} : SetActive(t)
    BY <2>3 DEF SetActive, CursorOK
  <2>4. CASE CursorSame
    BY <2>4 DEF CursorSame, CursorOK
  <2> QED BY <2>1, <2>2, <2>3, <2>4, CursorByRole
<1> QED BY <1>1, EventStep DEF CursorOK

LEMMA CrossRefines == ASSUME Cross PROVE RC!EnterRemoteEdge(EdgeSide, 0)
BY DEF Cross, RC!EnterRemoteEdge, RC!EntryX, RC!EntryY, EntryX

LEMMA MotionRefines ==
  ASSUME CursorOK, NEW d \in Devs, HandleRel(d)
  PROVE  RC!Motion(ev[d].dx, 0)
<1> DEFINE dx == ev[d].dx
<1>1. dx \in Int /\ remoteX \in Int
  BY MotionOfEvent DEF HandleRel, CursorOK
<1>2. \A a \in Int : RC!TruncUnits(a) = a
  BY DEF RC!TruncUnits
<1>3. remoteX' = Clamp(remoteX + dx)
  BY DEF HandleRel
<1>4. \A v \in Int : RC!Clamp(v) = Clamp(v)
  BY DEF RC!Clamp, Clamp
<1>5. RC!ReturnDepth(EdgeSide, remoteX', 0) = Depth(remoteX')
  BY DEF RC!ReturnDepth, Depth
<1>6. RC!HitSlack(EdgeSide) = HitSlack
  BY DEF RC!HitSlack, HitSlack
<1>7. canReturn' = (canReturn \/ Depth(remoteX') > SwitchMargin)
  BY DEF HandleRel
<1>8. active' = (active \/ (canReturn' /\ Depth(remoteX') <= HitSlack))
  <2>1. CASE canReturn' /\ Depth(remoteX') <= HitSlack
    BY <2>1 DEF HandleRel
  <2>2. CASE ~(canReturn' /\ Depth(remoteX') <= HitSlack)
    BY <2>2 DEF HandleRel, CursorOK
  <2> QED BY <2>1, <2>2
<1> HIDE DEF dx
<1>9. RC!Clamp(0 + RC!TruncUnits(0 + 0)) = 0 /\ RC!TruncUnits(0 + dx) = dx
  BY <1>1, <1>2 DEF RC!Clamp
<1>10. remoteX' = RC!Clamp(remoteX + RC!TruncUnits(0 + dx))
  BY <1>1, <1>3, <1>4, <1>9
<1>11. 0 + dx - RC!TruncUnits(0 + dx) * 1 = 0 /\ 0 + 0 - RC!TruncUnits(0 + 0) * 1 = 0
  BY <1>1, <1>2
<1> QED BY <1>5, <1>6, <1>7, <1>8, <1>9, <1>10, <1>11 DEF RC!Motion, RC!ReturnArmed, dx

LEMMA SetActiveRefines ==
  ASSUME CursorOK, NEW t, SetActive(t) PROVE RC!SetActive
BY DEF SetActive, RC!SetActive, CursorOK

(* The cursor fields of the X11 capturer follow RemoteCursor, whatever the *)
(* goroutines do between their critical sections: what RemoteCursor_proofs *)
(* shows of the cursor holds here.                                         *)
THEOREM RefinesCursor == Spec => ImplementsRemoteCursor
<1>1. Init => RC!CursorInit
  BY DEF Init, RC!CursorInit
<1>2. Points /\ CursorOK /\ [Next]_vars => [RC!CursorNext]_(RC!cursorVars)
  <2> SUFFICES ASSUME Points, CursorOK, [Next]_vars
               PROVE  RC!CursorNext \/ UNCHANGED RC!cursorVars
    OBVIOUS
  <2>1. CASE Cross
    BY <2>1, CrossRefines DEF RC!CursorNext
  <2>2. ASSUME NEW d \in Devs, HandleRel(d) PROVE RC!CursorNext
    <3>1. ev[d].dx \in Moves
      BY <2>2, MotionOfEvent DEF HandleRel
    <3> QED BY <2>2, <3>1, MotionRefines DEF RC!CursorNext
  <2>3. CASE \E t \in Devs \cup {Main} : SetActive(t)
    BY <2>3, SetActiveRefines DEF RC!CursorNext
  <2>4. CASE CursorSame
    BY <2>4 DEF CursorSame, RC!cursorVars
  <2> QED BY <2>1, <2>2, <2>3, <2>4, CursorByRole
<1>3. Spec => []CursorOK
  BY CursorOKInit, CursorOKStep, PointsCorrect, PTL DEF Spec
<1> QED BY <1>1, <1>2, <1>3, PointsCorrect, PTL DEF Spec, ImplementsRemoteCursor, RC!CursorSpec

\* EdgeIsNeverDeaf on the one axis of X11.
Awake == ~active /\ Depth(remoteX) <= HitSlack => ~canReturn

LEMMA AwakeIsNeverDeaf == ASSUME CursorOK, Awake PROVE RC!EdgeIsNeverDeaf
<1>1. RC!Depth = Depth(remoteX)
  BY DEF RC!Depth, RC!ReturnDepth, Depth
<1>2. RC!HitSlack(EdgeSide) = HitSlack
  BY DEF RC!HitSlack, HitSlack
<1>3. ASSUME Depth(remoteX) <= HitSlack PROVE Depth(remoteX) <= ReturnMargin
  <2>1. Depth(remoteX) \in Int
    BY DEF CursorOK, Depth
  <2>2. HitSlack \in 0 .. 1
    BY DEF HitSlack
  <2> QED BY <1>3, <2>1, <2>2
<1> QED BY <1>1, <1>2, <1>3 DEF RC!EdgeIsNeverDeaf, RC!AcceptsActivation, Awake

LEMMA AwakeStep ==
  ASSUME Points, CursorOK, Awake, [Next]_vars PROVE Awake'
<1>1. CASE Cross
  BY <1>1 DEF Cross, Awake
<1>2. ASSUME NEW d \in Devs, HandleRel(d) PROVE Awake'
  <2>1. CASE canReturn' /\ Depth(remoteX') <= HitSlack
    BY <1>2, <2>1 DEF HandleRel, Awake
  <2>2. CASE ~(canReturn' /\ Depth(remoteX') <= HitSlack)
    BY <2>2 DEF Awake, Depth, HitSlack
  <2> QED BY <2>1, <2>2
<1>3. CASE \E t \in Devs \cup {Main} : SetActive(t)
  BY <1>3 DEF SetActive, Awake
<1>4. CASE CursorSame
  BY <1>4 DEF CursorSame, Awake, Depth, HitSlack
<1> QED BY <1>1, <1>2, <1>3, <1>4, CursorByRole

(* While the remote owns the pointer at the return edge, its hand-back is  *)
(* accepted, although the goroutines test and use the owner in separate    *)
(* critical sections.                                                      *)
THEOREM EdgeNeverDeaf == Spec => []RC!EdgeIsNeverDeaf
<1>1. Init => Awake
  BY DEF Init, Awake
<1>2. Spec => []CursorOK
  BY CursorOKInit, CursorOKStep, PointsCorrect, PTL DEF Spec
<1>3. Spec => []Awake
  BY <1>1, <1>2, AwakeStep, PointsCorrect, PTL DEF Spec
<1> QED BY <1>2, <1>3, AwakeIsNeverDeaf, PTL

----------------------------------------------------------------------------
(***************************************************************************)
(* Which devices are off.  As long as none are astray:                     *)
(*   - while the poller disables, Linux is not the owner, nobody enables,  *)
(*     and the cache is what is off and what will be;                      *)
(*   - otherwise, what is off is in the cache or in the hands of somebody  *)
(*     who is enabling it, and the cache holds nothing else;               *)
(*   - whoever took the cache left it empty, and when Linux is the owner   *)
(*     or Stop is done somebody took it, or is about to.                   *)
(***************************************************************************)
PastTake(t) == pc[t] \in {"relist", "enable"}
InHands(id) == \E t \in Switchers : PastTake(t) /\ id \in todo[t]

IdsOK ==
  /\ xoff \subseteq Xids /\ disabledIDs \subseteq Xids
  /\ todo \in [Threads -> SUBSET Xids]

WhileDisabling ==
  /\ ~active /\ ~SomeoneEnabling
  /\ pc[Poll] = "list" => Reliable \/ xoff = {}
  /\ pc[Poll] = "store" => xoff \subseteq todo[Poll]
  /\ pc[Poll] = "disable" => disabledIDs = xoff \cup todo[Poll]

Otherwise ==
  /\ disabledIDs \subseteq xoff
  /\ \A id \in xoff \ disabledIDs : InHands(id)
  /\ (\E t \in Switchers : PastTake(t)) => disabledIDs = {}
  /\ active \/ pc[Main] \in {"close", "done"} =>
       disabledIDs = {} \/ \E t \in Switchers : pc[t] = "take"

SwitchInv ==
  /\ IdsOK
  /\ ~astray => IF Disabling THEN WhileDisabling ELSE Otherwise

LEMMA ListingIds ==
  ASSUME NEW ids \in Listings
  PROVE  ids \subseteq Xids /\ (Reliable => ids = Xids)
BY DEF Listings, Reliable

LEMMA SwitchInit == ASSUME Init PROVE SwitchInv
BY DEF Init, SwitchInv, IdsOK, Otherwise, Disabling

LEMMA IdsStep ==
  ASSUME Points, IdsOK, [Next]_vars PROVE IdsOK'
<1>1. CASE ListToDisable
  BY <1>1, ListingIds DEF ListToDisable, IdsOK
<1>2. CASE \E id \in Xids : DisableOne(id)
  BY <1>2 DEF DisableOne, IdsOK
<1>3. CASE Cross \/ StoreDisabled \/ NotifyRemote \/ WaitDrained \/ CloseConn \/ Bystander
  BY <1>3 DEF Cross, StoreDisabled, NotifyRemote, WaitDrained, CloseConn, Bystander, IdsOK
<1>4. CASE \E d \in Devs : HandleRel(d)
  BY <1>4 DEF HandleRel, IdsOK
<1>5. ASSUME NEW t \in Switchers, EnableStep(t) PROVE IdsOK'
  <2>1. CASE SetActive(t) \/ EnableDone(t)
    BY <2>1 DEF SetActive, EnableDone, IdsOK
  <2>2. CASE TakeDisabled(t)
    BY <2>2 DEF TakeDisabled, IdsOK
  <2>3. CASE MergeListing(t)
    BY <2>3, ListingIds DEF MergeListing, IdsOK
  <2>4. CASE \E id \in Xids : EnableOne(t, id)
    BY <2>4 DEF EnableOne, IdsOK
  <2> QED BY <1>5, <2>1, <2>2, <2>3, <2>4 DEF EnableStep
<1> QED BY <1>1, <1>2, <1>3, <1>4, <1>5, ByRole DEF Switchers

\* While the poller is at work, Main is not past its end.
LEMMA MainWaitsForPoller ==
  ASSUME DrainInv, pc[Main] \in {"close", "done"} PROVE pc[Poll] = "done"
BY DEF DrainInv

\* Being past the cache, or on the way to it, is being an enabler.
LEMMA EnablersAre ==
  ~SomeoneEnabling <=> \A t \in Switchers : pc[t] # "take" /\ ~PastTake(t)
BY DEF SomeoneEnabling, Enabling, PastTake, Switchers

LEMMA SwitchStep ==
  ASSUME Points, AwayInv, DrainInv, SwitchInv, [Next]_vars PROVE SwitchInv'
<1> SUFFICES ASSUME ~astray'
             PROVE  IF Disabling' THEN WhileDisabling' ELSE Otherwise'
  BY IdsStep DEF SwitchInv
<1>i. IdsOK /\ Switchers \subseteq Threads /\ Poll \notin Switchers
  BY DEF SwitchInv, Switchers
<1>1. CASE Cross
  <2>1. ~SomeoneEnabling /\ (~astray \/ Reliable) /\ pc[Poll] = "cross" /\ active
    BY <1>1 DEF Cross, AwayInv
  <2>2. Reliable \/ xoff = {}
    <3>1. CASE ~astray
      <4>1. Otherwise
        BY <3>1, <2>1 DEF SwitchInv, Disabling
      <4>2. disabledIDs = {}
        BY <4>1, <2>1, EnablersAre DEF Otherwise
      <4>3. \A id \in xoff : InHands(id)
        BY <4>1, <4>2 DEF Otherwise
      <4> QED BY <4>3, <2>1, EnablersAre DEF InHands
    <3> QED BY <2>1, <3>1
  <2>3. pc'[Poll] = "list" /\ ~active' /\ xoff' = xoff
    BY <1>1 DEF Cross, Points
  <2>4. ~SomeoneEnabling'
    BY <1>1, <2>1 DEF Cross, SomeoneEnabling, Enabling, Points
  <2> QED BY <2>2, <2>3, <2>4 DEF Disabling, WhileDisabling, Reliable
<1>2. CASE ListToDisable
  <2>1. WhileDisabling /\ pc[Poll] = "list"
    BY <1>2 DEF ListToDisable, SwitchInv, Disabling
  <2>2. xoff' \subseteq todo'[Poll]
    BY <1>2, <1>i, <2>1, ListingIds DEF ListToDisable, WhileDisabling, IdsOK
  <2>3. pc'[Poll] = "store" /\ ~SomeoneEnabling' /\ ~active'
    BY <1>2, <2>1 DEF ListToDisable, WhileDisabling, SomeoneEnabling, Enabling, Points
  <2> QED BY <2>2, <2>3 DEF Disabling, WhileDisabling
<1>3. CASE StoreDisabled
  <2>1. WhileDisabling /\ pc[Poll] = "store"
    BY <1>3 DEF StoreDisabled, SwitchInv, Disabling
  <2>2. disabledIDs' = xoff' \cup todo'[Poll]
    BY <1>3, <2>1 DEF StoreDisabled, WhileDisabling
  <2>3. pc'[Poll] = "disable" /\ ~SomeoneEnabling' /\ ~active'
    BY <1>3, <2>1 DEF StoreDisabled, WhileDisabling, SomeoneEnabling, Enabling, Points
  <2> QED BY <2>2, <2>3 DEF Disabling, WhileDisabling
<1>4. ASSUME NEW id \in Xids, DisableOne(id)
      PROVE  IF Disabling' THEN WhileDisabling' ELSE Otherwise'
  <2>1. WhileDisabling /\ pc[Poll] = "disable"
    BY <1>4 DEF DisableOne, SwitchInv, Disabling
  <2>2. disabledIDs' = xoff' \cup todo'[Poll]
    BY <1>4, <1>i, <2>1 DEF DisableOne, WhileDisabling, IdsOK
  <2>3. pc'[Poll] = "disable" /\ ~SomeoneEnabling' /\ ~active'
    BY <1>4, <2>1 DEF DisableOne, WhileDisabling, SomeoneEnabling, Enabling
  <2> QED BY <2>2, <2>3 DEF Disabling, WhileDisabling
<1>5. CASE NotifyRemote
  <2>1. WhileDisabling /\ pc[Poll] = "disable" /\ todo[Poll] = {}
    BY <1>5 DEF NotifyRemote, SwitchInv, Disabling
  <2>2. disabledIDs' = xoff' /\ ~active' /\ pc'[Poll] = "loop"
    BY <1>5, <2>1 DEF NotifyRemote, WhileDisabling, Points
  <2>3. \A t \in Switchers : ~PastTake(t)'
    BY <1>5, <2>1, EnablersAre DEF NotifyRemote, WhileDisabling, PastTake, Points, Switchers
  <2>4. pc'[Main] \notin {"close", "done"}
    BY <1>5, <2>1, MainWaitsForPoller DEF NotifyRemote, Points
  <2> QED BY <2>2, <2>3, <2>4 DEF Disabling, Otherwise
<1>6. CASE WaitDrained \/ CloseConn
  <2>1. pc[Poll] = "done" /\ pc'[Poll] = "done"
    BY <1>6, MainWaitsForPoller DEF WaitDrained, CloseConn, Points
  <2>2. Otherwise /\ UNCHANGED <<active, disabledIDs, xoff, todo>>
    BY <1>6, <2>1 DEF WaitDrained, CloseConn, SwitchInv, Disabling
  <2>3. /\ \A t \in Switchers : PastTake(t)' <=> PastTake(t)
        /\ \A t \in Switchers : pc[t] = "take" => pc'[t] = "take"
    BY <1>6 DEF WaitDrained, CloseConn, PastTake, Points, Switchers
  <2>4. pc'[Main] \in {"close", "done"} =>
          disabledIDs = {} \/ \E t \in Switchers : pc'[t] = "take"
    BY <1>6, <2>2, <2>3 DEF WaitDrained, CloseConn, Otherwise, Points
  <2>5. Otherwise'
    BY <2>2, <2>3, <2>4 DEF Otherwise, InHands
  <2> QED BY <2>1, <2>5 DEF Disabling
<1>7. CASE Bystander
  <2>1. /\ UNCHANGED <<active, disabledIDs, xoff, todo, astray>>
        /\ pc[Main] \notin {"close", "done"} => pc'[Main] \notin {"close", "done"}
    BY <1>7 DEF Bystander
  <2>2. \A t \in Threads : \/ pc'[t] = pc[t]
                           \/ pc[t] \notin Switching /\ pc'[t] \notin Switching
    BY <1>7 DEF Bystander
  <2>3. /\ \A t \in Switchers : PastTake(t)' <=> PastTake(t)
        /\ \A t \in Switchers : pc'[t] = "take" <=> pc[t] = "take"
    BY <2>2, <1>i DEF PastTake, Switching
  <2>4. Disabling' <=> Disabling
    BY <2>2 DEF Disabling, Switching
  <2>5. CASE Disabling
    <3>1. WhileDisabling /\ pc'[Poll] = pc[Poll]
      BY <2>1, <2>2, <2>5 DEF SwitchInv, Disabling, Switching
    <3>2. ~SomeoneEnabling'
      BY <2>3, <3>1, EnablersAre DEF WhileDisabling, SomeoneEnabling, Enabling, PastTake, Switchers
    <3> QED BY <2>1, <2>4, <2>5, <3>1, <3>2 DEF WhileDisabling
  <2>6. CASE ~Disabling
    <3>1. Otherwise
      BY <2>1, <2>6 DEF SwitchInv
    <3>2. Otherwise'
      BY <2>1, <2>3, <3>1 DEF Otherwise, InHands
    <3> QED BY <2>4, <2>6, <3>2
  <2> QED BY <2>5, <2>6
<1>8. ASSUME NEW d \in Devs, HandleRel(d)
      PROVE  IF Disabling' THEN WhileDisabling' ELSE Otherwise'
  <2>1. /\ UNCHANGED <<disabledIDs, xoff, todo>>
        /\ \A t \in Threads : t # d => pc'[t] = pc[t]
        /\ pc[d] = "handle"
    BY <1>8 DEF HandleRel, Points
  <2>2. /\ ~astray
        /\ \/ pc'[d] = "take" /\ ~Disabling
           \/ pc'[d] = "sendLocked" /\ UNCHANGED active
    <3>1. \/ Goto(d, "take") /\ astray' = (astray \/ Disabling)
          \/ Goto(d, "sendLocked") /\ UNCHANGED <<active, astray>>
      BY <1>8 DEF HandleRel
    <3>2. CASE Goto(d, "take") /\ astray' = (astray \/ Disabling)
      <4>1. ~astray /\ ~Disabling
        BY <3>2
      <4>2. pc'[d] = "take"
        BY <3>2 DEF Points
      <4> QED BY <4>1, <4>2
    <3>3. CASE Goto(d, "sendLocked") /\ UNCHANGED <<active, astray>>
      <4>1. ~astray /\ UNCHANGED active
        BY <3>3
      <4>2. pc'[d] = "sendLocked"
        BY <3>3 DEF Points
      <4> QED BY <4>1, <4>2
    <3> QED BY <3>1, <3>2, <3>3
  <2>3. Disabling' <=> Disabling
    BY <2>1 DEF Disabling
  <2>4. CASE Disabling
    <3>1. WhileDisabling /\ UNCHANGED active /\ pc'[d] = "sendLocked"
      BY <2>2, <2>4 DEF SwitchInv
    <3>2. ~SomeoneEnabling'
      BY <2>1, <3>1 DEF WhileDisabling, SomeoneEnabling, Enabling
    <3> QED BY <2>1, <2>3, <2>4, <3>1, <3>2 DEF WhileDisabling
  <2>5. CASE ~Disabling
    <3>1. Otherwise
      BY <2>2, <2>5 DEF SwitchInv
    <3>2. \A t \in Switchers : PastTake(t)' <=> PastTake(t)
      BY <2>1, <2>2, <1>i DEF PastTake
    <3>3. \A t \in Switchers : pc[t] = "take" => pc'[t] = "take"
      BY <2>1, <1>i
    <3>4. active' => active \/ pc'[d] = "take"
      BY <2>2
    <3>5. Otherwise'
      BY <2>1, <3>1, <3>2, <3>3, <3>4 DEF Otherwise, InHands, Switchers
    <3> QED BY <2>3, <2>5, <3>5
  <2> QED BY <2>4, <2>5
<1>9. ASSUME NEW t \in Switchers, EnableStep(t)
      PROVE  IF Disabling' THEN WhileDisabling' ELSE Otherwise'
  <2>p. t \in Threads /\ t # Poll
    BY <1>i
  <2>1. CASE SetActive(t)
    <3>1. /\ UNCHANGED <<disabledIDs, xoff, todo>> /\ ~astray
          /\ \A u \in Threads : u # t => pc'[u] = pc[u]
          /\ pc[t] = "activate"
      <4>1. ~astray
        BY <2>1, Zenon DEF SetActive
      <4> QED BY <2>1, <4>1 DEF SetActive, Points
    <3>2. Disabling' <=> Disabling
      BY <2>p, <3>1 DEF Disabling
    <3>3. \/ pc'[t] \in {"loop", "recv"} /\ UNCHANGED active
          \/ pc'[t] = "take" /\ ~Disabling
      <4>1. t = Main => ~stopped
        BY <3>1 DEF DrainInv
      <4> QED BY <2>1, <2>p, <4>1 DEF SetActive, Resume, Points, Switchers
    <3>4. CASE Disabling
      <4>1. WhileDisabling /\ UNCHANGED active /\ pc'[t] \in {"loop", "recv"}
        BY <3>1, <3>3, <3>4 DEF SwitchInv
      <4>2. ~SomeoneEnabling'
        BY <3>1, <4>1 DEF WhileDisabling, SomeoneEnabling, Enabling
      <4> QED BY <2>p, <3>1, <3>2, <3>4, <4>1, <4>2 DEF WhileDisabling
    <3>5. CASE ~Disabling
      <4>1. Otherwise
        BY <3>1, <3>5 DEF SwitchInv
      <4>2. \A u \in Switchers : PastTake(u)' <=> PastTake(u)
        BY <3>1, <3>3, <1>i DEF PastTake
      <4>3. \A u \in Switchers : pc[u] = "take" => pc'[u] = "take"
        BY <3>1, <1>i
      <4>4. pc'[Main] \in {"close", "done"} => pc[Main] \in {"close", "done"}
        BY <3>1, <3>3, <1>i DEF Switchers
      <4>5. Otherwise'
        BY <3>1, <3>3, <4>1, <4>2, <4>3, <4>4 DEF Otherwise, InHands
      <4> QED BY <3>2, <3>5, <4>5
    <3> QED BY <3>4, <3>5
  <2>2. CASE pc[t] \in {"take", "relist", "enable"}
    <3>1. /\ UNCHANGED <<active, astray>>
          /\ \A u \in Threads : u # t => pc'[u] = pc[u] /\ todo'[u] = todo[u]
      BY <1>9, <2>2, <1>i DEF EnableStep, SetActive, TakeDisabled, MergeListing,
        EnableOne, EnableDone, Points, IdsOK
    <3>2. SomeoneEnabling
      BY <2>2 DEF SomeoneEnabling, Enabling, Switchers
    <3>3. ~Disabling /\ ~Disabling' /\ Otherwise
      BY <2>p, <3>1, <3>2 DEF Disabling, SwitchInv, WhileDisabling
    <3>4. CASE TakeDisabled(t)
      <4>1. /\ pc[t] = "take" /\ pc'[t] = "relist"
            /\ todo'[t] = disabledIDs /\ disabledIDs' = {} /\ xoff' = xoff
        BY <2>p, <3>4, <1>i DEF TakeDisabled, Points, IdsOK
      <4>2. \A u \in Switchers : PastTake(u) => PastTake(u)' /\ u # t
        BY <3>1, <4>1, <1>i DEF PastTake
      <4>3. \A id \in xoff' : InHands(id)'
        BY <3>1, <3>3, <4>1, <4>2, <1>i DEF Otherwise, InHands, PastTake
      <4> QED BY <3>3, <4>1, <4>3 DEF Otherwise
    <3>5. CASE PastTake(t)
      <4>1. disabledIDs = {} /\ disabledIDs' = {}
        BY <1>9, <3>3, <3>5 DEF Otherwise, PastTake, EnableStep, SetActive,
          TakeDisabled, MergeListing, EnableOne, EnableDone
      <4>2. \A id \in xoff' : InHands(id)'
        <5>1. CASE MergeListing(t)
          <6>1. /\ pc'[t] = "enable" /\ todo[t] \subseteq todo'[t] /\ xoff' = xoff
            BY <2>p, <5>1, <1>i DEF MergeListing, Points, IdsOK
          <6> QED BY <3>1, <3>3, <4>1, <6>1, <1>i DEF Otherwise, InHands, PastTake
        <5>2. ASSUME NEW i \in Xids, EnableOne(t, i)
              PROVE  \A id \in xoff' : InHands(id)'
          <6>1. /\ pc' = pc /\ todo'[t] = todo[t] \ {i} /\ xoff' = xoff \ {i}
            BY <2>p, <5>2, <1>i DEF EnableOne, IdsOK
          <6> QED BY <3>1, <3>3, <4>1, <6>1, <1>i DEF Otherwise, InHands, PastTake
        <5>3. CASE EnableDone(t)
          <6>1. /\ todo[t] = {} /\ xoff' = xoff /\ todo' = todo
            BY <5>3 DEF EnableDone
          <6>2. \A id \in xoff : \E u \in Switchers \ {t} : PastTake(u) /\ id \in todo[u]
            BY <3>3, <4>1, <6>1 DEF Otherwise, InHands
          <6>3. \A u \in Switchers \ {t} : PastTake(u) => PastTake(u)'
            BY <3>1, <1>i DEF PastTake
          <6> QED BY <6>1, <6>2, <6>3 DEF InHands
        <5> QED BY <1>9, <3>5, <5>1, <5>2, <5>3 DEF EnableStep, PastTake, SetActive, TakeDisabled
      <4> QED BY <3>3, <4>1, <4>2 DEF Otherwise
    <3> QED BY <1>9, <2>2, <3>4, <3>5 DEF EnableStep, SetActive, MergeListing,
      EnableOne, EnableDone, PastTake
  <2> QED BY <1>9, <2>1, <2>2 DEF EnableStep, TakeDisabled, MergeListing, EnableOne, EnableDone
<1> QED BY <1>1, <1>2, <1>3, <1>4, <1>5, <1>6, <1>7, <1>8, <1>9, ByRole DEF Switchers

LEMMA AwayInit == ASSUME Init PROVE AwayInv
BY DEF Init, AwayInv

LEMMA DrainInit == ASSUME Init PROVE DrainInv
BY DEF Init, DrainInv

(* When nobody is switching devices and no activation ran into the last    *)
(* crossing, the X server agrees with the cache and with the ownership of  *)
(* the pointer, for any devices, listings and goroutines.                  *)
THEOREM DevicesFollow == Spec => []DevicesFollowOwnership
<1>1. ASSUME SwitchInv PROVE DevicesFollowOwnership
  <2> SUFFICES ASSUME Quiet, ~astray
               PROVE  /\ disabledIDs = xoff
                      /\ active \/ pc[Main] = "done" => xoff = {}
    BY DEF DevicesFollowOwnership
  <2>1. Otherwise /\ ~SomeoneEnabling
    BY <1>1 DEF SwitchInv, Quiet, Disabling
  <2>2. \A t \in Switchers : pc[t] # "take" /\ ~PastTake(t)
    BY <2>1, EnablersAre
  <2> QED BY <2>1, <2>2 DEF Otherwise, InHands
<1>2. Spec => [](AwayInv /\ DrainInv)
  BY AwayInit, AwayStep, DrainInit, DrainStep, PointsCorrect, PTL DEF Spec
<1>3. Spec => []SwitchInv
  BY SwitchInit, SwitchStep, <1>2, PointsCorrect, PTL DEF Spec
<1> QED BY <1>1, <1>3, PTL

----------------------------------------------------------------------------
(***************************************************************************)
(* What keeps Stop waiting, without its fairness.  Capturer.mu is held     *)
(* across a send only, by a goroutine that needs nothing more to go on;    *)
(* stopped, a device goroutine waits for its file at most until Main has   *)
(* closed it.                                                              *)
(***************************************************************************)
HasEvent(d) == pc[d] \in {"check", "grace", "handle"} => ev[d] \in Events

StopInv ==
  /\ mu # NoOne => mu \in Devs /\ pc[mu] = "sendLocked"
  /\ \A d \in Devs : HasEvent(d)
  /\ stopped /\ pc[Main] # "closeFds" => fdsClosed

\* The critical sections.
TakesMu(t) ==
  \/ pc[t] \in {"gate", "cross", "store", "check", "grace", "hotkey",
                "forward", "activate", "take", "closeFds"}
  \/ t \in Devs /\ pc[t] = "handle" /\ ev[t].kind \in {"rel", "wheel"}
  \/ pc[t] = "enable" /\ todo[t] = {}

\* A step of t can be taken, once stopCh is closed.
GoesOn(t) ==
  \/ TakesMu(t) /\ MuFree
  \/ pc[t] \in {"loop", "list", "disable", "relist", "sendLocked", "send", "close"}
  \/ pc[t] = "read" /\ (t = Poll \/ fdsClosed)
  \/ t \in Devs /\ pc[t] = "handle" /\ ev[t].kind \in Modifiers \cup {"button", "key", "right"}
  \/ pc[t] = "enable" /\ \E id \in Xids : id \in todo[t]
  \/ pc[t] = "wait" /\ \A u \in Devs \cup {Poll} : pc[u] = "done"

\* Who cannot go on waits for one who can, and Main for those it drains.
NoneKeepsStop ==
  stopped => \A t \in Threads : pc[t] # "done" =>
    \/ GoesOn(t)
    \/ TakesMu(t) /\ mu \in Devs /\ GoesOn(mu)
    \/ pc[t] = "read" /\ pc[Main] = "closeFds"
    \/ t = Main /\ pc[t] = "wait"

LEMMA StopPoll ==
  ASSUME Points, StopInv, PollStep \/ PollExit PROVE StopInv'
<1>1. UNCHANGED <<mu, ev, fdsClosed>>
  BY DEF PollStep, PollExit, PollTick, ReadPointer, EdgeGate, Cross, ListToDisable,
    StoreDisabled, DisableOne, NotifyRemote
<1>2. UNCHANGED stopped /\ pc'[Main] = pc[Main] /\ \A d \in Devs : pc'[d] = pc[d]
  BY PollFrame DEF Moved
<1>3. \A d \in Devs : HasEvent(d)'
  BY <1>1, <1>2 DEF StopInv, HasEvent
<1> QED BY <1>1, <1>2, <1>3 DEF StopInv

LEMMA StopEnabler ==
  ASSUME Points, DrainInv, StopInv, NEW t \in Switchers, EnableStep(t) PROVE StopInv'
<1>1. /\ UNCHANGED <<mu, stopped, fdsClosed>>
      /\ \A d \in Devs \ {t} : pc'[d] = pc[d]
      /\ pc[t] \in {"activate", "take", "relist", "enable"}
      /\ pc'[t] \in {"take", "relist", "enable", Resume(t)}
  BY EnableFrame DEF Moved, EnableStep, SetActive, TakeDisabled, MergeListing,
    EnableOne, EnableDone
<1>2. UNCHANGED ev
  BY DEF EnableStep, SetActive, TakeDisabled, MergeListing, EnableOne, EnableDone
<1>3. ASSUME NEW d \in Devs PROVE HasEvent(d)'
  <2>1. CASE d = t
    BY <1>1, <2>1 DEF HasEvent, Resume
  <2>2. CASE d # t
    BY <1>1, <1>2, <2>2 DEF StopInv, HasEvent
  <2> QED BY <2>1, <2>2
<1>4. mu' # NoOne => mu' \in Devs /\ pc'[mu'] = "sendLocked"
  BY <1>1 DEF StopInv
<1>5. stopped' /\ pc'[Main] # "closeFds" => fdsClosed'
  BY <1>1, EnableFrame DEF StopInv, Moved, Switchers
<1> QED BY <1>3, <1>4, <1>5 DEF StopInv

LEMMA StopDevice ==
  ASSUME Points, StopInv, ev \in [Devs -> Events \cup {NoEvent}],
         NEW d \in Devs, DevEvent(d)
  PROVE  StopInv'
<1>1. UNCHANGED <<stopped, fdsClosed>> /\ pc'[Main] = pc[Main]
      /\ \A u \in Devs \ {d} : pc'[u] = pc[u]
  BY DevFrame DEF Moved
<1>2. \A u \in Devs \ {d} : ev'[u] = ev[u]
  BY DEF DevEvent, DevLoop, ReadFails, ReadEvent, CheckActive, CheckGrace, HandleRel,
    HandleWheel, SendLocked, TrackHotkey, HandleKey, HandleRight, HotkeyCheck,
    ForwardCheck, Send
<1>3. \/ UNCHANGED mu /\ pc[d] # "sendLocked"
      \/ mu' = d /\ pc'[d] = "sendLocked"
      \/ mu' = NoOne
  BY DEF Points, DevEvent, DevLoop, ReadFails, ReadEvent, CheckActive, CheckGrace, HandleRel,
    HandleWheel, SendLocked, TrackHotkey, HandleKey, HandleRight, HotkeyCheck,
    ForwardCheck, Send
<1>4. HasEvent(d)'
  <2>1. CASE ReadEvent(d)
    BY <2>1 DEF ReadEvent, HasEvent
  <2>2. CASE ~ReadEvent(d)
    <3>1. \/ pc'[d] \notin {"check", "grace", "handle"}
          \/ pc[d] \in {"check", "grace"} /\ ev' = ev
      BY <2>2 DEF Points, DevEvent, DevLoop, ReadFails, CheckActive, CheckGrace, HandleRel,
        HandleWheel, SendLocked, TrackHotkey, HandleKey, HandleRight, HotkeyCheck,
        ForwardCheck, Send
    <3> QED BY <3>1 DEF HasEvent, StopInv
  <2> QED BY <2>1, <2>2
<1>5. \A u \in Devs : HasEvent(u)'
  BY <1>1, <1>2, <1>4 DEF HasEvent, StopInv
<1>6. mu' # NoOne => mu' \in Devs /\ pc'[mu'] = "sendLocked"
  BY <1>1, <1>3 DEF StopInv
<1> QED BY <1>1, <1>5, <1>6 DEF StopInv

LEMMA StopMain == ASSUME Points, StopInv, MainStep PROVE StopInv'
<1>1. UNCHANGED <<mu, ev>> /\ \A t \in Threads \ {Main} : pc'[t] = pc[t]
  BY MainFrame DEF MainStep, CloseFds, WaitDrained, CloseConn, LinkDown,
    RecvMachineSwitched, RecvNextMachine, DebounceExpires, GraceExpires
<1>2. stopped' /\ pc'[Main] # "closeFds" => fdsClosed'
  <2>1. CASE CloseFds \/ LinkDown
    BY <2>1 DEF CloseFds, LinkDown, Points
  <2>2. CASE ~CloseFds /\ ~LinkDown
    BY <2>2 DEF StopInv, MainStep, WaitDrained, CloseConn, RecvMachineSwitched,
      RecvNextMachine, DebounceExpires, GraceExpires
  <2> QED BY <2>1, <2>2
<1> QED BY <1>1, <1>2 DEF StopInv, HasEvent

LEMMA StopTypes ==
  Spec => [](Points /\ DrainInv /\ CursorOK /\ IdsOK /\ StopInv)
<1>1. Init => CursorOK /\ IdsOK /\ StopInv
  BY CursorOKInit, SwitchInit DEF SwitchInv, Init, StopInv, HasEvent
<1>2. ASSUME Points, DrainInv, CursorOK, StopInv, [Next]_vars PROVE StopInv'
  BY <1>2, Actors, StopPoll, StopEnabler, StopDevice, StopMain DEF CursorOK
<1>3. Spec => [](DrainInv /\ CursorOK /\ IdsOK)
  BY <1>1, DrainInit, DrainStep, CursorOKStep, IdsStep, PointsCorrect, PTL DEF Spec
<1>4. Spec => []StopInv
  BY <1>1, <1>2, <1>3, PointsCorrect, PTL DEF Spec
<1> QED BY <1>3, <1>4, PointsCorrect, PTL

(* Stop cannot hang: once stopCh is closed, whatever a goroutine waits for *)
(* (mu, the end of its file) somebody who can go on is about to provide,   *)
(* and so is what Main waits for; for any devices, events and listings.    *)
THEOREM StopNeverHangs == Spec => []NoneKeepsStop
<1>1. ASSUME Points, DrainInv, CursorOK, IdsOK, StopInv PROVE NoneKeepsStop
  <2> SUFFICES ASSUME stopped, NEW t \in Threads, pc[t] # "done"
               PROVE  \/ GoesOn(t)
                      \/ TakesMu(t) /\ mu \in Devs /\ GoesOn(mu)
                      \/ pc[t] = "read" /\ pc[Main] = "closeFds"
                      \/ t = Main /\ pc[t] = "wait"
    BY DEF NoneKeepsStop
  <2>1. MuFree \/ (mu \in Devs /\ GoesOn(mu))
    BY <1>1 DEF StopInv, GoesOn
  <2>2. CASE TakesMu(t)
    BY <2>1, <2>2 DEF GoesOn
  <2>3. CASE ~TakesMu(t) /\ pc[t] = "enable"
    <3>1. todo[t] \subseteq Xids /\ todo[t] # {}
      BY <1>1, <2>3 DEF IdsOK, TakesMu
    <3> QED BY <2>3, <3>1 DEF GoesOn
  <2>4. CASE ~TakesMu(t) /\ pc[t] = "handle"
    <3>1. t \in Devs
      BY <1>1, <2>4 DEF Points, PollPoints, MainPoints
    <3>2. ev[t].kind \in AllKinds
      BY <1>1, <2>4, <3>1 DEF StopInv, HasEvent, Events
    <3> QED BY <2>4, <3>1, <3>2 DEF TakesMu, GoesOn, AllKinds
  <2>5. CASE ~TakesMu(t) /\ pc[t] = "read"
    BY <1>1, <2>5 DEF StopInv, GoesOn
  <2>6. CASE ~TakesMu(t) /\ pc[t] \notin {"enable", "handle", "read"}
    <3>1. pc[t] # "recv"
      BY <1>1 DEF DrainInv, Points, PollPoints, DevPoints
    <3>2. pc[t] \in PollPoints \cup DevPoints \cup MainPoints
      BY <1>1 DEF Points
    <3>3. t # Main => pc[t] # "wait"
      BY <1>1 DEF Points, PollPoints, DevPoints
    <3> QED BY <2>6, <3>1, <3>2, <3>3
        DEF PollPoints, DevPoints, MainPoints, GoesOn, TakesMu
  <2> QED BY <2>2, <2>3, <2>4, <2>5, <2>6
<1> QED BY <1>1, StopTypes, PTL

----------------------------------------------------------------------------
(* From the decision to cross to the poll loop.                            *)
Crossing == {"cross", "list", "store", "disable"}

\* The next step of a crossing can be taken, or waits for one who can go on.
CrossingGoesOn ==
  /\ pc[Poll] \in {"cross", "store"} => MuFree \/ (mu \in Devs /\ GoesOn(mu))
  /\ pc[Poll] = "disable" => todo[Poll] = {} \/ \E id \in Xids : id \in todo[Poll]

\* Each step of the poller brings it nearer to its loop, no other one moves it.
CrossingAdvances ==
  pc[Poll] \in Crossing =>
    \/ UNCHANGED <<pc[Poll], todo[Poll]>>
    \/ pc[Poll] = "cross" /\ pc'[Poll] = "list"
    \/ pc[Poll] = "list" /\ pc'[Poll] = "store"
    \/ pc[Poll] = "store" /\ pc'[Poll] = "disable"
    \/ pc[Poll] = "disable" /\ pc'[Poll] = "loop" /\ todo[Poll] = {}
    \/ /\ pc[Poll] = "disable" /\ pc'[Poll] = "disable"
       /\ \E id \in todo[Poll] : todo'[Poll] = todo[Poll] \ {id}

(* No crossing is held up for good, whatever `xinput` lists and however    *)
(* many devices deliver events, so the poller gets back to where it sees   *)
(* that Stop waits for it ...                                              *)
THEOREM CrossingNeverHangs == Spec => []CrossingGoesOn
<1>1. ASSUME IdsOK, StopInv PROVE CrossingGoesOn
  BY <1>1 DEF IdsOK, StopInv, CrossingGoesOn, GoesOn
<1> QED BY <1>1, StopTypes, PTL

(* ... and each step of a crossing is one of finitely many on its way back *)
(* to polling, whatever the others do meanwhile.                           *)
THEOREM CrossingMovesOn == Spec => [][CrossingAdvances]_vars
<1>1. ASSUME Points, IdsOK, [Next]_vars PROVE CrossingAdvances
  <2> USE DEF CrossingAdvances, Crossing
  <2>1. CASE PollStep \/ PollExit
    <3>1. CASE PollExit \/ PollTick \/ ReadPointer \/ EdgeGate
      BY <3>1 DEF PollExit, PollTick, ReadPointer, EdgeGate
    <3>2. CASE Cross \/ ListToDisable \/ StoreDisabled \/ NotifyRemote
      BY <1>1, <3>2 DEF Cross, ListToDisable, StoreDisabled, NotifyRemote, Points
    <3>3. ASSUME NEW id \in Xids, DisableOne(id) PROVE CrossingAdvances
      BY <1>1, <3>3 DEF DisableOne, IdsOK
    <3> QED BY <2>1, <3>1, <3>2, <3>3 DEF PollStep
  <2>2. CASE \E d \in Devs : DevEvent(d)
    <3>1. PICK d \in Devs : DevEvent(d)
      BY <2>2
    <3>2. pc'[Poll] = pc[Poll]
      BY <1>1, <3>1, DevFrame DEF Moved
    <3>3. UNCHANGED todo
      BY <3>1 DEF DevEvent, DevLoop, ReadFails, ReadEvent, CheckActive, CheckGrace,
        HandleRel, HandleWheel, SendLocked, TrackHotkey, HandleKey, HandleRight,
        HotkeyCheck, ForwardCheck, Send
    <3> QED BY <3>2, <3>3
  <2>3. ASSUME NEW t \in Switchers, EnableStep(t) PROVE CrossingAdvances
    <3>1. pc'[Poll] = pc[Poll]
      BY <1>1, <2>3, EnableFrame DEF Moved, Switchers
    <3>2. todo'[Poll] = todo[Poll]
      BY <1>1, <2>3 DEF IdsOK, Switchers, EnableStep, SetActive, TakeDisabled,
        MergeListing, EnableOne, EnableDone
    <3> QED BY <3>1, <3>2
  <2>4. CASE MainStep
    <3>1. pc'[Poll] = pc[Poll]
      BY <1>1, <2>4, MainFrame
    <3>2. UNCHANGED todo
      BY <2>4 DEF MainStep, CloseFds, WaitDrained, CloseConn, LinkDown,
        RecvMachineSwitched, RecvNextMachine, DebounceExpires, GraceExpires
    <3> QED BY <3>1, <3>2
  <2> QED BY <1>1, <2>1, <2>2, <2>3, <2>4, Actors
<1> QED BY <1>1, StopTypes, PTL DEF Spec
============================================================================
