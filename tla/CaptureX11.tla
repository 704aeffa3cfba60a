---------------------------- MODULE CaptureX11 ----------------------------
(***************************************************************************)
(* The X11 capturer (internal/capture/capture_linux.go): the goroutines    *)
(* that share one Capturer during one connection, and their teardown.      *)
(*                                                                         *)
(*   Poll   pollCursorEdge: crosses to the remote when the local pointer   *)
(*          reaches the shared edge                                        *)
(*   Devs   one monitorDevice goroutine per /dev/input/event* device:      *)
(*          forwards input while the remote owns the pointer               *)
(*   Main   the connection loop of cmd/mwb/main.go: ReceiveLoop with the   *)
(*          hand-back callbacks, then Capturer.Stop and Conn.Close         *)
(*                                                                         *)
(* One action is one critical section of Capturer.mu, one command run in   *)
(* the X server, or one packet sent.  mu appears as a variable where it is *)
(* held across a blocking call (sendMouseLocked); any other critical       *)
(* section is an action that needs mu to be free.                          *)
(*                                                                         *)
(* The local pointer is not a variable: other pointers are never disabled, *)
(* so each poll reads any position.  Of the remote cursor only the axis    *)
(* that crosses EdgeSide matters on X11, in grid units (RemoteCursor with  *)
(* Frac = 1 and a single edge).                                            *)
(*                                                                         *)
(* A listing may fail or leave devices out; the commands that disable or   *)
(* enable one device take effect.                                          *)
(*                                                                         *)
(* A definition marked "mutant" is a plausible bug, used by no other       *)
(* definition: put in place of the one that follows, it must break a       *)
(* property.                                                               *)
(***************************************************************************)
EXTENDS Integers

CONSTANTS
  Devs,          \* evdev devices being monitored
  Xids,          \* X11 device ids that getXinputIDs finds attached
  Floats,        \* those that `xinput float` may detach, now and then
  EdgeSide,      \* the shared edge (-edge): "left" or "right"
  NormMax, SwitchMargin, ReturnMargin, ReclaimMargin,
  Kinds,         \* event kinds the devices deliver in a run
  Moves,         \* motion of one EV_REL event, in grid units
  Landings,      \* landing points of NextMachine requests
  ListMayFail,   \* whether `xinput list` may fail
  LeftOff        \* devices that an earlier capturer, or an earlier process
                 \*   that was killed, may have left disabled

Poll == "poll"
Main == "main"
NoOne == "none"

Modifiers == {"ctrlDown", "ctrlUp", "ctrlRepeat", "altDown", "altUp"}
AllKinds == {"rel", "wheel", "button", "key", "right"} \cup Modifiers

ASSUME CaptureAssumption ==
  /\ Devs \cap {Poll, Main, NoOne} = {}
  /\ Floats \subseteq Xids
  /\ EdgeSide \in {"left", "right"}
  /\ NormMax \in Nat /\ SwitchMargin \in Nat /\ ReturnMargin \in Nat
  /\ 1 <= ReturnMargin /\ ReturnMargin < SwitchMargin
  /\ 2 * SwitchMargin < NormMax
  /\ ReclaimMargin \in Nat
  /\ Kinds \subseteq AllKinds
  /\ Moves \subseteq Int
  /\ Landings \subseteq 0 .. NormMax
  /\ ListMayFail \in BOOLEAN
  /\ LeftOff \subseteq Xids

VARIABLES
  \* Capturer fields
  active, canSwitch, canReturn, remoteX,
  grace,        \* switchSent is set and less than 100ms ago
  debounce,     \* lastSwitch is less than 100ms ago
  hotkeyCtrl, hotkeyAlt,
  disabledIDs,  \* disabledXinputIDs
  stopped,      \* stopCh is closed
  fdsClosed,    \* deviceFiles are closed
  mu,           \* goroutine holding Capturer.mu across a send, or NoOne
  \* goroutines
  pc,           \* control point of Poll, Main and each device goroutine
  todo,         \* X11 ids a goroutine still has to enable or disable
  x,            \* pointer position read by the poller, "away" between polls
  ev,           \* event in the hands of a device goroutine
  \* surroundings
  xoff,         \* X11 devices that are disabled
  held,         \* modifiers physically held down
  connOpen,     \* Main has not closed the connection
  \* history
  awaySeen,     \* the pointer was read away from the edge since it came home
  astray,       \* devices may be off that the cache does not name: they were
                \*   left off, or an activation and a crossing ran into each
                \*   other
  late          \* events each device sent after control came home (up to 2)

capVars  == <<active, canSwitch, canReturn, remoteX, grace>>
keyVars  == <<hotkeyCtrl, hotkeyAlt, held>>
xVars    == <<disabledIDs, xoff>>
stopVars == <<stopped, fdsClosed, connOpen>>
histVars == <<awaySeen, astray, late>>
vars == <<capVars, debounce, keyVars, xVars, stopVars, mu, pc, todo, x,
          ev, histVars>>

Threads == {Poll, Main} \cup Devs

----------------------------------------------------------------------------
(* Helpers.                                                                *)

Goto(t, label) == pc' = [pc EXCEPT ![t] = label]
MuFree == mu = NoOne

\* RemoteCursor's geometry, for one edge and one axis.
Depth(rx) == IF EdgeSide = "right" THEN rx ELSE NormMax - rx
HitSlack  == IF EdgeSide = "right" THEN 0 ELSE 1
Clamp(v)  == IF v < 0 THEN 0 ELSE IF v > NormMax THEN NormMax ELSE v
EntryX    == IF EdgeSide = "right" THEN SwitchMargin ELSE NormMax - SwitchMargin

AcceptsActivation == active \/ Depth(remoteX) <= ReturnMargin

AcceptsReclaim(requestX) ==
  IF EdgeSide = "left" THEN requestX <= ReclaimMargin
                       ELSE requestX >= NormMax - ReclaimMargin

\* What `xinput list` yields: attached devices only, nothing when it fails.
Listings == {Xids \ floating : floating \in SUBSET Floats}
              \cup (IF ListMayFail THEN {{}} ELSE {})

\* Every listing is complete: only then does a clean crossing, whose hand-back
\* merges a fresh one, heal what went astray before.
Reliable == Floats = {} /\ ~ListMayFail

Disabling == pc[Poll] \in {"list", "store", "disable"}
Enabling(t) == pc[t] \in {"take", "relist", "enable"}
SomeoneEnabling == \E t \in Devs \cup {Main} : Enabling(t)

NoEvent == [kind |-> "none", dx |-> 0]
Events  == [kind : Kinds \cap {"rel"}, dx : Moves]
             \cup [kind : Kinds \ {"rel"}, dx : {0}]

\* A device can deliver an event only if the keyboard is in a state for it.
Possible(kind) ==
  CASE kind = "ctrlDown" -> "ctrl" \notin held
    [] kind \in {"ctrlUp", "ctrlRepeat"} -> "ctrl" \in held
    [] kind = "altDown" -> "alt" \notin held
    [] kind = "altUp" -> "alt" \in held
    [] OTHER -> TRUE

\* Where a goroutine goes on after SetActive or enableXinput.
Resume(t) == IF t # Main THEN "loop" ELSE IF stopped THEN "close" ELSE "recv"

----------------------------------------------------------------------------
(* Init: New and Run.                                                      *)
Init ==
  /\ active = TRUE /\ canSwitch = TRUE /\ canReturn = FALSE
  /\ remoteX = 0 /\ grace = FALSE /\ debounce = FALSE
  /\ hotkeyCtrl = FALSE /\ hotkeyAlt = FALSE /\ held = {}
  /\ disabledIDs = {} /\ xoff \in SUBSET LeftOff
  /\ stopped = FALSE /\ fdsClosed = FALSE /\ connOpen = TRUE
  /\ mu = NoOne
  /\ pc = [t \in Threads |-> IF t = Main THEN "recv" ELSE "loop"]
  /\ todo = [t \in Threads |-> {}]
  /\ x = "away"
  /\ ev = [d \in Devs |-> NoEvent]
  /\ awaySeen = TRUE /\ astray = (xoff # {})
  /\ late = [d \in Devs |-> 0]

----------------------------------------------------------------------------
(* pollCursorEdge.                                                         *)

\* select: the stop channel.
PollExit ==
  /\ pc[Poll] = "loop" /\ stopped
  /\ Goto(Poll, "done")
  /\ UNCHANGED <<capVars, debounce, keyVars, xVars, stopVars, mu, todo, x,
                 ev, histVars>>

\* select: the ticker, when Linux owns the pointer.
PollTick ==
  /\ pc[Poll] = "loop" /\ MuFree
  /\ active
  /\ Goto(Poll, "read")
  /\ UNCHANGED <<capVars, debounce, keyVars, xVars, stopVars, mu, todo, x,
                 ev, histVars>>

\* getCursorPosition, which may fail.
ReadPointer ==
  /\ pc[Poll] = "read"
  /\ \/ /\ x' \in {"edge", "zone", "away"}
        /\ awaySeen' = (awaySeen \/ x' = "away")
        /\ Goto(Poll, "gate")
     \/ /\ Goto(Poll, "loop")
        /\ UNCHANGED <<x, awaySeen>>
  /\ UNCHANGED <<capVars, debounce, keyVars, xVars, stopVars, mu, todo,
                 ev, astray, late>>

\* The canSwitch gate and the debounce.
EdgeGate ==
  /\ pc[Poll] = "gate" /\ MuFree
  /\ canSwitch' = (canSwitch \/ x = "away")
  /\ IF canSwitch' /\ x = "edge" /\ ~debounce
       THEN debounce' = TRUE /\ Goto(Poll, "cross")
       ELSE UNCHANGED debounce /\ Goto(Poll, "loop")
  /\ x' = "away"
  /\ UNCHANGED <<active, canReturn, remoteX, grace, keyVars, xVars, stopVars,
                 mu, todo, ev, histVars>>

CrossKeepsGate ==                                              \* mutant
  /\ pc[Poll] = "cross" /\ MuFree
  /\ active' = FALSE /\ grace' = TRUE
  /\ remoteX' = EntryX /\ UNCHANGED canReturn
  /\ astray' = (SomeoneEnabling \/ (astray /\ ~Reliable))
  /\ late' = [d \in Devs |-> 0]
  /\ Goto(Poll, "list")
  /\ UNCHANGED <<canSwitch, debounce, keyVars, xVars, stopVars, mu, todo, x,
                 ev, awaySeen>>

\* Control crosses to the remote.
Cross ==
  /\ pc[Poll] = "cross" /\ MuFree
  /\ active' = FALSE /\ grace' = TRUE
  /\ remoteX' = EntryX /\ canReturn' = FALSE
  /\ astray' = (SomeoneEnabling \/ (astray /\ ~Reliable))
  /\ late' = [d \in Devs |-> 0]
  /\ Goto(Poll, "list")
  /\ UNCHANGED <<canSwitch, debounce, keyVars, xVars, stopVars, mu, todo, x,
                 ev, awaySeen>>

ListEnabledOnly ==                                             \* mutant
  /\ pc[Poll] = "list"
  /\ \E ids \in Listings : todo' = [todo EXCEPT ![Poll] = ids \ xoff]
  /\ Goto(Poll, "store")
  /\ UNCHANGED <<capVars, debounce, keyVars, xVars, stopVars, mu, x,
                 ev, histVars>>

\* disableXinput: list the devices, remember them, disable one by one.
ListToDisable ==
  /\ pc[Poll] = "list"
  /\ \E ids \in Listings : todo' = [todo EXCEPT ![Poll] = ids]
  /\ Goto(Poll, "store")
  /\ UNCHANGED <<capVars, debounce, keyVars, xVars, stopVars, mu, x,
                 ev, histVars>>

StoreDisabled ==
  /\ pc[Poll] = "store" /\ MuFree
  /\ disabledIDs' = todo[Poll]
  /\ Goto(Poll, "disable")
  /\ UNCHANGED <<capVars, debounce, keyVars, xoff, stopVars, mu,
                 todo, x, ev, histVars>>

DisableOne(id) ==
  /\ pc[Poll] = "disable" /\ id \in todo[Poll]
  /\ xoff' = xoff \cup {id}
  /\ todo' = [todo EXCEPT ![Poll] = @ \ {id}]
  /\ UNCHANGED <<capVars, debounce, keyVars, disabledIDs, stopVars,
                 mu, pc, x, ev, histVars>>

\* NotifyRemoteSwitch.  The goroutine that then repeats the entry position to
\* the remote touches nothing modelled here.
NotifyRemote ==
  /\ pc[Poll] = "disable" /\ todo[Poll] = {}
  /\ Goto(Poll, "loop")
  /\ UNCHANGED <<capVars, debounce, keyVars, xVars, stopVars, mu, todo, x,
                 ev, histVars>>

----------------------------------------------------------------------------
(* monitorDevice and handleEvent.                                          *)

\* The device goroutine d is done with the event in its hands.
EndEvent(d) == Goto(d, "loop") /\ ev' = [ev EXCEPT ![d] = NoEvent]

\* History: a packet goes out although control came home.
CountLate(d) ==
  late' = [late EXCEPT ![d] = IF active /\ @ < 2 THEN @ + 1 ELSE @]

DevLoop(d) ==
  /\ pc[d] = "loop"
  /\ Goto(d, IF stopped THEN "done" ELSE "read")
  /\ UNCHANGED <<capVars, debounce, keyVars, xVars, stopVars, mu, todo, x,
                 ev, histVars>>

\* f.Read fails once Stop has closed the file.
ReadFails(d) ==
  /\ pc[d] = "read" /\ fdsClosed
  /\ Goto(d, "done")
  /\ UNCHANGED <<capVars, debounce, keyVars, xVars, stopVars, mu, todo, x,
                 ev, histVars>>

\* f.Read returns an event, which reflects what the user's fingers did.
ReadEvent(d) ==
  /\ pc[d] = "read" /\ ~fdsClosed
  /\ \E e \in Events :
       /\ Possible(e.kind)
       /\ ev' = [ev EXCEPT ![d] = e]
       /\ held' = CASE e.kind = "ctrlDown" -> held \cup {"ctrl"}
                    [] e.kind = "ctrlUp"   -> held \ {"ctrl"}
                    [] e.kind = "altDown"  -> held \cup {"alt"}
                    [] e.kind = "altUp"    -> held \ {"alt"}
                    [] OTHER -> held
  /\ Goto(d, "check")
  /\ UNCHANGED <<capVars, debounce, hotkeyCtrl, hotkeyAlt, xVars, stopVars,
                 mu, todo, x, histVars>>

CheckNothing(d) ==                                             \* mutant
  /\ pc[d] = "check" /\ MuFree
  /\ Goto(d, "grace")
  /\ UNCHANGED <<capVars, debounce, keyVars, xVars, stopVars, mu, todo, x, ev, histVars>>

\* handleEvent: nothing is forwarded while Linux owns the pointer ...
CheckActive(d) ==
  /\ pc[d] = "check" /\ MuFree
  /\ IF active THEN EndEvent(d) ELSE Goto(d, "grace") /\ UNCHANGED ev
  /\ UNCHANGED <<capVars, debounce, keyVars, xVars, stopVars, mu, todo, x, histVars>>

\* ... nor during the grace period after a crossing.
CheckGrace(d) ==
  /\ pc[d] = "grace" /\ MuFree
  /\ IF grace THEN EndEvent(d) ELSE Goto(d, "handle") /\ UNCHANGED ev
  /\ UNCHANGED <<capVars, debounce, keyVars, xVars, stopVars, mu, todo, x, histVars>>

\* handleRel on an axis: addMotionLocked and afterMotionLocked.  At the
\* armed return edge control comes home and enableXinput follows (after the
\* xdotool warp); otherwise the position is sent with mu held.
HandleRel(d) ==
  /\ pc[d] = "handle" /\ ev[d].kind = "rel" /\ MuFree
  /\ remoteX' = Clamp(remoteX + ev[d].dx)
  /\ canReturn' = (canReturn \/ Depth(remoteX') > SwitchMargin)
  /\ IF canReturn' /\ Depth(remoteX') <= HitSlack
       THEN /\ active' = TRUE /\ grace' = FALSE /\ canSwitch' = FALSE
            /\ awaySeen' = (active /\ awaySeen)
            /\ astray' = (astray \/ Disabling)
            /\ Goto(d, "take")
            /\ ev' = [ev EXCEPT ![d] = NoEvent]
            /\ UNCHANGED mu
       ELSE /\ mu' = d
            /\ Goto(d, "sendLocked")
            /\ UNCHANGED <<active, grace, canSwitch, awaySeen, astray, ev>>
  /\ UNCHANGED <<debounce, keyVars, xVars, stopVars, todo, x, late>>

\* handleRel on a wheel.
HandleWheel(d) ==
  /\ pc[d] = "handle" /\ ev[d].kind = "wheel" /\ MuFree
  /\ mu' = d
  /\ Goto(d, "sendLocked")
  /\ UNCHANGED <<capVars, debounce, keyVars, xVars, stopVars, todo, x, ev, histVars>>

\* sendMouseLocked, then the deferred unlock.
SendLocked(d) ==
  /\ pc[d] = "sendLocked"
  /\ mu' = NoOne
  /\ EndEvent(d)
  /\ CountLate(d)
  /\ UNCHANGED <<capVars, debounce, keyVars, xVars, stopVars, todo, x, awaySeen, astray>>

\* handleKey: the modifier flags, read and written without mu.
TrackHotkey(d) ==
  /\ pc[d] = "handle" /\ ev[d].kind \in Modifiers
  /\ IF ev[d].kind \in {"altDown", "altUp"}
       THEN hotkeyAlt' = (ev[d].kind = "altDown") /\ UNCHANGED hotkeyCtrl
       ELSE hotkeyCtrl' = (ev[d].kind = "ctrlDown") /\ UNCHANGED hotkeyAlt
  /\ Goto(d, "forward")
  /\ UNCHANGED <<capVars, debounce, held, xVars, stopVars, mu, todo, x, ev, histVars>>

HandleKey(d) ==
  /\ pc[d] = "handle" /\ ev[d].kind \in {"button", "key"}
  /\ Goto(d, "forward")
  /\ UNCHANGED <<capVars, debounce, keyVars, xVars, stopVars, mu, todo, x, ev, histVars>>

\* The Right key: the hotkey when both flags are set.
HandleRight(d) ==
  /\ pc[d] = "handle" /\ ev[d].kind = "right"
  /\ Goto(d, IF hotkeyCtrl /\ hotkeyAlt THEN "hotkey" ELSE "forward")
  /\ UNCHANGED <<capVars, debounce, keyVars, xVars, stopVars, mu, todo, x, ev, histVars>>

HotkeyCheck(d) ==
  /\ pc[d] = "hotkey" /\ MuFree
  /\ IF active THEN Goto(d, "forward") /\ UNCHANGED ev
               ELSE /\ Goto(d, "activate")
                    /\ ev' = [ev EXCEPT ![d] = NoEvent]
  /\ UNCHANGED <<capVars, debounce, keyVars, xVars, stopVars, mu, todo, x, awaySeen, astray, late>>

\* The last ownership test before a button or a key is sent, without mu.
ForwardCheck(d) ==
  /\ pc[d] = "forward" /\ MuFree
  /\ IF active THEN EndEvent(d) ELSE Goto(d, "send") /\ UNCHANGED ev
  /\ UNCHANGED <<capVars, debounce, keyVars, xVars, stopVars, mu, todo, x, histVars>>

Send(d) ==
  /\ pc[d] = "send"
  /\ EndEvent(d)
  /\ CountLate(d)
  /\ UNCHANGED <<capVars, debounce, keyVars, xVars, stopVars, mu, todo, x, awaySeen, astray>>

----------------------------------------------------------------------------
(* SetActive and enableXinput, by Main or a device goroutine.              *)

SetActiveNoGate(t) ==                                          \* mutant
  /\ pc[t] = "activate" /\ MuFree
  /\ IF active
       THEN /\ Goto(t, Resume(t))
            /\ UNCHANGED <<capVars, awaySeen, astray>>
       ELSE /\ active' = TRUE /\ grace' = FALSE
            /\ UNCHANGED canSwitch /\ canReturn' = FALSE
            /\ awaySeen' = FALSE
            /\ astray' = (astray \/ Disabling)
            /\ Goto(t, "take")
            /\ UNCHANGED remoteX
  /\ UNCHANGED <<debounce, keyVars, xVars, stopVars, mu, todo, x, ev,
                 late>>

SetActive(t) ==
  /\ pc[t] = "activate" /\ MuFree
  /\ IF active
       THEN /\ Goto(t, Resume(t))
            /\ UNCHANGED <<capVars, awaySeen, astray>>
       ELSE /\ active' = TRUE /\ grace' = FALSE
            /\ canSwitch' = FALSE /\ canReturn' = FALSE
            /\ awaySeen' = FALSE
            /\ astray' = (astray \/ Disabling)
            /\ Goto(t, "take")
            /\ UNCHANGED remoteX
  /\ UNCHANGED <<debounce, keyVars, xVars, stopVars, mu, todo, x, ev,
                 late>>

TakeDisabledKeeping(t) ==                                      \* mutant
  /\ pc[t] = "take" /\ MuFree
  /\ todo' = [todo EXCEPT ![t] = disabledIDs]
  /\ UNCHANGED disabledIDs
  /\ Goto(t, "relist")
  /\ UNCHANGED <<capVars, debounce, keyVars, xoff, stopVars, mu, x,
                 ev, histVars>>

TakeDisabled(t) ==
  /\ pc[t] = "take" /\ MuFree
  /\ todo' = [todo EXCEPT ![t] = disabledIDs]
  /\ disabledIDs' = {}
  /\ Goto(t, "relist")
  /\ UNCHANGED <<capVars, debounce, keyVars, xoff, stopVars, mu, x,
                 ev, histVars>>

MergeListing(t) ==
  /\ pc[t] = "relist"
  /\ \E ids \in Listings : todo' = [todo EXCEPT ![t] = @ \cup ids]
  /\ Goto(t, "enable")
  /\ UNCHANGED <<capVars, debounce, keyVars, xVars, stopVars, mu, x, ev, histVars>>

EnableOne(t, id) ==
  /\ pc[t] = "enable" /\ id \in todo[t]
  /\ xoff' = xoff \ {id}
  /\ todo' = [todo EXCEPT ![t] = @ \ {id}]
  /\ UNCHANGED <<capVars, debounce, keyVars, disabledIDs, stopVars,
                 mu, pc, x, ev, histVars>>

\* All devices enabled; afterMotionLocked takes mu once more on its way out.
EnableDone(t) ==
  /\ pc[t] = "enable" /\ todo[t] = {} /\ MuFree
  /\ Goto(t, Resume(t))
  /\ UNCHANGED <<capVars, debounce, keyVars, xVars, stopVars, mu, todo, x,
                 ev, histVars>>

----------------------------------------------------------------------------
(* The connection loop: hand-backs from the remote, then the teardown.     *)

\* A MachineSwitched or NextMachine packet goes through its gate; SetActive
\* runs in a later critical section.
RecvMachineSwitched ==
  /\ pc[Main] = "recv" /\ MuFree
  /\ AcceptsActivation
  /\ Goto(Main, "activate")
  /\ UNCHANGED <<capVars, debounce, keyVars, xVars, stopVars, mu, todo, x,
                 ev, awaySeen, astray, late>>

RecvNextMachine(requestX) ==
  /\ pc[Main] = "recv" /\ MuFree
  /\ AcceptsReclaim(requestX)
  /\ Goto(Main, "activate")
  /\ UNCHANGED <<capVars, debounce, keyVars, xVars, stopVars, mu, todo, x,
                 ev, awaySeen, astray, late>>

\* ReceiveLoop returns; Stop closes stopCh, then the device files.
LinkDown ==
  /\ pc[Main] = "recv"
  /\ stopped' = TRUE
  /\ Goto(Main, "closeFds")
  /\ UNCHANGED <<capVars, debounce, keyVars, xVars, fdsClosed, connOpen, mu,
                 todo, x, ev, histVars>>

CloseNoFds ==                                                  \* mutant
  /\ pc[Main] = "closeFds" /\ MuFree
  /\ UNCHANGED fdsClosed
  /\ Goto(Main, "wait")
  /\ UNCHANGED <<capVars, debounce, keyVars, xVars, stopped, connOpen, mu,
                 todo, x, ev, histVars>>

CloseFds ==
  /\ pc[Main] = "closeFds" /\ MuFree
  /\ fdsClosed' = TRUE
  /\ Goto(Main, "wait")
  /\ UNCHANGED <<capVars, debounce, keyVars, xVars, stopped, connOpen, mu,
                 todo, x, ev, histVars>>

WaitNobody ==                                                  \* mutant
  /\ pc[Main] = "wait"
  /\ Goto(Main, IF disabledIDs # {} THEN "take" ELSE "close")
  /\ UNCHANGED <<capVars, debounce, keyVars, xVars, stopVars, mu, todo, x,
                 ev, histVars>>

WaitNoRestore ==                                               \* mutant
  /\ pc[Main] = "wait"
  /\ \A t \in Devs \cup {Poll} : pc[t] = "done"
  /\ Goto(Main, "close")
  /\ UNCHANGED <<capVars, debounce, keyVars, xVars, stopVars, mu, todo, x,
                 ev, histVars>>

\* wg.Wait, then the test of disabledXinputIDs.
WaitDrained ==
  /\ pc[Main] = "wait"
  /\ \A t \in Devs \cup {Poll} : pc[t] = "done"
  /\ Goto(Main, IF disabledIDs # {} THEN "take" ELSE "close")
  /\ UNCHANGED <<capVars, debounce, keyVars, xVars, stopVars, mu, todo, x,
                 ev, histVars>>

CloseConn ==
  /\ pc[Main] = "close"
  /\ connOpen' = FALSE
  /\ Goto(Main, "done")
  /\ UNCHANGED <<capVars, debounce, keyVars, xVars, stopped, fdsClosed, mu,
                 todo, x, ev, histVars>>

----------------------------------------------------------------------------
(* Time and surroundings.                                                  *)

DebounceExpires ==
  /\ debounce
  /\ debounce' = FALSE
  /\ UNCHANGED <<capVars, keyVars, xVars, stopVars, mu, pc, todo, x, ev, histVars>>

\* switchSent is later than lastSwitch.
GraceExpires ==
  /\ grace /\ ~debounce
  /\ grace' = FALSE
  /\ UNCHANGED <<active, canSwitch, canReturn, remoteX, debounce, keyVars,
                 xVars, stopVars, mu, pc, todo, x, ev, histVars>>

\* The capturer is gone.
Terminated ==
  /\ pc[Main] = "done"
  /\ UNCHANGED vars

----------------------------------------------------------------------------
PollStep ==
  \/ PollTick \/ ReadPointer \/ EdgeGate \/ Cross
  \/ ListToDisable \/ StoreDisabled \/ (\E id \in Xids : DisableOne(id))
  \/ NotifyRemote

EnableStep(t) ==
  \/ SetActive(t) \/ TakeDisabled(t) \/ MergeListing(t)
  \/ (\E id \in Xids : EnableOne(t, id)) \/ EnableDone(t)

\* What a device goroutine does without waiting for an event.
DevStep(d) ==
  \/ DevLoop(d) \/ ReadFails(d) \/ CheckActive(d) \/ CheckGrace(d)
  \/ HandleRel(d) \/ HandleWheel(d) \/ SendLocked(d)
  \/ TrackHotkey(d) \/ HandleKey(d) \/ HandleRight(d) \/ HotkeyCheck(d)
  \/ ForwardCheck(d) \/ Send(d) \/ EnableStep(d)

TeardownStep == CloseFds \/ WaitDrained \/ CloseConn \/ EnableStep(Main)

Next ==
  \/ PollStep \/ PollExit
  \/ \E d \in Devs : DevStep(d) \/ ReadEvent(d)
  \/ TeardownStep \/ LinkDown
  \/ RecvMachineSwitched \/ \E requestX \in Landings : RecvNextMachine(requestX)
  \/ DebounceExpires \/ GraceExpires
  \/ Terminated

Spec == Init /\ [][Next]_vars

(***************************************************************************)
(* Go runs every goroutine that can run, sends end within their write      *)
(* timeout and commands within 2s: weak fairness per goroutine.  select    *)
(* picks at random among ready cases, so a poller that keeps coming back   *)
(* to a closed stopCh eventually takes it; a mutex in starvation mode is   *)
(* handed to waiters in order: strong fairness for the exit and for the    *)
(* critical sections.  Events, packets and link failures may never come.   *)
(***************************************************************************)
Fairness ==
  /\ SF_vars(PollStep) /\ SF_vars(PollExit)
  /\ \A d \in Devs : SF_vars(DevStep(d))
  /\ SF_vars(TeardownStep)

FairSpec == Spec /\ Fairness

----------------------------------------------------------------------------
(* Properties that hold.                                                   *)

Quiet == pc[Poll] \notin {"list", "store", "disable"} /\ ~SomeoneEnabling

\* When nobody is switching devices, and none are astray, the X server
\* agrees with the ownership of the pointer and with the cache: no device is
\* off while Linux owns it or once Stop is done, the cache names exactly the
\* devices that are off, whatever the listings left out.  When listings are
\* complete, one crossing that no activation runs into brings back what was
\* astray (capture_linux.go:683-727, 319-327).
DevicesFollowOwnership ==
  Quiet /\ ~astray =>
    /\ disabledIDs = xoff
    /\ active \/ pc[Main] = "done" => xoff = {}

\* Loop prevention: a crossing happens only if the pointer was read away
\* from the edge since it last came home, however the goroutines interleave
\* (capture_linux.go:391-392).
CrossNeedsAway == pc[Poll] = "cross" => awaySeen

\* Stop drains what it tracks: when Main closes the connection no poller or
\* device goroutine can still use it.
DrainedBeforeClose ==
  ~connOpen => \A t \in Devs \cup {Poll} : pc[t] = "done"

\* The ownership test and the send are separate critical sections, so an
\* event can go out after control came home, but never two from one device.
AtMostOneLateEvent == \A d \in Devs : late[d] <= 1

\* The cursor fields follow RemoteCursor's critical sections.
RC == INSTANCE RemoteCursor WITH
        Frac <- 1, Edges <- {EdgeSide}, Deltas <- Moves \cup {0},
        Perps <- {0}, activeEdge <- EdgeSide, remoteY <- 0,
        accX <- 0, accY <- 0, deepest <- 0, travel <- 0, clipped <- FALSE

ImplementsRemoteCursor == RC!CursorSpec

\* Stop always ends: no goroutine keeps it waiting, the poller in a crossing
\* no more than a device in a hand-back, and none of them is left waiting for
\* a mutex (capture_linux.go:309-328).
StopTerminates == stopped ~> pc[Main] = "done"

----------------------------------------------------------------------------
(* A claim of a comment that the code does not keep.                       *)

\* "ensures xinput devices are always re-enabled on teardown"
\* (capture_linux.go:307-308).
TeardownAlwaysRestores == pc[Main] = "done" => xoff = {}
============================================================================
