-------------------------- MODULE CaptureWayland --------------------------
(***************************************************************************)
(* The Wayland capture driver (internal/capture/portal_wayland.go) over    *)
(* the virtual cursor of RemoteCursor, whose critical sections it calls.   *)
(*                                                                         *)
(* The compositor captures the pointer at a barrier and says so by a       *)
(* signal; the events it captures arrive over libei, on another channel.   *)
(* Goroutines:                                                             *)
(*   sig    signalLoop: Activated, Deactivated, Disabled, in order         *)
(*   ei     eiLoop: motion, keys, modifiers, disconnect                    *)
(*   gates  one gatedEnter per activation, when a modifier is required     *)
(*   main   the receive loop (ReleaseRemote), then the teardown (stop)     *)
(* Each can bring control home, and whoever does must also Release the     *)
(* capture: two systems hold the ownership of one pointer.                 *)
(*                                                                         *)
(* Buttons, keys and scrolling are one kind of event, "key": each is       *)
(* tested for ownership and then sent.  "chord" is the press that          *)
(* completes Ctrl+Alt+Right; CaptureX11 models how the chord is tracked.   *)
(*                                                                         *)
(* A definition marked "mutant" is a plausible bug, used by no other       *)
(* definition.                                                             *)
(***************************************************************************)
EXTENDS Integers, Sequences, SequencesExt

CONSTANTS
  NormMax, SwitchMargin, ReturnMargin, Frac, Edges, Perps,
                 \* as in RemoteCursor
  Motions,       \* <<dx, dy>> of one motion event, in sub-units
  Gates,         \* the gatedEnter goroutines: Gates[i] is that of
                 \*   activation i; their number bounds the activations
  EiMax,         \* bound on the events between compositor and eiLoop
  ReleaseMayFail \* whether D-Bus calls may fail

ASSUME WaylandAssumption ==
  /\ Motions \subseteq Int \X Int
  /\ Gates \in Seq(ToSet(Gates))
  /\ ToSet(Gates) \cap {"sig", "ei", "main"} = {}
  /\ EiMax \in Nat \ {0}
  /\ ReleaseMayFail \in BOOLEAN

\* The grid, as RemoteCursor's CursorAssumption has it.
ASSUME GridAssumption ==
  /\ NormMax \in Nat /\ SwitchMargin \in Nat /\ ReturnMargin \in Nat
  /\ 1 <= ReturnMargin /\ ReturnMargin < SwitchMargin
  /\ 2 * SwitchMargin < NormMax
  /\ Frac \in Nat \ {0}
  /\ Edges \subseteq {"left", "right", "top", "bottom"} /\ Edges # {}
  /\ Perps \subseteq 0 .. NormMax

Activations == 1 .. Len(Gates)
GateSet == ToSet(Gates)
Actors == {"sig", "ei", "main"} \cup GateSet
Releasers == {"ei", "main"} \cup GateSet
Inputs == {"motion", "key", "chord", "modsOn", "modsOff"}

VARIABLES
  active, activeEdge, remoteX, remoteY, accX, accY, canReturn,
              \* the virtual cursor (Capturer)
  grace,      \* less than 100 ms since the crossing (switchSent)
  activeID,   \* id of the activation seen last (portal.activeID)
  wantMod,    \* a modifier is required to cross (portal.wantMod # 0)
  curMods,    \* curMods & wantMod # 0: it is held, as libei last said
  stopped,    \* stopCh is closed
  stopper,    \* who runs the body of stopOnce, "nobody" before
  finished,   \* the body of stopOnce has returned
  pc,         \* where each goroutine is
  at,         \* edge of the activation a goroutine is handling
  id,         \* activation id a goroutine has loaded for its Release, else 0
  capturing,  \* compositor: the pointer is captured
  session,    \* compositor: the session is enabled
  count,      \* compositor: activations so far
  sigQ,       \* signals on their way to signalLoop (chan of 16, in order)
  eiQ,        \* events on their way to eiLoop
  chorded,    \* history: Ctrl+Alt+Right was carried out in this capture
  failed      \* history: a Release failed in this capture

cursorVars == <<active, activeEdge, remoteX, remoteY, accX, accY, canReturn>>
capVars == <<cursorVars, grace>>
portalVars == <<activeID, wantMod, curMods>>
stopVars == <<stopped, stopper, finished>>
compVars == <<capturing, session, count, sigQ, chorded, failed>>
vars == <<capVars, portalVars, stopVars, pc, at, id, compVars, eiQ>>

RC == INSTANCE RemoteCursor WITH
        Deltas <- {m[1] : m \in Motions} \cup {m[2] : m \in Motions},
        deepest <- 0, travel <- 0, clipped <- FALSE

Go(a, phase) == pc' = [pc EXCEPT ![a] = phase]

\* Where a goroutine goes on after a Release, or after a hand-off.
Back(a) == IF a \in GateSet THEN "done" ELSE "wait"

Activated(i, e) == [kind |-> "Activated", id |-> i, edge |-> e]
Plain(k) == [kind |-> k]

----------------------------------------------------------------------------
(* RunWayland has returned: session enabled, both loops running.           *)
Init ==
  /\ RC!CursorInit /\ grace = FALSE
  /\ activeID = 0 /\ wantMod \in BOOLEAN /\ curMods = FALSE
  /\ stopped = FALSE /\ stopper = "nobody" /\ finished = FALSE
  /\ pc = [a \in Actors |-> IF a \in GateSet THEN "off" ELSE "wait"]
  /\ at = [a \in Actors |-> activeEdge]
  /\ id = [a \in Actors |-> 0]
  /\ capturing = FALSE /\ session = TRUE /\ count = 0
  /\ sigQ = <<>> /\ eiQ = <<>>
  /\ chorded = FALSE /\ failed = FALSE

----------------------------------------------------------------------------
(* The compositor (external).                                              *)

EndCapture == capturing' = FALSE /\ chorded' = FALSE /\ failed' = FALSE

\* The pointer meets a barrier and is captured.
Activate(e) ==
  /\ session /\ ~capturing /\ count < Len(Gates)
  /\ capturing' = TRUE /\ count' = count + 1
  /\ sigQ' = Append(sigQ, Activated(count + 1, e))
  /\ UNCHANGED <<capVars, portalVars, stopVars, pc, at, id, session,
                 chorded, failed, eiQ>>

\* Captured input.
Input(k) ==
  /\ capturing /\ Len(eiQ) < EiMax
  /\ eiQ' = Append(eiQ, k)
  /\ UNCHANGED <<capVars, portalVars, stopVars, pc, at, id, compVars>>

\* The compositor ends the capture, or the session, on its own.
Deactivate ==
  /\ capturing /\ EndCapture
  /\ sigQ' = Append(sigQ, Plain("Deactivated"))
  /\ UNCHANGED <<capVars, portalVars, stopVars, pc, at, id, session, count, eiQ>>

DisableSession ==
  /\ session /\ session' = FALSE /\ EndCapture
  /\ sigQ' = Append(sigQ, Plain("Disabled"))
  /\ UNCHANGED <<capVars, portalVars, stopVars, pc, at, id, count, eiQ>>

\* The libei connection ends; nothing comes after that.
Disconnect ==
  /\ \A k \in ToSet(eiQ) : k # "disconnect"
  /\ pc["ei"] # "stop" /\ stopper # "ei"
  /\ eiQ' = Append(eiQ, "disconnect")
  /\ session' = FALSE /\ EndCapture
  /\ UNCHANGED <<capVars, portalVars, stopVars, pc, at, id, count, sigQ>>

\* A Release that names the present capture ends it, with a signal or
\* without; one that names another, or comes over a closed bus, does not.
Released(i) ==
  IF capturing /\ i = count /\ ~finished
  THEN /\ EndCapture
       /\ sigQ' \in {sigQ, Append(sigQ, Plain("Deactivated"))}
       /\ UNCHANGED <<session, count>>
  ELSE UNCHANGED compVars

ReleaseFails ==
  /\ ReleaseMayFail
  /\ failed' = capturing
  /\ UNCHANGED <<capturing, session, count, sigQ, chorded>>

----------------------------------------------------------------------------
(* Handing over and coming home.                                           *)

\* EnterRemoteEdge, by signalLoop or by a gate.
Enter(a, p) ==
  /\ pc[a] = "enter"
  /\ RC!EnterRemoteEdge(at[a], p) /\ grace' = TRUE
  /\ Go(a, "notify")
  /\ UNCHANGED <<portalVars, stopVars, at, id, compVars, eiQ>>

\* NotifyRemoteSwitch: one send.
Notify(a) ==
  /\ pc[a] = "notify"
  /\ Go(a, Back(a))
  /\ UNCHANGED <<capVars, portalVars, stopVars, at, id, compVars, eiQ>>

\* Capturer.SetActive(true); the xinput commands it runs do nothing here.
SetActive == RC!SetActive /\ grace' = (grace /\ active)

\* release: the latest activation id is loaded, then the portal is called.
LoadID(a) ==
  /\ pc[a] = "release"
  /\ id' = [id EXCEPT ![a] = activeID]
  /\ Go(a, "call")
  /\ UNCHANGED <<capVars, portalVars, stopVars, at, compVars, eiQ>>

CallRelease(a) ==
  /\ pc[a] = "call"
  /\ Released(id[a]) \/ ReleaseFails
  /\ id' = [id EXCEPT ![a] = 0]
  /\ Go(a, Back(a))
  /\ UNCHANGED <<capVars, portalVars, stopVars, at, eiQ>>

----------------------------------------------------------------------------
(* signalLoop and gatedEnter.                                              *)

NextSignal(k) ==
  /\ pc["sig"] = "wait" /\ sigQ # <<>> /\ Head(sigQ).kind = k
  /\ sigQ' = Tail(sigQ)
  /\ UNCHANGED <<capturing, session, count, chorded, failed>>

\* onActivated without a modifier: on to EnterRemoteEdge.
OnActivated ==
  /\ ~wantMod /\ NextSignal("Activated")
  /\ activeID' = Head(sigQ).id
  /\ at' = [at EXCEPT !["sig"] = Head(sigQ).edge]
  /\ Go("sig", "enter")
  /\ UNCHANGED <<capVars, wantMod, curMods, stopVars, id, eiQ>>

\* onActivated with a modifier: forget what was held and start the gate.
OnActivatedGated ==
  /\ wantMod /\ NextSignal("Activated")
  /\ activeID' = Head(sigQ).id
  /\ curMods' = FALSE
  /\ at' = [at EXCEPT ![Gates[activeID']] = Head(sigQ).edge]
  /\ Go(Gates[activeID'], "timer")
  /\ UNCHANGED <<capVars, wantMod, stopVars, id, eiQ>>

OnDeactivated ==
  /\ NextSignal("Deactivated")
  /\ SetActive
  /\ UNCHANGED <<portalVars, stopVars, pc, at, id, eiQ>>

OnDisabled ==
  /\ NextSignal("Disabled")
  /\ UNCHANGED <<capVars, portalVars, stopVars, pc, at, id, eiQ>>

\* The 80 ms are over: commit or decline by the modifier state of now.
GateTimer(g) ==
  /\ pc[g] = "timer"
  /\ Go(g, IF curMods THEN "enter" ELSE "release")
  /\ UNCHANGED <<capVars, portalVars, stopVars, at, id, compVars, eiQ>>

GateStopped(g) ==
  /\ pc[g] = "timer" /\ stopped
  /\ Go(g, "done")
  /\ UNCHANGED <<capVars, portalVars, stopVars, at, id, compVars, eiQ>>

----------------------------------------------------------------------------
(* eiLoop: feed.                                                           *)

NextEvent(kinds) ==
  /\ pc["ei"] = "wait" /\ eiQ # <<>> /\ Head(eiQ) \in kinds
  /\ eiQ' = Tail(eiQ)

\* The first ownership test of FeedMotion and of handleEvent (with its
\* grace period): dropped, or passed on to what follows.
TestOwner ==
  /\ NextEvent({"motion", "key", "chord"})
  /\ Go("ei", IF active \/ (Head(eiQ) # "motion" /\ grace)
              THEN "wait" ELSE Head(eiQ))
  /\ UNCHANGED <<capVars, portalVars, stopVars, at, id, compVars>>

\* FeedMotion under mu.  At the armed return edge control comes home under
\* mu, and the Release follows without it.
FeedMotion(dx, dy) ==
  /\ pc["ei"] = "motion" /\ ~grace
  /\ RC!Motion(dx, dy)
  /\ LET switchBack == canReturn' /\ RC!Depth' <= RC!HitSlack(activeEdge)
     IN Go("ei", IF switchBack THEN "release" ELSE "wait")
  /\ UNCHANGED <<grace, portalVars, stopVars, at, id, compVars, eiQ>>

\* Motion in the grace period, and the send of a key, change nothing here.
DropOrSend ==
  /\ \/ pc["ei"] = "motion" /\ grace
     \/ pc["ei"] = "key"
  /\ Go("ei", "wait")
  /\ UNCHANGED <<capVars, portalVars, stopVars, at, id, compVars, eiQ>>

\* Ctrl+Alt+Right: SetActive(true), and nothing else.
ForceReturn ==
  /\ pc["ei"] = "chord"
  /\ SetActive
  /\ chorded' = (capturing /\ (chorded \/ ~active))
  /\ Go("ei", "wait")
  /\ UNCHANGED <<portalVars, stopVars, at, id, capturing, session, count,
                 sigQ, failed, eiQ>>

Modifiers ==
  /\ NextEvent({"modsOn", "modsOff"})
  /\ curMods' = (wantMod /\ Head(eiQ) = "modsOn")
  /\ UNCHANGED <<capVars, activeID, wantMod, stopVars, pc, at, id, compVars>>

Disconnected ==
  /\ NextEvent({"disconnect"})
  /\ Go("ei", "stop")
  /\ UNCHANGED <<capVars, portalVars, stopVars, at, id, compVars>>

GraceExpires ==
  /\ grace /\ grace' = FALSE
  /\ UNCHANGED <<cursorVars, portalVars, stopVars, pc, at, id, compVars, eiQ>>

----------------------------------------------------------------------------
(* main: ReleaseRemote in the receive loop, then the teardown.             *)

\* MachineSwitched or NextMachine: no gate on Wayland; IsActive first.
RecvHandBack ==
  /\ pc["main"] = "wait" /\ ~active
  /\ Go("main", "switch")
  /\ UNCHANGED <<capVars, portalVars, stopVars, at, id, compVars, eiQ>>

SwitchHomeOnly ==                                               \* mutant
  /\ pc["main"] = "switch"
  /\ SetActive
  /\ Go("main", "wait")
  /\ UNCHANGED <<portalVars, stopVars, at, id, compVars, eiQ>>

SwitchHome ==
  /\ pc["main"] = "switch"
  /\ SetActive
  /\ Go("main", "release")
  /\ UNCHANGED <<portalVars, stopVars, at, id, compVars, eiQ>>

LinkDown ==
  /\ pc["main"] = "wait"
  /\ Go("main", "stop")
  /\ UNCHANGED <<capVars, portalVars, stopVars, at, id, compVars, eiQ>>

\* The first caller of stop runs the body of stopOnce.  Any other waits in
\* Do until the body has returned, which never happens: main calls stop
\* once, and while eiLoop is in stop the body cannot pass wg.Wait.
StopBegin(a) ==
  /\ pc[a] = "stop" /\ stopper = "nobody"
  /\ stopper' = a /\ stopped' = TRUE
  /\ Go(a, "disable")
  /\ UNCHANGED <<capVars, portalVars, finished, at, id, compVars, eiQ>>

CallDisable(a) ==
  /\ pc[a] = "disable"
  /\ \/ session' = FALSE /\ EndCapture
     \/ ReleaseMayFail /\ UNCHANGED <<session, capturing, chorded, failed>>
  /\ Go(a, "drain")
  /\ UNCHANGED <<capVars, portalVars, stopVars, at, id, count, sigQ, eiQ>>

\* wg.Wait: both loops, but no gate.
DrainSig(a) ==                                                  \* mutant
  /\ pc[a] = "drain" /\ pc["sig"] = "done"
  /\ Go(a, "shut")
  /\ UNCHANGED <<capVars, portalVars, stopVars, at, id, compVars, eiQ>>

Drain(a) ==
  /\ pc[a] = "drain" /\ pc["sig"] = "done" /\ pc["ei"] = "done"
  /\ Go(a, "shut")
  /\ UNCHANGED <<capVars, portalVars, stopVars, at, id, compVars, eiQ>>

\* ei.close and the close of the bus, which ends the session.
Shut(a) ==
  /\ pc[a] = "shut"
  /\ finished' = TRUE /\ session' = FALSE /\ EndCapture
  /\ Go(a, IF a = "main" THEN "closing" ELSE "wait")
  /\ UNCHANGED <<capVars, portalVars, stopped, stopper, at, id, count, sigQ, eiQ>>

CloseConn ==
  /\ pc["main"] = "closing"
  /\ Go("main", "closed")
  /\ UNCHANGED <<capVars, portalVars, stopVars, at, id, compVars, eiQ>>

\* The select of either loop sees stopCh closed.
QuitOnEvent(a) ==                                               \* mutant
  /\ pc[a] = "wait" /\ stopped /\ (a = "ei" => eiQ # <<>>)
  /\ Go(a, "done")
  /\ UNCHANGED <<capVars, portalVars, stopVars, at, id, compVars, eiQ>>

Quit(a) ==
  /\ pc[a] = "wait" /\ stopped
  /\ Go(a, "done")
  /\ UNCHANGED <<capVars, portalVars, stopVars, at, id, compVars, eiQ>>

----------------------------------------------------------------------------
Compositor ==
  \/ \E e \in Edges : Activate(e)
  \/ \E k \in Inputs : Input(k)
  \/ Deactivate \/ DisableSession \/ Disconnect

Cross(a) == (\E p \in Perps : Enter(a, p)) \/ Notify(a)
Release(a) == LoadID(a) \/ CallRelease(a)
Stop(a) == StopBegin(a) \/ CallDisable(a) \/ Drain(a) \/ Shut(a)

SignalLoop ==
  \/ OnActivated \/ OnActivatedGated \/ OnDeactivated \/ OnDisabled
  \/ Cross("sig")

Gate(g) == GateTimer(g) \/ GateStopped(g) \/ Cross(g) \/ Release(g)

EiLoop ==
  \/ TestOwner \/ DropOrSend \/ ForceReturn \/ Modifiers \/ Disconnected
  \/ \E m \in Motions : FeedMotion(m[1], m[2])
  \/ Release("ei") \/ Stop("ei")

Main == SwitchHome \/ Release("main") \/ Stop("main") \/ CloseConn

\* What the program does by itself.
Program ==
  \/ SignalLoop \/ EiLoop \/ Main
  \/ \E g \in GateSet : Gate(g)
  \/ Quit("sig") \/ Quit("ei")

Next == Compositor \/ GraceExpires \/ RecvHandBack \/ LinkDown \/ Program

Spec == Init /\ [][Next]_vars

\* Goroutines run.  A select with several ready cases picks one at random,
\* so a closed stopCh is seen in the end.  Nothing is asked of the
\* compositor, the remote or the link.
FairSpec ==
  /\ Spec
  /\ WF_vars(SignalLoop) /\ WF_vars(EiLoop) /\ WF_vars(Main)
  /\ \A g \in GateSet : WF_vars(Gate(g))
  /\ SF_vars(Quit("sig")) /\ SF_vars(Quit("ei"))

----------------------------------------------------------------------------
(* Properties.                                                             *)

\* Nothing goes on until the outside does something.
AtRest == ~ENABLED Program

\* The pointer is never frozen: once all is quiet, what the compositor
\* captures is forwarded, not dropped because the program holds Linux for
\* the owner, whatever the order of signals, events, hand-backs and gates
\* before (release, ReleaseRemote, onActivated, gatedEnter).  Excused: a
\* Release that failed, which is only logged, and Ctrl+Alt+Right, which makes
\* Linux the owner and leaves the capture on (capture_linux.go:1001-1008).
NoFrozenPointer == AtRest /\ capturing /\ active => chorded \/ failed

\* The teardown is never stuck, wherever the loops, the gates and the
\* compositor are when the link drops: once all is quiet, main is in the
\* receive loop or past the close of the connection (stop).  Excused: libei
\* disconnected (see StopAlwaysReturns).
StopNotStuck ==
  AtRest /\ pc["ei"] \notin {"stop", "drain"} => pc["main"] \in {"wait", "closed"}

\* When the connection is closed, neither loop can still use it
\* (main.go:239, wg.Wait in stop).  The gates are not waited for.
DrainedBeforeClose ==
  pc["main"] = "closed" => pc["sig"] = "done" /\ pc["ei"] = "done"

\* The cursor fields follow RemoteCursor's critical sections, whichever of
\* the loops, the gates and main runs them.
ImplementsRemoteCursor == RC!CursorSpec

\* What the README says: the program reconnects when the connection drops.
\* Not so once libei disconnected: stop waits for the loop that called it.
StopAlwaysReturns == (pc["main"] = "stop") ~> (pc["main"] = "closed")

============================================================================
