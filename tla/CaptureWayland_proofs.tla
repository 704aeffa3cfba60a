---------------------- MODULE CaptureWayland_proofs ----------------------
(* Theorems about CaptureWayland, for any number of activations, any grid  *)
(* and any motions.                                                        *)
EXTENDS CaptureWayland, TLAPS

USE WaylandAssumption DEF Go, Actors, GateSet

(***************************************************************************)
(* A signal names an activation that happened, so that the goroutine it    *)
(* starts is a gate and no other.                                          *)
(***************************************************************************)
Signals == [kind : {"Activated"}, id : 1 .. Len(Gates), edge : Edges]
             \cup [kind : {"Deactivated", "Disabled"}]

QueueOK == sigQ \in Seq(Signals) /\ count \in 0 .. Len(Gates)

LEMMA QueueInit == ASSUME Init PROVE QueueOK
<1>1. Len(Gates) \in Nat
  OBVIOUS
<1> QED BY <1>1 DEF Init, QueueOK

LEMMA GateOfSignal ==
  ASSUME NEW i \in 1 .. Len(Gates)
  PROVE  Gates[i] \in Actors /\ Gates[i] \notin {"sig", "ei", "main"}
<1>1. Gates[i] \in ToSet(Gates)
  BY DEF ToSet
<1> QED BY <1>1

LEMMA TailQueue ==
  ASSUME QueueOK, NEW k, NextSignal(k)
  PROVE  /\ Head(sigQ) \in Signals
         /\ sigQ' \in Seq(Signals) /\ count' = count
         /\ k = "Activated" => Head(sigQ).id \in 1 .. Len(Gates)
<1>1. Head(sigQ) \in Signals /\ sigQ' \in Seq(Signals) /\ count' = count
  BY DEF QueueOK, NextSignal
<1>2. ASSUME k = "Activated" PROVE Head(sigQ).id \in 1 .. Len(Gates)
  BY <1>1, <1>2 DEF NextSignal, Signals
<1> QED BY <1>1, <1>2

LEMMA QueueStep == ASSUME QueueOK, [Next]_vars PROVE QueueOK'
<1> USE DEF QueueOK
<1>1. \A k \in {"Deactivated", "Disabled"} : Plain(k) \in Signals
  BY DEF Plain, Signals
<1>2. ASSUME NEW e \in Edges, Activate(e) PROVE QueueOK'
  <2>1. Len(Gates) \in Nat
    OBVIOUS
  <2>2. count + 1 \in 1 .. Len(Gates)
    BY <1>2, <2>1 DEF Activate
  <2>3. Activated(count + 1, e) \in Signals
    BY <2>2 DEF Activated, Signals
  <2> QED BY <1>2, <2>2, <2>3 DEF Activate
<1>3. CASE Deactivate
  BY <1>1, <1>3 DEF Deactivate
<1>4. CASE DisableSession
  BY <1>1, <1>4 DEF DisableSession
<1>5. ASSUME NEW a \in Releasers, CallRelease(a) PROVE QueueOK'
  <2>1. count' = count
    BY <1>5 DEF CallRelease, Released, ReleaseFails, compVars
  <2>2. sigQ' = sigQ \/ sigQ' = Append(sigQ, Plain("Deactivated"))
    BY <1>5 DEF CallRelease, Released, ReleaseFails, compVars
  <2>3. sigQ' \in Seq(Signals)
    BY <1>1, <2>2
  <2> QED BY <2>1, <2>3
<1>6. ASSUME NEW k, NextSignal(k) PROVE QueueOK'
  BY <1>6, TailQueue
<1>7. ASSUME UNCHANGED <<sigQ, count>> PROVE QueueOK'
  BY <1>7
<1>8. ASSUME UNCHANGED compVars PROVE QueueOK'
  BY <1>8, <1>7 DEF compVars
<1>9. CASE Compositor
  BY <1>9, <1>2, <1>3, <1>4, <1>7, <1>8 DEF Compositor, Input, Disconnect
<1>10. ASSUME NEW a, Cross(a) PROVE QueueOK'
  BY <1>10, <1>8 DEF Cross, Enter, Notify
<1>11. ASSUME NEW a \in Releasers, Release(a) PROVE QueueOK'
  BY <1>11, <1>5, <1>8 DEF Release, LoadID
<1>12. ASSUME NEW a, Stop(a) PROVE QueueOK'
  BY <1>12, <1>7, <1>8 DEF Stop, StopBegin, CallDisable, Drain, Shut
<1>13. CASE SignalLoop
  BY <1>13, <1>6, <1>10 DEF SignalLoop, OnActivated, OnActivatedGated,
     OnDeactivated, OnDisabled
<1>14. CASE EiLoop
  BY <1>14, <1>7, <1>8, <1>11, <1>12 DEF EiLoop, TestOwner, DropOrSend,
     ForceReturn, Modifiers, Disconnected, FeedMotion, Releasers
<1>15. CASE Main
  BY <1>15, <1>8, <1>11, <1>12 DEF Main, SwitchHome, CloseConn, Releasers
<1>16. ASSUME NEW g \in GateSet, Gate(g) PROVE QueueOK'
  BY <1>16, <1>8, <1>10, <1>11 DEF Gate, GateTimer, GateStopped, Releasers
<1>17. ASSUME NEW a, Quit(a) PROVE QueueOK'
  BY <1>17, <1>8 DEF Quit
<1>18. CASE Program
  BY <1>18, <1>13, <1>14, <1>15, <1>16, <1>17 DEF Program
<1>19. CASE GraceExpires \/ RecvHandBack \/ LinkDown \/ UNCHANGED vars
  BY <1>19, <1>8 DEF GraceExpires, RecvHandBack, LinkDown, vars
<1> QED BY <1>9, <1>18, <1>19 DEF Next

(***************************************************************************)
(* The drain.  Whoever runs the body of stopOnce goes past wg.Wait only    *)
(* when both loops have returned; eiLoop itself never does.                *)
(***************************************************************************)
DrainInv ==
  /\ pc = [a \in Actors |-> pc[a]]
  /\ pc["main"] \in {"closing", "closed"} => finished
  /\ finished \/ pc["main"] = "shut" => pc["sig"] = "done" /\ pc["ei"] = "done"
  /\ pc["ei"] # "shut"

\* A goroutine moves, but neither past the drain nor, if it is a loop, on
\* from its return.
LEMMA Moved ==
  ASSUME DrainInv, UNCHANGED finished, NEW a \in Actors, NEW l, Go(a, l),
         a \in {"sig", "ei"} => pc[a] # "done",
         a = "ei" => l # "shut",
         a = "main" => l \notin {"closing", "closed", "shut"}
  PROVE  DrainInv'
BY DEF DrainInv

LEMMA DrainStep ==
  ASSUME DrainInv, QueueOK, [Next]_vars PROVE DrainInv'
<1>1. ASSUME UNCHANGED <<pc, stopVars>> PROVE DrainInv'
  BY <1>1 DEF DrainInv, stopVars
<1>2. CASE Compositor
  BY <1>1, <1>2 DEF Compositor, Activate, Input, Deactivate, DisableSession,
     Disconnect
<1>3. CASE GraceExpires \/ UNCHANGED vars
  BY <1>1, <1>3 DEF GraceExpires, vars
<1>4. CASE RecvHandBack \/ LinkDown \/ SwitchHome
  BY <1>4, Moved DEF RecvHandBack, LinkDown, SwitchHome, stopVars
<1>5. CASE CloseConn
  BY <1>5 DEF CloseConn, DrainInv, stopVars
<1>6. CASE OnActivated
  BY <1>6, Moved DEF OnActivated, NextSignal, stopVars
<1>7. CASE OnActivatedGated
  <2>1. activeID' \in 1 .. Len(Gates)
    BY <1>7, TailQueue DEF OnActivatedGated
  <2>2. /\ Gates[activeID'] \in Actors
        /\ Gates[activeID'] \notin {"sig", "ei", "main"}
    BY <2>1, GateOfSignal
  <2> QED BY <1>7, <2>2, Moved DEF OnActivatedGated, stopVars
<1>8. CASE OnDeactivated \/ OnDisabled \/ Modifiers
  BY <1>1, <1>8 DEF OnDeactivated, OnDisabled, Modifiers
<1>9. ASSUME NEW a \in {"sig"} \cup GateSet, Cross(a) PROVE DrainInv'
  <2>1. ASSUME NEW p \in Perps, Enter(a, p) PROVE DrainInv'
    BY <2>1, Moved DEF Enter, stopVars
  <2>2. CASE Notify(a)
    BY <2>2, Moved DEF Notify, Back, stopVars
  <2> QED BY <1>9, <2>1, <2>2 DEF Cross
<1>10. ASSUME NEW a \in {"ei", "main"} \cup GateSet, Release(a) PROVE DrainInv'
  <2>1. CASE LoadID(a)
    BY <2>1, Moved DEF LoadID, stopVars
  <2>2. CASE CallRelease(a)
    BY <2>2, Moved DEF CallRelease, Back, stopVars
  <2> QED BY <1>10, <2>1, <2>2 DEF Release
<1>11. ASSUME NEW g \in GateSet, GateTimer(g) \/ GateStopped(g) PROVE DrainInv'
  BY <1>11, Moved DEF GateTimer, GateStopped, stopVars
<1>12. CASE TestOwner \/ DropOrSend \/ ForceReturn \/ Disconnected
  <2>1. CASE TestOwner
    <3>1. Head(eiQ) # "shut"
      BY <2>1 DEF TestOwner, NextEvent
    <3> QED BY <2>1, <3>1, Moved DEF TestOwner, NextEvent, stopVars
  <2>2. CASE DropOrSend
    BY <2>2, Moved DEF DropOrSend, stopVars
  <2>3. CASE ForceReturn
    BY <2>3, Moved DEF ForceReturn, stopVars
  <2>4. CASE Disconnected
    BY <2>4, Moved DEF Disconnected, NextEvent, stopVars
  <2> QED BY <1>12, <2>1, <2>2, <2>3, <2>4
<1>13. ASSUME NEW m \in Motions, FeedMotion(m[1], m[2]) PROVE DrainInv'
  BY <1>13, Moved DEF FeedMotion, stopVars
<1>14. ASSUME NEW a \in {"ei", "main"}, Stop(a) PROVE DrainInv'
  <2>1. CASE StopBegin(a)
    BY <2>1, Moved DEF StopBegin
  <2>2. CASE CallDisable(a)
    BY <2>2, Moved DEF CallDisable, stopVars
  <2>3. CASE Drain(a)
    BY <2>3 DEF Drain, DrainInv, stopVars
  <2>4. CASE Shut(a)
    BY <2>4 DEF Shut, DrainInv
  <2> QED BY <1>14, <2>1, <2>2, <2>3, <2>4 DEF Stop
<1>15. ASSUME NEW a \in {"sig", "ei"}, Quit(a) PROVE DrainInv'
  BY <1>15, Moved DEF Quit, stopVars
<1> QED
  BY <1>2, <1>3, <1>4, <1>5, <1>6, <1>7, <1>8, <1>9, <1>10, <1>11, <1>12,
     <1>13, <1>14, <1>15 DEF Next, Program, SignalLoop, EiLoop, Main, Gate

(* When main closes the connection, the signal loop and the libei loop     *)
(* have returned: neither can still send on it (stop, main.go:239).        *)
THEOREM Drained == Spec => []DrainedBeforeClose
<1>1. Init => DrainInv
  BY DEF Init, DrainInv
<1>2. DrainInv => DrainedBeforeClose
  BY DEF DrainInv, DrainedBeforeClose
<1> QED BY <1>1, <1>2, QueueInit, QueueStep, DrainStep, PTL DEF Spec

(***************************************************************************)
(* The pointer is not frozen.  ENABLED is out of the provers' reach, so    *)
(* the theorem says what NoFrozenPointer amounts to: whenever the          *)
(* compositor captures and Linux owns the pointer, a signal is queued or a *)
(* goroutine is on its way to end either.  The reason is in LastSignal:    *)
(* while a capture lasts its Activated is the last signal queued, or all   *)
(* signals are handled and activeID names it, so a release that loads      *)
(* activeID names the capture it has to end.                               *)
(***************************************************************************)
Underway ==
  \/ stopped /\ ~finished
  \/ sigQ # <<>>
  \/ pc["sig"] = "enter"
  \/ \E g \in GateSet : g = Gates[count] /\ pc[g] \in {"timer", "enter"}
  \/ \E a \in Releasers : pc[a] = "release" \/ (pc[a] = "call" /\ id[a] = count)

LastSignal ==
  /\ count >= 1
  /\ \/ sigQ = <<>> /\ activeID = count
     \/ /\ sigQ # <<>>
        /\ Last(sigQ).kind = "Activated" /\ Last(sigQ).id = count

Frozen == capturing /\ active /\ ~chorded /\ ~failed

FrozenInv ==
  /\ pc = [a \in Actors |-> pc[a]] /\ id = [a \in Actors |-> id[a]]
  /\ finished => ~session
  /\ ~session => ~capturing
  /\ capturing => LastSignal
  /\ Frozen => Underway

\* A goroutine that is nowhere near the end of the capture moves.
LEMMA Aside ==
  ASSUME FrozenInv, NEW a \in Actors, NEW l, Go(a, l),
         pc[a] \notin {"timer", "enter", "release", "call"},
         UNCHANGED <<compVars, stopVars, activeID, active, id>>
  PROVE  FrozenInv'
<1> USE DEF FrozenInv, compVars, stopVars
<1>1. LastSignal' <=> LastSignal
  BY DEF LastSignal
<1>2. Underway => Underway'
  <2>1. \A b \in Actors : pc[b] \in {"timer", "enter", "release", "call"}
           => pc'[b] = pc[b]
    OBVIOUS
  <2>2. Releasers \subseteq Actors
    BY DEF Releasers
  <2> QED BY <2>1, <2>2 DEF Underway
<1>3. Frozen' => Frozen
  BY DEF Frozen
<1> QED BY <1>1, <1>2, <1>3

\* Once Linux does not own the pointer, or there is no capture, it is not
\* frozen.
LEMMA Thawed ==
  ASSUME FrozenInv, pc' = [a \in Actors |-> pc'[a]],
         id' = [a \in Actors |-> id'[a]], ~capturing',
         finished' => ~session'
  PROVE  FrozenInv'
BY DEF FrozenInv, Frozen

\* Ways for FrozenInv to hold after a step that leaves the compositor alone.
LEMMA Going ==
  ASSUME FrozenInv, NEW a \in Actors, NEW l, Go(a, l),
         UNCHANGED <<compVars, stopVars, activeID>>,
         id' = [b \in Actors |-> id'[b]],
         Frozen' => Underway'
  PROVE  FrozenInv'
BY DEF FrozenInv, LastSignal, compVars, stopVars

\* The head of the queue is not the last signal of a capture under way,
\* unless it is alone.
LEMMA Popped ==
  ASSUME QueueOK, LastSignal, NEW k, NextSignal(k)
  PROVE  /\ sigQ' # <<>> => Last(sigQ') = Last(sigQ)
         /\ sigQ' = <<>> => k = "Activated" /\ Head(sigQ).id = count
<1>1. /\ sigQ \in Seq(Signals) /\ sigQ # <<>> /\ sigQ' = Tail(sigQ)
      /\ Head(sigQ).kind = k
  BY DEF QueueOK, NextSignal
<1>2. Len(sigQ) \in Nat /\ Len(sigQ) >= 1
  BY <1>1
<1>3. Last(sigQ).kind = "Activated" /\ Last(sigQ).id = count
  BY <1>1 DEF LastSignal
<1>4. CASE Len(sigQ) = 1
  <2>1. sigQ' = <<>> /\ Last(sigQ) = Head(sigQ)
    BY <1>1, <1>4 DEF Last
  <2>2. Head(sigQ).kind = "Activated" /\ Head(sigQ).id = count
    BY <1>3, <2>1
  <2>3. k = "Activated"
    BY <1>1, <2>2
  <2> QED BY <2>1, <2>2, <2>3
<1>5. CASE Len(sigQ) > 1
  <2>1. Len(sigQ') = Len(sigQ) - 1 /\ sigQ' \in Seq(Signals)
    BY <1>1
  <2>2. sigQ'[Len(sigQ) - 1] = sigQ[Len(sigQ)]
    BY <1>1, <1>2, <1>5
  <2>3. sigQ' # <<>> /\ Last(sigQ') = Last(sigQ)
    BY <1>2, <1>5, <2>1, <2>2 DEF Last
  <2> QED BY <2>3
<1>6. \A n \in Nat : n >= 1 => n = 1 \/ n > 1
  OBVIOUS
<1> QED BY <1>2, <1>4, <1>5, <1>6

LEMMA FrozenCompositor ==
  ASSUME FrozenInv, QueueOK, Compositor PROVE FrozenInv'
<1> USE DEF stopVars, EndCapture
<1>1. ASSUME NEW e \in Edges, Activate(e) PROVE FrozenInv'
  <2>1. sigQ' # <<>> /\ Last(sigQ') = Activated(count', e) /\ count' >= 1
    BY <1>1 DEF Activate, QueueOK, Last
  <2>2. LastSignal' /\ Underway'
    BY <2>1 DEF LastSignal, Underway, Activated
  <2> QED BY <1>1, <2>2 DEF FrozenInv, Activate
<1>2. ASSUME NEW k \in Inputs, Input(k) PROVE FrozenInv'
  BY <1>2 DEF Input, FrozenInv, Frozen, Underway, LastSignal, capVars,
     cursorVars, compVars, portalVars
<1>3. CASE Deactivate
  BY <1>3, Thawed DEF Deactivate, FrozenInv
<1>4. CASE DisableSession
  BY <1>4, Thawed DEF DisableSession, FrozenInv
<1>5. CASE Disconnect
  BY <1>5, Thawed DEF Disconnect, FrozenInv
<1> QED BY <1>1, <1>2, <1>3, <1>4, <1>5 DEF Compositor

LEMMA FrozenSignals ==
  ASSUME FrozenInv, QueueOK,
         OnActivated \/ OnActivatedGated \/ OnDeactivated \/ OnDisabled
  PROVE  FrozenInv'
<1> USE DEF stopVars
<1>1. ASSUME NEW k, NextSignal(k), capturing,
             k = "Activated" => activeID' = Head(sigQ).id
      PROVE  LastSignal' /\ (sigQ' = <<>> => k = "Activated")
  <2>1. LastSignal
    BY <1>1 DEF FrozenInv
  <2>2. count' = count
    BY <1>1 DEF NextSignal
  <2>3. CASE sigQ' # <<>>
    <3>1. Last(sigQ') = Last(sigQ) /\ sigQ # <<>>
      BY <1>1, <2>1, <2>3, Popped DEF NextSignal
    <3> QED BY <2>1, <2>2, <2>3, <3>1 DEF LastSignal
  <2>4. CASE sigQ' = <<>>
    <3>1. k = "Activated" /\ Head(sigQ).id = count
      BY <1>1, <2>1, <2>4, Popped
    <3> QED BY <1>1, <2>1, <2>2, <2>4, <3>1 DEF LastSignal
  <2> QED BY <2>3, <2>4
<1>2. CASE OnActivated
  <2>1. Underway'
    BY <1>2 DEF OnActivated, Underway, FrozenInv
  <2>2. capturing => LastSignal'
    BY <1>1, <1>2 DEF OnActivated
  <2> QED BY <1>2, <2>1, <2>2 DEF OnActivated, NextSignal, FrozenInv
<1>3. CASE OnActivatedGated
  <2>1. activeID' \in 1 .. Len(Gates) /\ activeID' = Head(sigQ).id
    BY <1>3, TailQueue DEF OnActivatedGated
  <2>2. Gates[activeID'] \in GateSet
    BY <2>1, GateOfSignal DEF ToSet
  <2>3. capturing => LastSignal'
    BY <1>1, <1>3 DEF OnActivatedGated
  <2>4. capturing /\ sigQ' = <<>> => activeID' = count'
    BY <2>3 DEF LastSignal
  <2>5. pc'[Gates[activeID']] = "timer"
    BY <1>3, <2>2 DEF OnActivatedGated, FrozenInv
  <2>6. capturing => Underway'
    BY <2>2, <2>4, <2>5 DEF Underway
  <2> QED BY <1>3, <2>2, <2>3, <2>6 DEF OnActivatedGated, NextSignal, FrozenInv,
          Frozen
<1>4. CASE OnDeactivated
  <2>1. capturing => LastSignal' /\ sigQ' # <<>>
    BY <1>1, <1>4 DEF OnDeactivated
  <2> QED BY <1>4, <2>1 DEF OnDeactivated, NextSignal, FrozenInv, Frozen,
          Underway
<1>5. CASE OnDisabled
  <2>1. capturing => LastSignal' /\ sigQ' # <<>>
    BY <1>1, <1>5 DEF OnDisabled, portalVars
  <2> QED BY <1>5, <2>1 DEF OnDisabled, NextSignal, FrozenInv, Frozen,
          Underway
<1> QED BY <1>2, <1>3, <1>4, <1>5

LEMMA FrozenStep ==
  ASSUME FrozenInv, QueueOK, [Next]_vars PROVE FrozenInv'
<1> USE DEF FrozenInv, stopVars
<1>1. CASE GraceExpires \/ UNCHANGED vars \/ Modifiers
  <2>1. UNCHANGED <<active, activeID, stopVars, pc, id, compVars>>
    BY <1>1 DEF GraceExpires, vars, capVars, cursorVars, portalVars, Modifiers
  <2> QED BY <2>1 DEF compVars, Frozen, Underway, LastSignal
<1>2. CASE RecvHandBack \/ LinkDown \/ CloseConn
  BY <1>2, Aside DEF RecvHandBack, LinkDown, CloseConn, capVars, cursorVars,
     portalVars
<1>3. CASE SwitchHome
  <2>1. Underway'
    BY <1>3 DEF SwitchHome, Underway, Releasers
  <2> QED BY <1>3, <2>1, Going DEF SwitchHome, portalVars
<1>4. ASSUME NEW a \in {"sig"} \cup GateSet, Cross(a) PROVE FrozenInv'
  <2>1. ASSUME NEW p \in Perps, Enter(a, p) PROVE FrozenInv'
    <3>1. ~Frozen'
      BY <2>1 DEF Enter, RC!EnterRemoteEdge, Frozen
    <3> QED BY <2>1, <3>1, Going DEF Enter, portalVars
  <2>2. CASE Notify(a)
    BY <2>2, Aside DEF Notify, capVars, cursorVars, portalVars
  <2> QED BY <1>4, <2>1, <2>2 DEF Cross
<1>5. ASSUME NEW a \in Releasers, Release(a) PROVE FrozenInv'
  <2>0. a \in Actors
    BY DEF Releasers
  <2>1. CASE LoadID(a)
    <3>1. sigQ' = sigQ /\ count' = count /\ activeID' = activeID
      BY <2>1 DEF LoadID, compVars, portalVars
    <3>2. pc'[a] = "call" /\ id'[a] = activeID
      BY <2>0, <2>1 DEF LoadID
    <3>3. capturing => Underway'
      BY <3>1, <3>2 DEF LastSignal, Underway
    <3>4. Frozen' => capturing
      BY <2>1 DEF LoadID, compVars, Frozen
    <3> QED BY <2>0, <2>1, <3>3, <3>4, Going DEF LoadID, portalVars
  <2>2. CASE CallRelease(a)
    <3>1. CASE Released(id[a]) /\ capturing /\ id[a] = count /\ ~finished
      BY <2>0, <2>2, <3>1, Thawed DEF CallRelease, Released, EndCapture
    <3>2. CASE Released(id[a]) /\ ~(capturing /\ id[a] = count /\ ~finished)
      <4>1. UNCHANGED compVars /\ UNCHANGED active
        BY <2>2, <3>2 DEF CallRelease, Released, capVars, cursorVars
      <4>2. Frozen => id[a] # count
        BY <3>2 DEF Frozen
      <4>3. \A b \in Actors \ {a} : pc'[b] = pc[b] /\ id'[b] = id[b]
        BY <2>0, <2>2 DEF CallRelease
      <4>4. Frozen' => Frozen
        BY <4>1 DEF Frozen, compVars
      <4>5. Frozen => Underway'
        <5> SUFFICES ASSUME Frozen, Underway PROVE Underway'
          OBVIOUS
        <5>1. sigQ' = sigQ /\ count' = count /\ UNCHANGED stopVars
          BY <2>2, <4>1 DEF CallRelease, compVars
        <5>2. pc[a] = "call" /\ a # "sig"
          BY <2>2 DEF CallRelease, Releasers
        <5>3. Releasers \subseteq Actors
          BY DEF Releasers
        <5> QED BY <4>2, <4>3, <5>1, <5>2, <5>3 DEF Underway
      <4> QED BY <2>0, <2>2, <4>1, <4>4, <4>5, Going DEF CallRelease, portalVars
    <3>3. CASE ReleaseFails
      <4>1. ~Frozen'
        BY <3>3 DEF ReleaseFails, Frozen
      <4>2. capturing' = capturing /\ session' = session /\ finished' = finished
            /\ sigQ' = sigQ /\ count' = count /\ activeID' = activeID
        BY <2>2, <3>3 DEF CallRelease, ReleaseFails, portalVars
      <4>3. LastSignal' <=> LastSignal
        BY <4>2 DEF LastSignal
      <4>4. pc' = [b \in Actors |-> pc'[b]] /\ id' = [b \in Actors |-> id'[b]]
        BY <2>0, <2>2 DEF CallRelease
      <4> QED BY <4>1, <4>2, <4>3, <4>4
    <3> QED BY <2>2, <3>1, <3>2, <3>3 DEF CallRelease
  <2> QED BY <1>5, <2>1, <2>2 DEF Release
<1>6. ASSUME NEW g \in GateSet, GateTimer(g) PROVE FrozenInv'
  <2>1. pc'[g] = "enter" \/ (pc'[g] = "release" /\ g \in Releasers)
    BY <1>6 DEF GateTimer, Releasers
  <2>2. \A b \in Actors \ {g} : pc'[b] = pc[b]
    BY <1>6 DEF GateTimer
  <2>3. Releasers \subseteq Actors
    BY DEF Releasers
  <2>4. Underway => Underway'
    BY <1>6, <2>1, <2>2, <2>3 DEF Underway, GateTimer, compVars
  <2>5. Frozen' => Frozen
    BY <1>6 DEF GateTimer, Frozen, compVars, capVars, cursorVars
  <2> QED BY <1>6, <2>4, <2>5, Going DEF GateTimer, portalVars
<1>7. ASSUME NEW g \in GateSet, GateStopped(g) PROVE FrozenInv'
  <2>1. Frozen' => Underway'
    BY <1>7 DEF GateStopped, Frozen, Underway, compVars
  <2> QED BY <1>7, <2>1, Going DEF GateStopped, portalVars
<1>8. CASE TestOwner \/ Disconnected
  BY <1>8, Aside DEF TestOwner, Disconnected, NextEvent, capVars, cursorVars,
     portalVars
<1>9. CASE DropOrSend
  BY <1>9, Aside DEF DropOrSend, capVars, cursorVars, portalVars
<1>10. CASE ForceReturn
  <2>1. Frozen' => Frozen
    BY <1>10 DEF ForceReturn, Frozen
  <2>2. Underway => Underway'
    BY <1>10 DEF ForceReturn, Underway, Releasers
  <2>3. LastSignal' <=> LastSignal
    BY <1>10 DEF ForceReturn, LastSignal, portalVars
  <2> QED BY <1>10, <2>1, <2>2, <2>3 DEF ForceReturn
<1>11. ASSUME NEW m \in Motions, FeedMotion(m[1], m[2]) PROVE FrozenInv'
  <2>1. CASE pc'["ei"] = "release"
    <3>1. Underway'
      BY <2>1 DEF Underway, Releasers
    <3> QED BY <1>11, <3>1, Going DEF FeedMotion, portalVars
  <2>2. CASE pc'["ei"] # "release"
    <3>1. active' => active
      BY <1>11, <2>2 DEF FeedMotion, RC!Motion, RC!Depth
    <3>2. Frozen' => Frozen
      BY <1>11, <3>1 DEF FeedMotion, Frozen, compVars
    <3>3. Underway => Underway'
      BY <1>11 DEF FeedMotion, Underway, Releasers, compVars
    <3> QED BY <1>11, <3>2, <3>3, Going DEF FeedMotion, portalVars
  <2> QED BY <2>1, <2>2
<1>12. ASSUME NEW a \in {"ei", "main"}, Stop(a) PROVE FrozenInv'
  <2>1. CASE StopBegin(a)
    <3>1. Frozen' => Underway'
      BY <2>1 DEF StopBegin, Frozen, Underway, compVars
    <3>2. LastSignal' <=> LastSignal
      BY <2>1 DEF StopBegin, LastSignal, compVars, portalVars
    <3> QED BY <2>1, <3>1, <3>2 DEF StopBegin, compVars
  <2>2. CASE CallDisable(a)
    <3>1. CASE session' = FALSE /\ EndCapture
      BY <2>2, <3>1, Thawed DEF CallDisable, EndCapture
    <3>2. CASE UNCHANGED <<session, capturing, chorded, failed>>
      BY <2>2, <3>2, Aside DEF CallDisable, compVars, capVars, cursorVars,
         portalVars
    <3> QED BY <2>2, <3>1, <3>2 DEF CallDisable
  <2>3. CASE Drain(a)
    BY <2>3, Aside DEF Drain, capVars, cursorVars, portalVars
  <2>4. CASE Shut(a)
    BY <2>4, Thawed DEF Shut, EndCapture
  <2> QED BY <1>12, <2>1, <2>2, <2>3, <2>4 DEF Stop
<1>13. ASSUME NEW a \in {"sig", "ei"}, Quit(a) PROVE FrozenInv'
  BY <1>13, Aside DEF Quit, capVars, cursorVars, portalVars
<1> QED
  BY <1>1, <1>2, <1>3, <1>4, <1>5, <1>6, <1>7, <1>8, <1>9, <1>10, <1>11,
     <1>12, <1>13, FrozenCompositor, FrozenSignals
  DEF Next, Program, SignalLoop, EiLoop, Main, Gate, Releasers

(* The pointer is never frozen for good: whenever the compositor captures  *)
(* what the program drops, a signal is queued, a goroutine is about to     *)
(* hand the pointer over or to release it, or the teardown is under way.   *)
(* Excused as in NoFrozenPointer.                                          *)
THEOREM NeverFrozen == Spec => [](Frozen => Underway)
<1>1. Init => FrozenInv
  BY DEF Init, FrozenInv, Frozen
<1>2. FrozenInv => (Frozen => Underway)
  BY DEF FrozenInv
<1> QED BY <1>1, <1>2, QueueInit, QueueStep, FrozenStep, PTL DEF Spec

(***************************************************************************)
(* The teardown is not stuck.  Again the theorem says what StopNotStuck    *)
(* amounts to: while main is in the teardown, or on its way home, some     *)
(* goroutine it may wait for has a step to take (Moves names the guards).  *)
(***************************************************************************)
Moves ==
  \/ pc["main"] \in {"switch", "release", "call", "disable", "shut", "closing"}
  \/ pc["main"] = "stop" /\ stopper = "nobody"
  \/ pc["main"] = "drain" /\ pc["sig"] = "done" /\ pc["ei"] = "done"
  \/ pc["sig"] \in {"enter", "notify"}
  \/ pc["sig"] = "wait" /\ stopped
  \/ pc["ei"] \in {"motion", "key", "chord", "release", "call", "disable"}
  \/ pc["ei"] = "wait" /\ stopped

\* Who runs the body of stopOnce is in it, or past it.
StopInv ==
  /\ pc = [a \in Actors |-> pc[a]]
  /\ pc["sig"] \in {"wait", "enter", "notify", "done"}
  /\ pc["ei"] \in {"wait", "motion", "key", "chord", "release", "call",
                   "stop", "disable", "drain", "done"}
  /\ pc["main"] \in {"wait", "switch", "release", "call",
                     "stop", "disable", "drain", "shut", "closing", "closed"}
  /\ stopper = "ei" <=> pc["ei"] \in {"disable", "drain"}
  /\ stopper = "main" <=> pc["main"] \in {"disable", "drain", "shut", "closing", "closed"}
  /\ stopped <=> stopper # "nobody"
  /\ stopper \in {"nobody", "ei", "main"}

LEMMA StopStep ==
  ASSUME StopInv, DrainInv, QueueOK, [Next]_vars PROVE StopInv'
<1> USE DEF StopInv
<1>1. ASSUME UNCHANGED <<pc, stopVars>> PROVE StopInv'
  BY <1>1 DEF stopVars
<1>2. CASE \/ Compositor \/ GraceExpires \/ UNCHANGED vars
           \/ OnDeactivated \/ OnDisabled \/ Modifiers
  BY <1>1, <1>2 DEF Compositor, Activate, Input, Deactivate, DisableSession,
     Disconnect, GraceExpires, vars, OnDeactivated, OnDisabled, Modifiers
<1>3. CASE RecvHandBack \/ LinkDown \/ SwitchHome \/ CloseConn
  <2>1. CASE RecvHandBack
    BY <2>1 DEF RecvHandBack, stopVars
  <2>2. CASE LinkDown
    BY <2>2 DEF LinkDown, stopVars
  <2>3. CASE SwitchHome
    BY <2>3 DEF SwitchHome, stopVars
  <2>4. CASE CloseConn
    BY <2>4 DEF CloseConn, stopVars
  <2> QED BY <1>3, <2>1, <2>2, <2>3, <2>4
<1>4. ASSUME NEW g \in GateSet, NEW l, Go(g, l), UNCHANGED stopVars PROVE StopInv'
  <2>1. g \notin {"sig", "ei", "main"} /\ g \in Actors
    OBVIOUS
  <2> QED BY <1>4, <2>1 DEF stopVars
<1>5. CASE OnActivated
  BY <1>5 DEF OnActivated, NextSignal, stopVars
<1>6. CASE OnActivatedGated
  <2>1. activeID' \in 1 .. Len(Gates)
    BY <1>6, TailQueue DEF OnActivatedGated
  <2>2. Gates[activeID'] \in GateSet
    BY <2>1, GateOfSignal
  <2> QED BY <1>4, <1>6, <2>2 DEF OnActivatedGated
<1>7. ASSUME NEW a \in {"sig"} \cup GateSet, Cross(a) PROVE StopInv'
  <2>1. \E l : Go(a, l) /\ (a = "sig" => l \in {"notify", "wait"})
    BY <1>7 DEF Cross, Enter, Notify, Back
  <2>2. UNCHANGED stopVars
    BY <1>7 DEF Cross, Enter, Notify
  <2>3. CASE a = "sig"
    BY <2>1, <2>2, <2>3 DEF stopVars
  <2> QED BY <1>4, <1>7, <2>1, <2>2, <2>3
<1>8. ASSUME NEW a \in Releasers, Release(a) PROVE StopInv'
  <2>1. \E l : Go(a, l) /\ (a \notin GateSet => l \in {"call", "wait"})
    BY <1>8 DEF Release, LoadID, CallRelease, Back
  <2>2. UNCHANGED stopVars
    BY <1>8 DEF Release, LoadID, CallRelease
  <2>3. pc[a] \in {"release", "call"}
    BY <1>8 DEF Release, LoadID, CallRelease
  <2>4. CASE a \in {"ei", "main"}
    BY <2>1, <2>2, <2>3, <2>4 DEF stopVars
  <2> QED BY <1>4, <1>8, <2>1, <2>2, <2>4 DEF Releasers
<1>9. ASSUME NEW g \in GateSet, GateTimer(g) \/ GateStopped(g) PROVE StopInv'
  BY <1>4, <1>9 DEF GateTimer, GateStopped
<1>10. CASE TestOwner \/ DropOrSend \/ ForceReturn \/ Disconnected
  <2>1. CASE TestOwner
    <3>1. Head(eiQ) \in {"motion", "key", "chord"}
      BY <2>1 DEF TestOwner, NextEvent
    <3> QED BY <2>1, <3>1 DEF TestOwner, NextEvent, stopVars
  <2>2. CASE DropOrSend
    BY <2>2 DEF DropOrSend, stopVars
  <2>3. CASE ForceReturn
    BY <2>3 DEF ForceReturn, stopVars
  <2>4. CASE Disconnected
    BY <2>4 DEF Disconnected, NextEvent, stopVars
  <2> QED BY <1>10, <2>1, <2>2, <2>3, <2>4
<1>11. ASSUME NEW m \in Motions, FeedMotion(m[1], m[2]) PROVE StopInv'
  BY <1>11 DEF FeedMotion, stopVars
<1>12. ASSUME NEW a \in {"ei", "main"}, Stop(a) PROVE StopInv'
  <2>1. CASE StopBegin(a)
    BY <1>12, <2>1 DEF StopBegin
  <2>2. CASE CallDisable(a) \/ Drain(a)
    BY <1>12, <2>2 DEF CallDisable, Drain, stopVars
  <2>3. CASE Shut(a)
    BY <1>12, <2>3 DEF Shut
  <2> QED BY <1>12, <2>1, <2>2, <2>3 DEF Stop
<1>13. ASSUME NEW a \in {"sig", "ei"}, Quit(a) PROVE StopInv'
  BY <1>13 DEF Quit, stopVars
<1> QED
  BY <1>2, <1>3, <1>5, <1>6, <1>7, <1>8, <1>9, <1>10, <1>11, <1>12, <1>13
  DEF Next, Program, SignalLoop, EiLoop, Main, Gate, Releasers

(* The teardown gets on: unless main is in the receive loop or past the    *)
(* close of the connection, a goroutine it may wait for can take a step,   *)
(* wherever the loops and the compositor were when the link dropped.       *)
(* Excused as in StopNotStuck: libei disconnected.                         *)
THEOREM NeverStuck ==
  Spec => [](pc["ei"] \notin {"stop", "drain"} => pc["main"] \in {"wait", "closed"} \/ Moves)
<1>1. Init => StopInv
  BY DEF Init, StopInv
<1>2. Init => DrainInv
  BY DEF Init, DrainInv
<1>3. StopInv =>
        (pc["ei"] \notin {"stop", "drain"} => pc["main"] \in {"wait", "closed"} \/ Moves)
  BY DEF StopInv, Moves
<1> QED BY <1>1, <1>2, <1>3, QueueInit, QueueStep, DrainStep, StopStep, PTL DEF Spec
----------------------------------------------------------------------------
(***************************************************************************)
(* The virtual cursor.  A crossing takes its edge from the signal that     *)
(* started it, so what the goroutines remember of signals are edges.       *)
(***************************************************************************)
EdgesOK == at \in [Actors -> Edges]

LEMMA EdgesInit == ASSUME Init PROVE EdgesOK
BY DEF Init, RC!CursorInit, EdgesOK

LEMMA EdgesStep == ASSUME EdgesOK, QueueOK, [Next]_vars PROVE EdgesOK'
<1> USE DEF EdgesOK
<1>1. ASSUME UNCHANGED at PROVE EdgesOK'
  BY <1>1
<1>2. ASSUME NextSignal("Activated") PROVE Head(sigQ).edge \in Edges
  <2>1. Head(sigQ) \in Signals /\ Head(sigQ).kind = "Activated"
    BY <1>2, TailQueue DEF NextSignal
  <2> QED BY <2>1 DEF Signals
<1>3. CASE OnActivated
  BY <1>2, <1>3 DEF OnActivated
<1>4. CASE OnActivatedGated
  BY <1>2, <1>4 DEF OnActivatedGated
<1>5. CASE Compositor \/ GraceExpires \/ RecvHandBack \/ LinkDown \/ UNCHANGED vars
  BY <1>1, <1>5 DEF Compositor, Activate, Input, Deactivate, DisableSession,
     Disconnect, GraceExpires, RecvHandBack, LinkDown, vars
<1>6. ASSUME NEW a, Cross(a) \/ Release(a) \/ Stop(a) \/ Quit(a) PROVE EdgesOK'
  <2>1. CASE Cross(a) \/ Release(a) \/ Quit(a)
    BY <1>1, <2>1 DEF Cross, Enter, Notify, Release, LoadID, CallRelease, Quit
  <2>2. CASE Stop(a)
    BY <1>1, <2>2 DEF Stop, StopBegin, CallDisable, Drain, Shut
  <2> QED BY <1>6, <2>1, <2>2
<1>7. CASE SignalLoop
  BY <1>1, <1>3, <1>4, <1>6, <1>7 DEF SignalLoop, OnDeactivated, OnDisabled
<1>8. CASE EiLoop
  BY <1>1, <1>6, <1>8 DEF EiLoop, TestOwner, DropOrSend, ForceReturn, Modifiers,
     Disconnected, FeedMotion
<1>9. CASE Main
  BY <1>1, <1>6, <1>9 DEF Main, SwitchHome, CloseConn
<1>10. ASSUME NEW g \in GateSet, Gate(g) PROVE EdgesOK'
  BY <1>1, <1>6, <1>10 DEF Gate, GateTimer, GateStopped
<1> QED BY <1>5, <1>6, <1>7, <1>8, <1>9, <1>10 DEF Next, Program

\* A step crosses, feeds a motion, brings control home or leaves the cursor.
CursorSame == UNCHANGED cursorVars

LEMMA CursorByRole ==
  ASSUME [Next]_vars
  PROVE  \/ \E a \in Actors, p \in Perps : Enter(a, p)
         \/ \E m \in Motions : FeedMotion(m[1], m[2])
         \/ SetActive \/ CursorSame
<1> USE DEF capVars
<1>1. CASE Compositor \/ GraceExpires \/ RecvHandBack \/ LinkDown \/ UNCHANGED vars
  BY <1>1 DEF Compositor, Activate, Input, Deactivate, DisableSession,
     Disconnect, GraceExpires, RecvHandBack, LinkDown, vars, CursorSame
<1>2. ASSUME NEW a, Release(a) \/ Stop(a) \/ Quit(a) \/ Notify(a) PROVE CursorSame
  BY <1>2 DEF Release, LoadID, CallRelease, Stop, StopBegin, CallDisable, Drain,
     Shut, Quit, Notify, CursorSame
<1>3. ASSUME NEW a \in Actors, Cross(a)
      PROVE  (\E p \in Perps : Enter(a, p)) \/ CursorSame
  BY <1>2, <1>3 DEF Cross
<1>4. CASE SignalLoop
  <2>1. CASE OnActivated \/ OnActivatedGated \/ OnDisabled
    BY <2>1 DEF OnActivated, OnActivatedGated, OnDisabled, CursorSame
  <2>2. CASE OnDeactivated
    BY <2>2 DEF OnDeactivated
  <2>3. CASE Cross("sig")
    BY <1>3, <2>3
  <2> QED BY <1>4, <2>1, <2>2, <2>3 DEF SignalLoop
<1>5. CASE EiLoop
  <2>1. CASE TestOwner \/ DropOrSend \/ Modifiers \/ Disconnected
    BY <2>1 DEF TestOwner, DropOrSend, Modifiers, Disconnected, CursorSame
  <2>2. CASE ForceReturn
    BY <2>2 DEF ForceReturn
  <2> QED BY <1>2, <1>5, <2>1, <2>2 DEF EiLoop
<1>6. CASE Main
  <2>1. CASE SwitchHome
    BY <2>1 DEF SwitchHome
  <2>2. CASE CloseConn
    BY <2>2 DEF CloseConn, CursorSame
  <2> QED BY <1>2, <1>6, <2>1, <2>2 DEF Main
<1>7. ASSUME NEW g \in GateSet, Gate(g)
      PROVE  (\E p \in Perps : Enter(g, p)) \/ CursorSame
  BY <1>2, <1>3, <1>7 DEF Gate, GateTimer, GateStopped, CursorSame
<1> QED BY <1>1, <1>2, <1>4, <1>5, <1>6, <1>7 DEF Next, Program

(* The cursor of the Wayland capturer follows RemoteCursor, whatever the   *)
(* order of signals, events, gates, hand-backs and the teardown.           *)
THEOREM RefinesCursor == Spec => ImplementsRemoteCursor
<1>1. Init => RC!CursorInit
  BY DEF Init
<1>2. EdgesOK /\ [Next]_vars => [RC!CursorNext]_(RC!cursorVars)
  <2> SUFFICES ASSUME EdgesOK, [Next]_vars
               PROVE  RC!CursorNext \/ UNCHANGED RC!cursorVars
    OBVIOUS
  <2>1. ASSUME NEW a \in Actors, NEW p \in Perps, Enter(a, p) PROVE RC!CursorNext
    <3>1. at[a] \in Edges /\ RC!EnterRemoteEdge(at[a], p)
      BY <2>1 DEF EdgesOK, Enter
    <3> QED BY <3>1 DEF RC!CursorNext
  <2>2. ASSUME NEW m \in Motions, FeedMotion(m[1], m[2]) PROVE RC!CursorNext
    BY <2>2 DEF FeedMotion, RC!CursorNext
  <2>3. CASE SetActive
    BY <2>3 DEF SetActive, RC!CursorNext
  <2>4. CASE CursorSame
    BY <2>4 DEF CursorSame, cursorVars, RC!cursorVars
  <2> QED BY <2>1, <2>2, <2>3, <2>4, CursorByRole
<1> QED BY <1>1, <1>2, EdgesInit, EdgesStep, QueueInit, QueueStep, PTL
        DEF Spec, ImplementsRemoteCursor, RC!CursorSpec

----------------------------------------------------------------------------
(***************************************************************************)
(* The gates at the return edge.                                           *)
(***************************************************************************)
Position == remoteX \in Int /\ remoteY \in Int /\ accX \in Int /\ accY \in Int

Awake == ~active /\ RC!Depth <= RC!HitSlack(activeEdge) => ~canReturn

LEMMA AwakeIsNeverDeaf == ASSUME Position, Awake PROVE RC!EdgeIsNeverDeaf
<1>1. RC!Depth \in Int
  BY GridAssumption DEF Position, RC!Depth, RC!ReturnDepth
<1>2. RC!HitSlack(activeEdge) \in 0 .. 1
  BY DEF RC!HitSlack
<1>3. RC!Depth <= RC!HitSlack(activeEdge) => RC!Depth <= ReturnMargin
  BY <1>1, <1>2, GridAssumption
<1> QED BY <1>3 DEF RC!EdgeIsNeverDeaf, RC!AcceptsActivation, Awake

LEMMA PositionStep ==
  ASSUME Position, EdgesOK, [Next]_vars PROVE Position'
<1>1. ASSUME NEW a \in Actors, NEW p \in Perps, Enter(a, p) PROVE Position'
  <2>1. RC!EnterRemoteEdge(at[a], p)
    BY <1>1 DEF Enter
  <2>2. RC!EntryX(at[a], p) \in Int /\ RC!EntryY(at[a], p) \in Int
    BY GridAssumption DEF RC!EntryX, RC!EntryY
  <2> QED BY <2>1, <2>2 DEF RC!EnterRemoteEdge, Position
<1>2. ASSUME NEW m \in Motions, FeedMotion(m[1], m[2]) PROVE Position'
  <2> DEFINE ix == RC!TruncUnits(accX + m[1])
             iy == RC!TruncUnits(accY + m[2])
  <2>1. m[1] \in Int /\ m[2] \in Int
    OBVIOUS
  <2>2. \A a \in Int : RC!TruncUnits(a) \in Int
    BY GridAssumption DEF RC!TruncUnits
  <2>3. \A v \in Int : RC!Clamp(v) \in Int
    BY GridAssumption DEF RC!Clamp
  <2>4. /\ remoteX' = RC!Clamp(remoteX + ix) /\ remoteY' = RC!Clamp(remoteY + iy)
        /\ accX' = accX + m[1] - ix * Frac /\ accY' = accY + m[2] - iy * Frac
    BY <1>2 DEF FeedMotion, RC!Motion
  <2>5. ix \in Int /\ iy \in Int
    <3>1. accX \in Int /\ accY \in Int
      BY DEF Position
    <3>2. accX + m[1] \in Int /\ accY + m[2] \in Int
      BY <2>1, <3>1
    <3> QED BY <2>2, <3>2
  <2> HIDE DEF ix, iy
  <2>6. remoteX' \in Int /\ remoteY' \in Int
    BY <2>3, <2>4, <2>5 DEF Position
  <2>7. accX' \in Int /\ accY' \in Int
    BY <2>1, <2>4, <2>5, GridAssumption DEF Position
  <2> QED BY <2>6, <2>7 DEF Position
<1>3. CASE SetActive
  BY <1>3 DEF SetActive, RC!SetActive, Position
<1>4. CASE CursorSame
  BY <1>4 DEF CursorSame, cursorVars, Position
<1> QED BY <1>1, <1>2, <1>3, <1>4, CursorByRole

LEMMA AwakeStep == ASSUME Awake, [Next]_vars PROVE Awake'
<1>1. ASSUME NEW a \in Actors, NEW p \in Perps, Enter(a, p) PROVE Awake'
  BY <1>1 DEF Enter, RC!EnterRemoteEdge, Awake
<1>2. ASSUME NEW m \in Motions, FeedMotion(m[1], m[2]) PROVE Awake'
  <2>1. RC!Depth' = RC!ReturnDepth(activeEdge, remoteX', remoteY')
        /\ RC!HitSlack(activeEdge)' = RC!HitSlack(activeEdge)
    BY <1>2 DEF FeedMotion, RC!Motion, RC!Depth
  <2>2. active' = (active \/ (canReturn' /\ RC!Depth' <= RC!HitSlack(activeEdge)))
    BY <1>2, <2>1 DEF FeedMotion, RC!Motion
  <2> QED BY <2>1, <2>2 DEF Awake
<1>3. CASE SetActive
  BY <1>3 DEF SetActive, RC!SetActive, Awake
<1>4. CASE CursorSame
  BY <1>4 DEF CursorSame, cursorVars, Awake, RC!Depth, RC!HitSlack
<1> QED BY <1>1, <1>2, <1>3, <1>4, CursorByRole

(* While the remote owns the pointer at the return edge, its hand-back is  *)
(* accepted, however many gates cross one over the other.                  *)
THEOREM EdgeNeverDeaf == Spec => []RC!EdgeIsNeverDeaf
<1>1. Init => Position /\ Awake
  BY DEF Init, RC!CursorInit, Position, Awake
<1>2. Spec => []EdgesOK
  BY EdgesInit, EdgesStep, QueueInit, QueueStep, PTL DEF Spec
<1>3. Spec => [](Position /\ Awake)
  BY <1>1, <1>2, PositionStep, AwakeStep, PTL DEF Spec
<1> QED BY <1>3, AwakeIsNeverDeaf, PTL
============================================================================
