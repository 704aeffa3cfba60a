-------------------------- MODULE Heartbeat_proofs --------------------------
(***************************************************************************)
(* Proofs about Heartbeat: for every interval, timeout, delay and queue    *)
(* size, a dead or deaf peer is found within the stated time.              *)
(*                                                                         *)
(* The ages are related through the last tick: what was not too old then   *)
(* has aged by phase since.  A queue that shrank since the last tick was   *)
(* taken from since, so resetting progress forgets at most one interval.   *)
(***************************************************************************)
EXTENDS Heartbeat, TLAPS

\* The goroutine ends only with the connection closed or the loop over.
WatchKept == hb = "done" => closed \/ loop = "done"

\* The receive side, as of the last tick.
SilentSinceTick == silent <= Timeout + phase

\* The send side, as of the last tick that saw progress.
ProgressSinceTick == progress <= Timeout + phase
TakenWhenEmpty == outq = 0 => untaken = 0
TakenWhenShrunk == outq < lastOutQ => untaken <= phase
UntakenSinceProgress == untaken <= progress + Interval + MaxDelay

Aged ==
  /\ SilentSinceTick /\ ProgressSinceTick
  /\ TakenWhenShrunk /\ UntakenSinceProgress

IInv ==
  /\ WatchKept /\ TakenWhenEmpty
  /\ hb = "wait" /\ ~closed => Aged

----------------------------------------------------------------------------
(* Ages and the places they are kept in.                                   *)
LEMMA OlderBound ==
  ASSUME NEW age \in 0 .. Horizon
  PROVE  /\ Older(age) \in 0 .. Horizon
         /\ Older(age) <= age + 1
         /\ age < Horizon => Older(age) = age + 1
BY HeartbeatAssumption DEF Older, Horizon

\* Every variable keeps its type, for every value of the constants.
THEOREM TypeCorrect == Spec => []TypeOK
<1>1. Init => TypeOK
  <2>1. 0 \in 0 .. Horizon /\ 0 \in 0 .. QMax /\ 0 \in 0 .. Interval + MaxDelay
    BY HeartbeatAssumption DEF Horizon
  <2> QED
    BY <2>1, Zenon DEF Init, TypeOK
<1>2. TypeOK /\ [Next]_vars => TypeOK'
  <2> SUFFICES ASSUME TypeOK, [Next]_vars
               PROVE  TypeOK'
    OBVIOUS
  <2> USE HeartbeatAssumption
  <2>1. CASE Elapse
    <3>1. /\ silent' \in 0 .. Horizon /\ progress' \in 0 .. Horizon
          /\ untaken' \in 0 .. Horizon
      BY <2>1, OlderBound DEF Elapse, TypeOK, Horizon
    <3>2. phase' \in 0 .. Interval + MaxDelay
      BY <2>1 DEF Elapse, TypeOK
    <3> QED
      BY <2>1, <3>1, <3>2 DEF Elapse, TypeOK
  <2>2. CASE WeSend
    BY <2>2 DEF WeSend, watchVars, TypeOK
  <2>3. CASE PeerTakes
    BY <2>3 DEF PeerTakes, watchVars, TypeOK, Horizon
  <2>4. CASE RecvPacket
    BY <2>4 DEF RecvPacket, watchVars, TypeOK, Horizon
  <2>5. CASE LoopReturns
    BY <2>5 DEF LoopReturns, connVars, watchVars, TypeOK
  <2>6. CASE Tick
    <3>1. /\ outq' \in 0 .. QMax /\ lastOutQ' \in 0 .. QMax
          /\ phase' \in 0 .. Interval + MaxDelay
      BY <2>6 DEF Tick, Ticking, GiveUp, TypeOK
    <3>2. progress' \in 0 .. Horizon
      BY <2>6 DEF Tick, GiveUp, ProgressAge, TypeOK, Horizon
    <3>3. /\ closed' \in BOOLEAN /\ hb' \in {"wait", "done"}
      BY <2>6, Zenon DEF Tick, GiveUp, TypeOK
    <3>4. /\ silent' = silent /\ loop' = loop /\ untaken' = untaken
      BY <2>6 DEF Tick
    <3> QED
      BY <3>1, <3>2, <3>3, <3>4, Zenon DEF TypeOK
  <2>7. CASE StopHeartbeat
    BY <2>7 DEF StopHeartbeat, connVars, TypeOK
  <2>8. CASE MainCloses
    BY <2>8 DEF MainCloses, watchVars, TypeOK
  <2>9. CASE UNCHANGED vars
    BY <2>9 DEF vars, connVars, watchVars, TypeOK
  <2> QED
    BY <2>1, <2>2, <2>3, <2>4, <2>5, <2>6, <2>7, <2>8, <2>9 DEF Next
<1> QED
  BY <1>1, <1>2, PTL DEF Spec

----------------------------------------------------------------------------
LEMMA AgedByElapse ==
  ASSUME TypeOK, IInv, Elapse, hb = "wait", ~closed
  PROVE  Aged'
<1> USE HeartbeatAssumption
<1>1. /\ silent \in 0 .. Horizon /\ progress \in 0 .. Horizon
      /\ untaken \in 0 .. Horizon /\ phase \in Nat /\ phase < Interval + MaxDelay
  BY DEF TypeOK, Elapse
<1>2. Aged
  BY DEF IInv
<1>3. /\ silent' <= silent + 1 /\ untaken' <= untaken + 1 /\ untaken' <= Horizon
      /\ silent' \in Int /\ untaken' \in Int
  BY <1>1, OlderBound DEF Elapse, Horizon
<1>4. progress' = progress + 1
  <2>1. progress < Horizon
    BY <1>1, <1>2 DEF Aged, ProgressSinceTick, Horizon
  <2> QED
    BY <1>1, <2>1, OlderBound DEF Elapse
<1>5. phase' = phase + 1 /\ outq' = outq /\ lastOutQ' = lastOutQ
  BY DEF Elapse
<1> QED
  BY <1>1, <1>2, <1>3, <1>4, <1>5
     DEF Aged, SilentSinceTick, ProgressSinceTick, TakenWhenShrunk,
         UntakenSinceProgress

LEMMA AgedByTick ==
  ASSUME TypeOK, IInv, Tick, hb' = "wait", ~closed
  PROVE  Aged'
<1> USE HeartbeatAssumption
<1>1. /\ silent \in Int /\ progress \in Int /\ untaken \in Int
      /\ phase \in Interval .. Interval + MaxDelay
      /\ outq \in 0 .. QMax /\ lastOutQ \in 0 .. QMax
  BY DEF TypeOK, Tick, Ticking
<1>2. Aged /\ TakenWhenEmpty
  BY DEF IInv, Tick, Ticking
<1>3. /\ silent <= Timeout
      /\ ~Stalled
      /\ progress' = ProgressAge /\ lastOutQ' = outq /\ outq' = outq + 1
      /\ phase' = phase - Interval /\ silent' = silent /\ untaken' = untaken
  BY <1>1 DEF Tick, Ticking, GiveUp, TooSilent
<1>4. ProgressAge \in Int /\ ProgressAge <= Timeout
  BY <1>1, <1>3 DEF Stalled, ProgressAge, Progress
<1>5. untaken <= ProgressAge + Interval + MaxDelay
  BY <1>1, <1>2 DEF ProgressAge, Progress, Aged, TakenWhenEmpty,
                    TakenWhenShrunk, UntakenSinceProgress
<1> QED
  BY <1>1, <1>3, <1>4, <1>5
     DEF Aged, SilentSinceTick, ProgressSinceTick, TakenWhenShrunk,
         UntakenSinceProgress

LEMMA Inductive == Spec => []IInv
<1>1. Init => IInv
  BY HeartbeatAssumption
     DEF Init, IInv, WatchKept, TakenWhenEmpty, Aged, SilentSinceTick,
         ProgressSinceTick, TakenWhenShrunk, UntakenSinceProgress
<1>2. TypeOK /\ IInv /\ [Next]_vars => IInv'
  <2> SUFFICES ASSUME TypeOK, IInv, [Next]_vars
               PROVE  IInv'
    OBVIOUS
  <2> USE HeartbeatAssumption
  <2>1. CASE Elapse
    <3>1. WatchKept' /\ TakenWhenEmpty'
      BY <2>1 DEF Elapse, IInv, WatchKept, TakenWhenEmpty, TypeOK
    <3> QED
      BY <2>1, <3>1, AgedByElapse DEF Elapse, IInv
  <2>2. CASE WeSend
    BY <2>2 DEF WeSend, watchVars, TypeOK, IInv, WatchKept, TakenWhenEmpty,
                Aged, SilentSinceTick, ProgressSinceTick, TakenWhenShrunk,
                UntakenSinceProgress
  <2>3. CASE PeerTakes
    BY <2>3 DEF PeerTakes, watchVars, TypeOK, IInv, WatchKept, TakenWhenEmpty,
                Aged, SilentSinceTick, ProgressSinceTick, TakenWhenShrunk,
                UntakenSinceProgress
  <2>4. CASE RecvPacket
    BY <2>4 DEF RecvPacket, watchVars, TypeOK, IInv, WatchKept, TakenWhenEmpty,
                Aged, SilentSinceTick, ProgressSinceTick, TakenWhenShrunk,
                UntakenSinceProgress
  <2>5. CASE LoopReturns
    BY <2>5 DEF LoopReturns, connVars, watchVars, IInv, WatchKept,
                TakenWhenEmpty, Aged, SilentSinceTick, ProgressSinceTick,
                TakenWhenShrunk, UntakenSinceProgress
  <2>6. CASE Tick
    <3>1. WatchKept'
      BY <2>6 DEF Tick, Ticking, GiveUp, IInv, WatchKept
    <3>2. TakenWhenEmpty'
      BY <2>6 DEF Tick, GiveUp, IInv, TakenWhenEmpty, TypeOK
    <3>3. hb' = "wait" => ~closed
      BY <2>6 DEF Tick, GiveUp
    <3> QED
      BY <2>6, <3>1, <3>2, <3>3, AgedByTick DEF IInv
  <2>7. CASE StopHeartbeat
    BY <2>7 DEF StopHeartbeat, connVars, IInv, WatchKept, TakenWhenEmpty
  <2>8. CASE MainCloses
    BY <2>8 DEF MainCloses, IInv, WatchKept, TakenWhenEmpty
  <2>9. CASE UNCHANGED vars
    BY <2>9 DEF vars, connVars, watchVars, IInv, WatchKept, TakenWhenEmpty,
                Aged, SilentSinceTick, ProgressSinceTick, TakenWhenShrunk,
                UntakenSinceProgress
  <2> QED
    BY <2>1, <2>2, <2>3, <2>4, <2>5, <2>6, <2>7, <2>8, <2>9 DEF Next
<1> QED
  BY <1>1, <1>2, TypeCorrect, PTL DEF Spec

\* A connection that is still watched was never silent for longer than
\* livenessTimeout and one interval (receiver.go:55-62).
THEOREM SilentCaught == Spec => []SilentPeerCaught
<1>1. TypeOK /\ IInv => SilentPeerCaught
  BY HeartbeatAssumption
     DEF TypeOK, IInv, WatchKept, Aged, SilentSinceTick, SilentPeerCaught,
         Watching
<1> QED
  BY <1>1, TypeCorrect, Inductive, PTL

\* Nor was its send queue left untaken for longer than livenessTimeout and
\* two intervals (receiver.go:63-68).
THEOREM StalledCaught == Spec => []StalledPeerCaught
<1>1. TypeOK /\ IInv => StalledPeerCaught
  BY HeartbeatAssumption
     DEF TypeOK, IInv, WatchKept, Aged, ProgressSinceTick,
         UntakenSinceProgress, StalledPeerCaught, Watching
<1> QED
  BY <1>1, TypeCorrect, Inductive, PTL

\* The watch is given up only with the connection closed or ReceiveLoop over:
\* NoHungLink but for its fairness (receiver.go:76-79).
THEOREM WatchNeverLeft == Spec => []WatchKept
<1>1. IInv => WatchKept
  BY DEF IInv
<1> QED
  BY <1>1, Inductive, PTL
=============================================================================
