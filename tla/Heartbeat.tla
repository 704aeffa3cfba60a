----------------------------- MODULE Heartbeat -----------------------------
(***************************************************************************)
(* The liveness watch of a connection (internal/network/receiver.go and    *)
(* sendq_linux.go): ReceiveLoop reads packets, and the goroutine of        *)
(* startHeartbeat sends a heartbeat at every tick and closes a connection  *)
(* whose peer is gone, so that the blocked read returns and main           *)
(* reconnects.  A peer is gone                                             *)
(*   - when nothing was read from it for more than livenessTimeout;        *)
(*   - when the socket's send queue has not shrunk from one tick to the    *)
(*     next for more than livenessTimeout (sendStallTracker);              *)
(*   - when the heartbeat cannot be sent.                                  *)
(*                                                                         *)
(* Time advances in units; Interval and Timeout are the code's 5s and 15s. *)
(* The peer is the environment: it may stop sending, reading, or both.     *)
(*                                                                         *)
(* A definition marked "mutant" is a plausible bug, used by no other       *)
(* definition: put in place of the one that follows, it must break a       *)
(* property.                                                               *)
(***************************************************************************)
EXTENDS Integers

CONSTANTS
  Interval,  \* time between ticks
  Timeout,   \* livenessTimeout
  MaxDelay,  \* bound: how late a tick is handled (a send that waits)
  QMax       \* capacity of the send queue, in packets

ASSUME HeartbeatAssumption ==
  /\ Interval \in Nat \ {0} /\ Timeout \in Nat \ {0} /\ MaxDelay \in Nat
  /\ MaxDelay < Interval
  /\ QMax \in Nat \ {0}

VARIABLES
  \* Conn and its socket
  closed,      \* the connection is closed
  outq,        \* packets sent that the peer has not taken
  silent,      \* age of lastRecv
  \* startHeartbeat
  hb,          \* "wait" for a tick, or "done"
  phase,       \* age of the last tick handled
  progress,    \* age of sendStall.lastProgress
  lastOutQ,    \* sendStall.lastOutQ
  \* ReceiveLoop
  loop,        \* "read", or "done": returned, stop closed
  \* history
  untaken      \* time for which packets were queued and none was taken

connVars  == <<closed, outq, silent>>
watchVars == <<hb, phase, progress, lastOutQ>>
vars == <<connVars, watchVars, loop, untaken>>

\* Ages do not matter beyond every deadline that is checked.
Horizon == Timeout + 3 * Interval + MaxDelay + 1
Older(age) == IF age < Horizon THEN age + 1 ELSE age

----------------------------------------------------------------------------
\* setupConn recorded a packet read; the tracker starts now.
Init ==
  /\ closed = FALSE /\ outq = 0 /\ silent = 0
  /\ hb = "wait" /\ phase = 0 /\ progress = 0 /\ lastOutQ = 0
  /\ loop = "read"
  /\ untaken = 0

\* A unit of time.  A tick that is due is handled at most MaxDelay late.
Elapse ==
  /\ hb = "wait" => phase < Interval + MaxDelay
  /\ silent' = Older(silent) /\ progress' = Older(progress)
  /\ phase' = IF hb = "wait" THEN phase + 1 ELSE phase
  /\ untaken' = IF outq > 0 THEN Older(untaken) ELSE 0
  /\ UNCHANGED <<closed, outq, hb, lastOutQ, loop>>

\* Another goroutine sends a packet, or the loop replies to one; a queue
\* that is full makes the write fail, which those callers only log.
WeSend ==
  /\ ~closed /\ outq < QMax
  /\ outq' = outq + 1
  /\ UNCHANGED <<closed, silent, watchVars, loop, untaken>>

\* The peer takes packets.
PeerTakes ==
  /\ ~closed
  /\ outq' \in 0 .. outq - 1
  /\ untaken' = 0
  /\ UNCHANGED <<closed, silent, watchVars, loop>>

\* RecvPacket returns a packet of the peer, which is dispatched.
RecvPacket ==
  /\ loop = "read" /\ ~closed
  /\ silent' = 0
  /\ UNCHANGED <<closed, outq, watchVars, loop, untaken>>

\* RecvPacket fails, or the packet is a ByeBye: ReceiveLoop returns.
LoopReturns ==
  /\ loop = "read"
  /\ loop' = "done"
  /\ UNCHANGED <<connVars, watchVars, untaken>>

----------------------------------------------------------------------------
(* startHeartbeat: one tick.                                               *)

Ticking == hb = "wait" /\ phase >= Interval

NoSilenceCheck == FALSE                                        \* mutant
TooSilent == silent > Timeout

\* sendStallTracker.stalled, for a queue of n packets.
ProgressIfChanged(n) == n = 0 \/ n # lastOutQ                  \* mutant
Progress(n) == n = 0 \/ n < lastOutQ

ProgressAge == IF Progress(outq) THEN 0 ELSE progress
Stalled == outq > 0 /\ ProgressAge > Timeout

\* conn.Close and return.
GiveUpOpen ==                                                  \* mutant
  /\ hb' = "done"
  /\ UNCHANGED <<closed, outq, phase>>

GiveUp ==
  /\ closed' = TRUE /\ hb' = "done"
  /\ UNCHANGED <<outq, phase>>

Tick ==
  /\ Ticking
  /\ IF TooSilent
       THEN GiveUp /\ UNCHANGED <<progress, lastOutQ>>
       ELSE /\ progress' = ProgressAge /\ lastOutQ' = outq
            /\ \/ Stalled /\ GiveUp
               \/ ~Stalled /\ (closed \/ outq = QMax) /\ GiveUp
               \/ /\ ~Stalled /\ ~closed /\ outq < QMax
                  /\ outq' = outq + 1 /\ phase' = phase - Interval
                  /\ UNCHANGED <<closed, hb>>
  /\ UNCHANGED <<silent, loop, untaken>>

\* select: the stop channel, closed when ReceiveLoop returned.
StopHeartbeat ==
  /\ hb = "wait" /\ loop = "done"
  /\ hb' = "done"
  /\ UNCHANGED <<connVars, phase, progress, lastOutQ, loop, untaken>>

\* main closes the connection after ReceiveLoop.
MainCloses ==
  /\ loop = "done" /\ ~closed
  /\ closed' = TRUE
  /\ UNCHANGED <<outq, silent, watchVars, loop, untaken>>

Next ==
  \/ Elapse \/ WeSend \/ PeerTakes \/ RecvPacket \/ LoopReturns
  \/ Tick \/ StopHeartbeat \/ MainCloses

Spec == Init /\ [][Next]_vars

(***************************************************************************)
(* A read of a closed connection fails at once, the goroutine that may     *)
(* tick or stop does so, main goes on, and time passes.  Nothing is        *)
(* assumed of the peer, nor that an open connection ever fails.            *)
(***************************************************************************)
FairSpec ==
  /\ Spec
  /\ WF_vars(closed /\ LoopReturns) /\ WF_vars(StopHeartbeat)
  /\ WF_vars(Tick) /\ WF_vars(MainCloses) /\ WF_vars(Elapse)

----------------------------------------------------------------------------
(* Properties.                                                             *)

TypeOK ==
  /\ closed \in BOOLEAN /\ outq \in 0 .. QMax /\ lastOutQ \in 0 .. QMax
  /\ silent \in 0 .. Horizon /\ progress \in 0 .. Horizon
  /\ untaken \in 0 .. Horizon
  /\ phase \in 0 .. Interval + MaxDelay
  /\ hb \in {"wait", "done"} /\ loop \in {"read", "done"}

Watching == ~closed /\ loop = "read"

\* "a half-open zombie" is found: an open connection was never silent for
\* longer than livenessTimeout, one interval and the delay of a tick
\* (receiver.go:13-18, 55-62).
SilentPeerCaught == Watching => silent <= Timeout + Interval + MaxDelay

\* So is the asymmetric one, which sends but does not read: the queue of an
\* open connection was never left untaken for longer than livenessTimeout
\* and two intervals, each with its delay (receiver.go:45-48, 63-67).
StalledPeerCaught == Watching => untaken <= Timeout + 2 * (Interval + MaxDelay)

\* The watch never ends with the link hung: once the heartbeat goroutine is
\* gone, ReceiveLoop returns (receiver.go:16-17, 76-79).
NoHungLink == hb = "done" ~> loop = "done"

============================================================================
