-------------------------------- MODULE Link --------------------------------
(***************************************************************************)
(* How the program gets, uses and leaves connections: the loop of          *)
(* cmd/mwb/main.go, the attempts and the listener of                       *)
(* internal/network/client.go with their common set-up (IV blocks and      *)
(* handshake), and what the loop starts and stops around ReceiveLoop.      *)
(*                                                                         *)
(*   main      dial, select, sleep, start, recv, stop: one connection      *)
(*             after the other                                             *)
(*   Slots     the goroutines that dial out, one per turn of the loop;     *)
(*             one whose turn was won by an inbound connection goes on     *)
(*             and gets a reaper                                           *)
(*   Listener  the goroutine that accepts, and waits when the channel of   *)
(*             one place (queue) is full                                   *)
(*                                                                         *)
(* A connection is known by where it is (attempt, queue or link) and by    *)
(* its peer: live, silent (connected, but never sends) or dead.  Inside a  *)
(* connection this module knows only whether the capturer has given the    *)
(* pointer away; when it does, what it disables and what its Stop restores *)
(* are in CaptureX11 and CaptureWayland, the end of a connection is in     *)
(* Heartbeat.  SIGINT and SIGTERM end the process at any time; it may be   *)
(* started again.                                                          *)
(***************************************************************************)
EXTENDS Integers

CONSTANTS
  Slots,           \* bound: outbound attempts alive at once
  HandshakeLimit,  \* packets read in search of an acknowledgement (20)
  Platforms        \* how input is captured: subset of {"x11","wayland","off"}

Listener == "listener"
NoSlot == "none"

ASSUME LinkAssumption ==
  /\ HandshakeLimit \in Nat \ {0}
  /\ Listener \notin Slots /\ NoSlot \notin Slots
  /\ Platforms \subseteq {"x11", "wayland", "off"}

Attempts == Slots \cup {Listener}

VARIABLES
  pc,          \* main's place in the loop
  mine,        \* the attempt whose channel main waits on
  at,          \* each attempt's stage
  peer,        \* each attempt's peer
  heard,       \* packets each attempt read in its handshake
  reaped,      \* attempts that have a reaper
  queue,       \* incomingCh: the peer of the waiting connection, or "none"
  link,        \* the connection in use, likewise
  platform,    \* isWayland and the bidirectional flag; does not change
  cap,         \* the capturer: "none", "on", "failed" or "hung"
  callbacks,   \* whose hand-backs the handler calls: "none", "this", "old"
  remoteOwns   \* this process's capturer gave the pointer away

attemptVars == <<mine, at, peer, heard, reaped>>
captureVars == <<cap, remoteOwns>>
vars == <<pc, attemptVars, queue, link, platform, callbacks, captureVars>>

----------------------------------------------------------------------------
NoAttempt == [a \in Attempts |-> IF a = Listener THEN "accept" ELSE "idle"]

Init ==
  /\ pc = "dial" /\ mine = NoSlot /\ at = NoAttempt
  /\ peer = [a \in Attempts |-> "none"] /\ heard = [a \in Attempts |-> 0]
  /\ reaped = {} /\ queue = "none" /\ link = "none"
  /\ platform \in Platforms /\ cap = "none" /\ callbacks = "none"
  /\ remoteOwns = FALSE

----------------------------------------------------------------------------
(* Setting up a connection: setupConn, by an attempt or by the listener.   *)

Enter(a, stage) == at' = [at EXCEPT ![a] = stage]

\* The attempt has no connection any more.
Leave(a, stage) ==
  /\ Enter(a, stage)
  /\ peer' = [peer EXCEPT ![a] = "none"] /\ heard' = [heard EXCEPT ![a] = 0]

\* Connect reports nil; the listener goes on accepting.
GiveUp(a) == Leave(a, IF a = Listener THEN "accept" ELSE "nil")

SilentSlots == {d \in Slots : at[d] = "iv" /\ peer[d] = "silent"}

\* TCP connects.  Bound: at most one outbound peer is silent at a time.
Connected(a) ==
  /\ Enter(a, "iv")
  /\ \E p \in {"live", "silent"} :
       /\ p = "silent" /\ a \in Slots => SilentSlots = {}
       /\ peer' = [peer EXCEPT ![a] = p]
  /\ UNCHANGED <<mine, heard, reaped>>

DialConnects(d) == d \in Slots /\ at[d] = "dial" /\ Connected(d)

DialUnreported(d) ==                                           \* mutant
  /\ d \in Slots /\ at[d] = "dial"
  /\ Enter(d, "returned")
  /\ UNCHANGED <<mine, peer, heard, reaped>>

DialFails(d) ==
  /\ d \in Slots /\ at[d] = "dial"
  /\ GiveUp(d)
  /\ UNCHANGED <<mine, reaped>>

Accept == at[Listener] = "accept" /\ Connected(Listener)

\* The peer's IV block: read without a deadline.
ReadIv(a) ==
  /\ at[a] = "iv" /\ peer[a] = "live"
  /\ Enter(a, "hs")
  /\ UNCHANGED <<mine, peer, heard, reaped>>

\* doHandshake reads the right acknowledgement, and the first heartbeat
\* goes out.
Acknowledged(a) ==
  /\ at[a] = "hs" /\ peer[a] = "live"
  /\ Enter(a, "up")
  /\ heard' = [heard EXCEPT ![a] = 0]
  /\ UNCHANGED <<mine, peer, reaped>>

\* Another packet: the peer's own handshake, which is answered, or one
\* that is skipped; not for ever.
OtherPacket(a) ==
  /\ at[a] = "hs" /\ peer[a] = "live"
  /\ IF heard[a] + 1 = HandshakeLimit THEN GiveUp(a)
     ELSE heard' = [heard EXCEPT ![a] = @ + 1] /\ UNCHANGED <<at, peer>>
  /\ UNCHANGED <<mine, reaped>>

\* A read or a write fails, a packet is not valid (another key), the
\* acknowledgement is wrong or the handshake's deadline expires.
SetupFails(a) ==
  /\ \/ at[a] = "iv" /\ peer[a] = "dead"
     \/ at[a] = "hs"
  /\ GiveUp(a)
  /\ UNCHANGED <<mine, reaped>>

\* The listener hands a connection over when the channel has room.
Enqueue ==
  /\ at[Listener] = "up" /\ queue = "none"
  /\ queue' = peer[Listener]
  /\ Leave(Listener, "accept")
  /\ UNCHANGED <<mine, reaped>>

\* The reaper closes what a late attempt returns.
Reap(d) ==
  /\ d \in reaped /\ at[d] \in {"up", "nil"}
  /\ Leave(d, "idle")
  /\ reaped' = reaped \ {d}
  /\ UNCHANGED mine

----------------------------------------------------------------------------
(* The loop.                                                               *)

Dial ==
  /\ pc = "dial" /\ pc' = "select"
  /\ \E d \in Slots : at[d] = "idle" /\ mine' = d /\ Enter(d, "dial")
  /\ UNCHANGED <<peer, heard, reaped, queue, link, platform, callbacks,
                 captureVars>>

SelectOutbound ==
  /\ pc = "select" /\ at[mine] = "up"
  /\ link' = peer[mine]
  /\ Leave(mine, "idle") /\ mine' = NoSlot
  /\ pc' = "start"
  /\ UNCHANGED <<reaped, queue, platform, callbacks, captureVars>>

\* The attempt failed: try again after two seconds.
SelectNil ==
  /\ pc = "select" /\ at[mine] = "nil"
  /\ Leave(mine, "idle") /\ mine' = NoSlot
  /\ pc' = "sleep"
  /\ UNCHANGED <<reaped, queue, link, platform, callbacks,
                 captureVars>>

SelectNoReaper ==                                              \* mutant
  /\ pc = "select" /\ queue # "none"
  /\ link' = queue /\ queue' = "none"
  /\ mine' = NoSlot
  /\ pc' = "start"
  /\ UNCHANGED <<at, peer, heard, reaped, platform, callbacks, captureVars>>

SelectAfterDial ==                                             \* mutant
  /\ pc = "select" /\ queue # "none" /\ at[mine] \in {"up", "nil"}
  /\ link' = queue /\ queue' = "none"
  /\ reaped' = reaped \cup {mine} /\ mine' = NoSlot
  /\ pc' = "start"
  /\ UNCHANGED <<at, peer, heard, platform, callbacks, captureVars>>

SelectInbound ==
  /\ pc = "select" /\ queue # "none"
  /\ link' = queue /\ queue' = "none"
  /\ reaped' = reaped \cup {mine} /\ mine' = NoSlot
  /\ pc' = "start"
  /\ UNCHANGED <<at, peer, heard, platform, callbacks, captureVars>>

Wake ==
  /\ pc = "sleep" /\ pc' = "dial"
  /\ UNCHANGED <<attemptVars, queue, link, platform, callbacks, captureVars>>

\* The clipboard manager and the capturer start.  X11 sets the handler's
\* callbacks first and may then find no devices; RunWayland sets them last.
StartKeepingCallbacks ==                                       \* mutant
  /\ pc = "start" /\ pc' = "recv"
  /\ cap' \in IF platform = "off" THEN {"none"} ELSE {"on", "failed"}
  /\ callbacks' = IF callbacks = "none" /\ cap' = "on" THEN "this" ELSE callbacks
  /\ UNCHANGED <<attemptVars, queue, link, platform, remoteOwns>>

Start ==
  /\ pc = "start" /\ pc' = "recv"
  /\ cap' \in IF platform = "off" THEN {"none"} ELSE {"on", "failed"}
  /\ callbacks' = IF cap' = "on" \/ platform = "x11" THEN "this" ELSE callbacks
  /\ UNCHANGED <<attemptVars, queue, link, platform, remoteOwns>>

\* ReceiveLoop returns, by the peer's end or by the heartbeat's; held keys
\* are released.
RecvEnds ==
  /\ pc = "recv" /\ link = "dead"
  /\ pc' = "stop"
  /\ UNCHANGED <<attemptVars, queue, link, platform, callbacks, captureVars>>

\* The capturer's Stop, the clipboard's, Close.  The handler keeps calling
\* the capturer that was stopped.
Stop ==
  /\ pc = "stop" /\ pc' = "dial" /\ cap # "hung"
  /\ cap' = "none" /\ remoteOwns' = FALSE
  /\ link' = "none"
  /\ callbacks' = IF callbacks = "this" THEN "old" ELSE callbacks
  /\ UNCHANGED <<attemptVars, queue, platform>>

----------------------------------------------------------------------------
(* The capturer and its surroundings.                                      *)

\* The pointer leaves by the shared edge, even if the link is dead.
Cross ==
  /\ cap = "on" /\ ~remoteOwns
  /\ remoteOwns' = TRUE
  /\ UNCHANGED <<pc, attemptVars, queue, link, platform, callbacks, cap>>

\* It comes home: by the user's motion, the hotkey, or a packet for which
\* the handler calls this capturer.
Home ==
  /\ remoteOwns
  /\ remoteOwns' = FALSE
  /\ UNCHANGED <<pc, attemptVars, queue, link, platform, callbacks, cap>>

\* libei disconnects: Stop will not return (see CaptureWayland).
EiLost ==
  /\ platform = "wayland" /\ cap = "on"
  /\ cap' = "hung"
  /\ UNCHANGED <<pc, attemptVars, queue, link, platform, callbacks, remoteOwns>>

\* A peer goes away, or the heartbeat finds that it has.
AttemptDies(a) ==
  /\ at[a] \in {"iv", "hs", "up"} /\ peer[a] # "dead"
  /\ peer' = [peer EXCEPT ![a] = "dead"]
  /\ UNCHANGED <<pc, mine, at, heard, reaped, queue, link, platform, callbacks,
                 captureVars>>

QueuedDies ==
  /\ queue = "live" /\ queue' = "dead"
  /\ UNCHANGED <<pc, attemptVars, link, platform, callbacks, captureVars>>

LinkDies ==
  /\ link = "live" /\ link' = "dead"
  /\ UNCHANGED <<pc, attemptVars, queue, platform, callbacks, captureVars>>

\* The process ends without Stop.
Signal ==
  /\ pc # "exit" /\ pc' = "exit"
  /\ mine' = NoSlot /\ at' = NoAttempt /\ reaped' = {}
  /\ peer' = [a \in Attempts |-> "none"] /\ heard' = [a \in Attempts |-> 0]
  /\ queue' = "none" /\ link' = "none"
  /\ cap' = "none" /\ callbacks' = "none" /\ remoteOwns' = FALSE
  /\ UNCHANGED platform

\* Started again, by hand or by systemd.
Restart ==
  /\ pc = "exit" /\ pc' = "dial"
  /\ UNCHANGED <<attemptVars, queue, link, platform, callbacks, captureVars>>

----------------------------------------------------------------------------
AttemptStep(a) ==
  /\ pc # "exit"
  /\ DialConnects(a) \/ DialFails(a) \/ ReadIv(a) \/ Acknowledged(a)
       \/ OtherPacket(a) \/ SetupFails(a) \/ Reap(a)
  /\ UNCHANGED <<pc, queue, link, platform, callbacks, captureVars>>

ListenerStep ==
  /\ pc # "exit"
  /\ \/ Accept /\ UNCHANGED queue
     \/ Enqueue
  /\ UNCHANGED <<pc, link, platform, callbacks, captureVars>>

MainStep ==
  \/ Dial \/ SelectOutbound \/ SelectNil \/ SelectInbound \/ Wake
  \/ Start \/ RecvEnds \/ Stop

Surroundings ==
  /\ pc # "exit"
  /\ Cross \/ Home \/ EiLost \/ QueuedDies \/ LinkDies
       \/ \E a \in Attempts : AttemptDies(a)

Next ==
  \/ \E a \in Attempts : AttemptStep(a)
  \/ ListenerStep \/ MainStep \/ Surroundings
  \/ Signal \/ Restart

Spec == Init /\ [][Next]_vars

(***************************************************************************)
(* Every goroutine that can run does: dialling ends within ten seconds and *)
(* so does a handshake.  select picks at random among what is ready.       *)
(* Nothing is assumed of peers, users and signals, nor that a process that *)
(* was killed comes back.                                                  *)
(***************************************************************************)
Fairness ==
  /\ WF_vars(MainStep) /\ SF_vars(SelectInbound)
  /\ \A a \in Attempts : WF_vars(AttemptStep(a))

FairSpec == Spec /\ Fairness

----------------------------------------------------------------------------
(* Properties.                                                             *)

\* While the pointer is away and packets are handled, the remote's
\* hand-backs reach the capturer that gave it away, although the handler
\* and its callbacks outlive connections (main.go:189-222).
HandBackWired == pc = "recv" /\ remoteOwns => callbacks = "this"

\* No attempt is forgotten: whatever still dials, or has connected, is the
\* one main waits for or has a reaper (main.go:148-152).
AttemptOwned ==
  pc # "exit" =>
    \A d \in Slots : at[d] # "idle" => d \in reaped \/ (d = mine /\ pc = "select")

\* The loop never waits for ever for a peer that cannot be reached
\* (main.go:126-127).  The exception is a peer that connects and stays
\* silent: its IV block is read without a deadline (client.go:86).
SelectMovesOn ==
  pc = "select" ~> pc # "select" \/ SilentSlots # {}

\* While there is no connection, one that comes in is taken, whatever the
\* outbound attempt does.
InboundTaken ==
  queue # "none" ~> queue = "none" \/ link # "none" \/ pc = "exit"
============================================================================
