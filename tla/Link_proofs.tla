----------------------------- MODULE Link_proofs -----------------------------
(***************************************************************************)
(* Proofs about Link, for any number of outbound attempts, any handshake   *)
(* limit and each way of capturing.                                        *)
(*                                                                         *)
(* The argument: an attempt leaves "idle" only in Dial, which makes it     *)
(* mine, and main gives mine up only when it makes the attempt idle or     *)
(* gives it a reaper (Owned).  The pointer is away only under a capturer   *)
(* that runs, a capturer runs only between Start and Stop, and Start sets  *)
(* the callbacks of every capturer that runs (Wired).                      *)
(***************************************************************************)
EXTENDS Link, TLAPS

(***************************************************************************)
(* Attempts.                                                               *)
(***************************************************************************)
Owned ==
  /\ mine \in Slots \cup {NoSlot}
  /\ pc = "select" <=> mine # NoSlot
  /\ DOMAIN at = Attempts
  /\ \A d \in Slots : at[d] # "idle" => d \in reaped \cup {mine}

\* An attempt that is under way and stays so changes no ownership.
LEMMA GoesOn ==
  ASSUME Owned, NEW a \in Attempts, at[a] # "idle", NEW stage, Enter(a, stage),
         UNCHANGED <<pc, mine, reaped>>
  PROVE  Owned'
BY DEF Owned, Enter

LEMMA OwnedStep == Owned /\ [Next]_vars => Owned'
<1> SUFFICES ASSUME Owned, [Next]_vars PROVE Owned'
  OBVIOUS
<1> USE LinkAssumption DEF Attempts, Listener, NoSlot
<1>1. ASSUME NEW a \in Attempts, AttemptStep(a) PROVE Owned'
  <2> UNCHANGED pc
    BY <1>1 DEF AttemptStep
  <2>1. CASE DialConnects(a) \/ DialFails(a)
    <3>1. at[a] # "idle" /\ UNCHANGED <<mine, reaped>> /\ \E s : Enter(a, s)
      BY <2>1 DEF DialConnects, DialFails, Connected, GiveUp, Leave
    <3> QED BY <3>1, GoesOn
  <2>2. CASE ReadIv(a) \/ Acknowledged(a) \/ SetupFails(a)
    <3>1. at[a] # "idle" /\ UNCHANGED <<mine, reaped>> /\ \E s : Enter(a, s)
      BY <2>2 DEF ReadIv, Acknowledged, SetupFails, GiveUp, Leave
    <3> QED BY <3>1, GoesOn
  <2>3. CASE OtherPacket(a)
    <3>1. at[a] # "idle" /\ UNCHANGED <<mine, reaped>>
      BY <2>3 DEF OtherPacket
    <3>2. UNCHANGED at \/ \E s : Enter(a, s)
      BY <2>3 DEF OtherPacket, GiveUp, Leave
    <3> QED BY <3>1, <3>2, GoesOn DEF Owned
  <2>4. CASE Reap(a)
    BY <2>4 DEF Reap, Leave, Enter, Owned
  <2> QED BY <1>1, <2>1, <2>2, <2>3, <2>4 DEF AttemptStep
<1>2. CASE ListenerStep
  <2>1. at[Listener] # "idle" /\ UNCHANGED <<pc, mine, reaped>>
        /\ \E s : Enter(Listener, s)
    BY <1>2 DEF ListenerStep, Accept, Connected, Enqueue, Leave
  <2> QED BY <2>1, GoesOn
<1>3. CASE Dial
  BY <1>3 DEF Dial, Enter, Owned
<1>4. CASE SelectOutbound \/ SelectNil
  BY <1>4 DEF SelectOutbound, SelectNil, Leave, Enter, Owned
<1>5. CASE SelectInbound
  BY <1>5 DEF SelectInbound, Owned
<1>6. CASE Wake \/ Start \/ RecvEnds \/ Stop
  <2>1. UNCHANGED <<mine, at, reaped>> /\ pc # "select" /\ pc' # "select"
    BY <1>6 DEF Wake, Start, RecvEnds, Stop, attemptVars
  <2> QED BY <2>1 DEF Owned
<1>7. CASE Surroundings
  <2>1. UNCHANGED <<pc, mine, at, reaped>>
    BY <1>7 DEF Surroundings, Cross, Home, EiLost, QueuedDies, LinkDies,
      AttemptDies, attemptVars
  <2> QED BY <2>1 DEF Owned
<1>8. CASE Signal
  BY <1>8 DEF Signal, NoAttempt, Owned
<1>9. CASE Restart \/ UNCHANGED vars
  <2>1. UNCHANGED <<mine, at, reaped>> /\ (pc = "select" <=> pc' = "select")
    BY <1>9 DEF Restart, vars, attemptVars
  <2> QED BY <2>1 DEF Owned
<1> QED BY <1>1, <1>2, <1>3, <1>4, <1>5, <1>6, <1>7, <1>8, <1>9
        DEF Next, MainStep

(* No attempt is forgotten.                                                *)
THEOREM NoneForgotten == Spec => []AttemptOwned
<1>1. Init => Owned
  BY LinkAssumption DEF Init, NoAttempt, Owned, Attempts, Listener, NoSlot
<1>2. Owned => AttemptOwned
  BY LinkAssumption DEF Owned, AttemptOwned
<1> QED BY <1>1, <1>2, OwnedStep, PTL DEF Spec

(***************************************************************************)
(* The pointer and the callbacks.                                          *)
(***************************************************************************)
Running == cap = "on" \/ cap = "hung"

Wired ==
  /\ remoteOwns = TRUE => Running
  /\ Running => pc \in {"recv", "stop"} /\ callbacks = "this"

\* The loop between two connections, and the attempts, leave the capturer
\* alone.
LEMMA Elsewhere ==
  ASSUME Wired, UNCHANGED <<callbacks, captureVars>>,
         pc \in {"recv", "stop"} => pc' \in {"recv", "stop"}
  PROVE  Wired'
BY DEF Wired, Running, captureVars

LEMMA WiredStep == Wired /\ [Next]_vars => Wired'
<1> SUFFICES ASSUME Wired, [Next]_vars PROVE Wired'
  OBVIOUS
<1>1. CASE (\E a \in Attempts : AttemptStep(a)) \/ ListenerStep
  <2>1. UNCHANGED <<pc, callbacks, captureVars>>
    BY <1>1 DEF AttemptStep, ListenerStep
  <2> QED BY <2>1, Elsewhere
<1>2. CASE Dial \/ SelectOutbound \/ SelectNil \/ SelectInbound \/ Wake
           \/ RecvEnds \/ Restart
  <2>1. /\ UNCHANGED <<callbacks, captureVars>>
        /\ pc \in {"recv", "stop"} => pc' \in {"recv", "stop"}
    BY <1>2 DEF Dial, SelectOutbound, SelectNil, SelectInbound, Wake, RecvEnds,
      Restart
  <2> QED BY <2>1, Elsewhere
<1>3. CASE Start
  BY <1>3 DEF Start, Wired, Running
<1>4. CASE Stop
  <2>1. cap' = "none" /\ remoteOwns' = FALSE
    BY <1>4 DEF Stop
  <2> QED BY <2>1 DEF Wired, Running
<1>5. CASE Surroundings
  <2>1. CASE Cross
    <3>1. remoteOwns' = TRUE /\ cap = "on" /\ UNCHANGED <<pc, callbacks, cap>>
      BY <2>1 DEF Cross
    <3> QED BY <3>1 DEF Wired, Running
  <2>2. CASE Home
    BY <2>2 DEF Home, Wired, Running
  <2>3. CASE EiLost
    BY <2>3 DEF EiLost, Wired, Running
  <2>4. CASE QueuedDies \/ LinkDies \/ \E a \in Attempts : AttemptDies(a)
    <3>1. UNCHANGED <<pc, callbacks, captureVars>>
      BY <2>4 DEF QueuedDies, LinkDies, AttemptDies
    <3> QED BY <3>1, Elsewhere
  <2> QED BY <1>5, <2>1, <2>2, <2>3, <2>4 DEF Surroundings
<1>6. CASE Signal
  <2>1. cap' = "none" /\ remoteOwns' = FALSE
    BY <1>6 DEF Signal
  <2> QED BY <2>1 DEF Wired, Running
<1>7. CASE UNCHANGED vars
  BY <1>7, Elsewhere DEF vars
<1> QED BY <1>1, <1>2, <1>3, <1>4, <1>5, <1>6, <1>7 DEF Next, MainStep

LEMMA WiredAlways == Spec => []Wired
<1>1. Init => Wired
  BY DEF Init, Wired, Running
<1> QED BY <1>1, WiredStep, PTL DEF Spec

(* The remote's hand-backs reach the capturer that gave the pointer away.  *)
THEOREM HandBacksReach == Spec => []HandBackWired
<1>1. Wired => HandBackWired
  BY DEF Wired, Running, HandBackWired
<1> QED BY <1>1, WiredAlways, PTL

(***************************************************************************)
(* Waiting in select.                                                      *)
(***************************************************************************)
Stages == {"idle", "accept", "dial", "iv", "hs", "up", "nil"}
Peers  == {"none", "live", "silent", "dead"}
Heard  == 0 .. HandshakeLimit - 1

\* What is known of an attempt in each stage; a reaper has something to reap.
Staged ==
  /\ at \in [Attempts -> Stages]
  /\ peer \in [Attempts -> Peers]
  /\ heard \in [Attempts -> Heard]
  /\ \A a \in Attempts : at[a] = "iv" => peer[a] # "none"
  /\ \A d \in Slots : at[d] # "accept"
  /\ \A d \in reaped : at[d] # "idle"
  /\ pc = "select" => at[mine] # "idle" /\ mine \notin reaped

\* The attempt main waits for has a step to take: to connect or to fail, to
\* read the peer's IV block or that it is gone, to end its handshake, to
\* report; the exception is a peer that connected and stays silent.
SelectGoesOn ==
  pc = "select" =>
    \/ at[mine] \in {"dial", "hs", "up", "nil"}
    \/ at[mine] = "iv" /\ peer[mine] \in {"live", "dead"}
    \/ SilentSlots # {}

\* It stays the same, goes from stage to stage, never back, and reads fewer packets than
\* HandshakeLimit on its way.
SelectAdvances ==
  pc = "select" /\ pc' = "select" =>
    /\ mine' = mine
    /\ \/ UNCHANGED <<at[mine], heard[mine]>>
       \/ at[mine] = "dial" /\ at'[mine] \in {"iv", "nil"}
       \/ at[mine] = "iv" /\ at'[mine] \in {"hs", "nil"}
       \/ at[mine] = "hs" /\ at'[mine] \in {"up", "nil"}
       \/ /\ at[mine] = "hs" /\ at'[mine] = "hs"
          /\ heard'[mine] = heard[mine] + 1 /\ heard'[mine] < HandshakeLimit

\* Attempt a comes to stage s with peer p, having read n packets.
Comes(a, s, p, n) ==
  /\ at' = [at EXCEPT ![a] = s]
  /\ peer' = [peer EXCEPT ![a] = p]
  /\ heard' = [heard EXCEPT ![a] = n]

LEMMA StagedMove ==
  ASSUME Staged, NEW a \in Attempts, NEW s \in Stages, NEW p \in Peers,
         NEW n \in Heard, Comes(a, s, p, n),
         s = "iv" => p # "none", s = "accept" => a = Listener,
         s = "idle" => a \notin reaped' /\ ~(pc' = "select" /\ mine' = a),
         reaped' \subseteq reaped, pc' = "select" => pc = "select" /\ mine' = mine
  PROVE  Staged'
<1>1. at' \in [Attempts -> Stages] /\ peer' \in [Attempts -> Peers]
  BY DEF Staged, Comes
<1>2. heard' \in [Attempts -> Heard]
  BY DEF Staged, Comes
<1>3. \A b \in Attempts : at'[b] = "iv" => peer'[b] # "none"
  BY DEF Staged, Comes
<1>4. \A d \in Slots : at'[d] # "accept"
  BY LinkAssumption DEF Staged, Comes, Attempts
<1>5. \A d \in reaped' : at'[d] # "idle"
  BY DEF Staged, Comes
<1>6. pc' = "select" => at'[mine'] # "idle" /\ mine' \notin reaped'
  BY DEF Staged, Comes
<1> QED BY <1>1, <1>2, <1>3, <1>4, <1>5, <1>6 DEF Staged

\* Where a step of an attempt leads.
Onward(a, s, p, n) ==
  \/ at[a] = "dial" /\ s = "iv" /\ p # "none" /\ n = heard[a]
  \/ at[a] = "iv" /\ s = "hs" /\ n = heard[a]
  \/ at[a] = "hs" /\ s = "up" /\ n = 0
  \/ at[a] = "hs" /\ s = "hs" /\ n = heard[a] + 1 /\ n # HandshakeLimit
  \/ at[a] \in {"dial", "iv", "hs"} /\ n = 0
       /\ s = IF a = Listener THEN "accept" ELSE "nil"

LEMMA AttemptMoves ==
  ASSUME Staged, NEW a \in Attempts, AttemptStep(a)
  PROVE  /\ UNCHANGED <<pc, mine>>
         /\ \/ UNCHANGED reaped /\ \E s \in Stages, p \in Peers, n \in Heard :
                                     Comes(a, s, p, n) /\ Onward(a, s, p, n)
            \/ /\ a \in reaped /\ reaped' = reaped \ {a}
               /\ Comes(a, "idle", "none", 0)
<1> USE LinkAssumption
<1> DEFINE Goal == \E s \in Stages, p \in Peers, n \in Heard :
                     Comes(a, s, p, n) /\ Onward(a, s, p, n)
<1>0. at[a] \in Stages /\ peer[a] \in Peers /\ heard[a] \in Heard /\ 0 \in Heard
  BY DEF Staged, Heard
<1>1. /\ at = [at EXCEPT ![a] = at[a]] /\ peer = [peer EXCEPT ![a] = peer[a]]
      /\ heard = [heard EXCEPT ![a] = heard[a]]
  BY DEF Staged
<1>2. UNCHANGED <<pc, mine>>
  BY DEF AttemptStep, DialConnects, Connected, DialFails, ReadIv, Acknowledged,
    OtherPacket, SetupFails, Reap
<1>3. ASSUME DialConnects(a) PROVE Goal /\ UNCHANGED reaped
  <2>1. PICK p \in {"live", "silent"} : peer' = [peer EXCEPT ![a] = p]
    BY <1>3 DEF DialConnects, Connected
  <2>2. Comes(a, "iv", p, heard[a]) /\ Onward(a, "iv", p, heard[a])
    BY <1>1, <1>3, <2>1 DEF DialConnects, Connected, Enter, Comes, Onward
  <2>3. "iv" \in Stages /\ p \in Peers /\ UNCHANGED reaped
    BY <1>3 DEF DialConnects, Connected, Stages, Peers
  <2> QED BY <1>0, <2>2, <2>3
<1>4. ASSUME ReadIv(a) PROVE Goal /\ UNCHANGED reaped
  <2>1. Comes(a, "hs", peer[a], heard[a]) /\ Onward(a, "hs", peer[a], heard[a])
    BY <1>1, <1>4 DEF ReadIv, Enter, Comes, Onward
  <2>2. "hs" \in Stages /\ UNCHANGED reaped
    BY <1>4 DEF ReadIv, Stages
  <2> QED BY <1>0, <2>1, <2>2
<1>5. ASSUME Acknowledged(a) PROVE Goal /\ UNCHANGED reaped
  <2>1. Comes(a, "up", peer[a], 0) /\ Onward(a, "up", peer[a], 0)
    BY <1>1, <1>5 DEF Acknowledged, Enter, Comes, Onward
  <2>2. "up" \in Stages /\ UNCHANGED reaped
    BY <1>5 DEF Acknowledged, Stages
  <2> QED BY <1>0, <2>1, <2>2
<1>6. ASSUME GiveUp(a), at[a] \in {"dial", "iv", "hs"} PROVE Goal
  <2> DEFINE s == IF a = Listener THEN "accept" ELSE "nil"
  <2>1. Comes(a, s, "none", 0) /\ Onward(a, s, "none", 0)
    BY <1>6 DEF GiveUp, Leave, Enter, Comes, Onward
  <2>2. s \in Stages /\ "none" \in Peers
    BY DEF Stages, Peers
  <2> QED BY <1>0, <2>1, <2>2
<1>7. ASSUME OtherPacket(a), heard[a] + 1 # HandshakeLimit PROVE Goal /\ UNCHANGED reaped
  <2>1. Comes(a, "hs", peer[a], heard[a] + 1) /\ Onward(a, "hs", peer[a], heard[a] + 1)
    <3>1. UNCHANGED <<at, peer>> /\ heard' = [heard EXCEPT ![a] = heard[a] + 1]
      BY <1>7 DEF OtherPacket
    <3>2. at[a] = "hs"
      BY <1>7 DEF OtherPacket
    <3> QED BY <1>1, <1>7, <3>1, <3>2 DEF Comes, Onward
  <2>2. "hs" \in Stages /\ heard[a] + 1 \in Heard /\ UNCHANGED reaped
    BY <1>0, <1>7 DEF OtherPacket, Stages, Heard
  <2> QED BY <1>0, <2>1, <2>2
<1>8. ASSUME DialFails(a) \/ SetupFails(a) \/ OtherPacket(a),
             ~(OtherPacket(a) /\ heard[a] + 1 # HandshakeLimit)
      PROVE  GiveUp(a) /\ at[a] \in {"dial", "iv", "hs"} /\ UNCHANGED reaped
  BY <1>8 DEF DialFails, SetupFails, OtherPacket
<1>9. ASSUME Reap(a)
      PROVE  a \in reaped /\ reaped' = reaped \ {a} /\ Comes(a, "idle", "none", 0)
  BY <1>9 DEF Reap, Leave, Enter, Comes
<1> QED BY <1>2, <1>3, <1>4, <1>5, <1>6, <1>7, <1>8, <1>9 DEF AttemptStep

LEMMA StagedStep ==
  ASSUME Owned, Staged, [Next]_vars PROVE Staged'
<1> USE LinkAssumption
<1>0. "none" \in Peers /\ "dead" \in Peers /\ 0 \in Heard
      /\ {"idle", "accept", "dial", "iv"} \subseteq Stages
  BY DEF Peers, Heard, Stages
<1>1. ASSUME NEW a \in Attempts, AttemptStep(a) PROVE Staged'
  <2>1. ASSUME NEW s \in Stages, NEW p \in Peers, NEW n \in Heard, Comes(a, s, p, n),
               Onward(a, s, p, n), UNCHANGED <<pc, mine, reaped>>
        PROVE  Staged'
    <3>1. s = "iv" => p # "none"
      BY <2>1 DEF Onward
    <3>2. (s = "accept" => a = Listener) /\ s # "idle"
      BY <2>1 DEF Onward
    <3> QED BY <2>1, <3>1, <3>2, StagedMove
  <2>2. ASSUME a \in reaped, reaped' = reaped \ {a}, Comes(a, "idle", "none", 0),
               UNCHANGED <<pc, mine>>
        PROVE  Staged'
    <3>1. ~(pc' = "select" /\ mine' = a)
      BY <2>2 DEF Staged
    <3> QED BY <1>0, <2>2, <3>1, StagedMove
  <2> QED BY <1>1, <2>1, <2>2, AttemptMoves
<1>2. CASE ListenerStep
  <2>1. CASE Enqueue
    <3>1. Comes(Listener, "accept", "none", 0) /\ UNCHANGED <<pc, mine, reaped>>
      BY <1>2, <2>1 DEF ListenerStep, Enqueue, Leave, Enter, Comes
    <3> QED BY <1>0, <3>1, StagedMove DEF Attempts
  <2>2. CASE Accept
    <3>1. PICK p \in {"live", "silent"} : peer' = [peer EXCEPT ![Listener] = p]
      BY <2>2 DEF Accept, Connected
    <3>2. Comes(Listener, "iv", p, heard[Listener]) /\ UNCHANGED <<pc, mine, reaped>>
      BY <1>2, <2>2, <3>1 DEF ListenerStep, Accept, Connected, Enter, Comes, Staged, Attempts
    <3>3. p \in Peers /\ p # "none" /\ heard[Listener] \in Heard
      BY DEF Peers, Staged, Attempts
    <3> QED BY <1>0, <3>2, <3>3, StagedMove DEF Attempts
  <2> QED BY <1>2, <2>1, <2>2 DEF ListenerStep
<1>3. CASE Dial
  <2>1. PICK d \in Slots : at[d] = "idle" /\ mine' = d /\ at' = [at EXCEPT ![d] = "dial"]
    BY <1>3 DEF Dial, Enter
  <2>2. UNCHANGED <<peer, heard, reaped>>
    BY <1>3 DEF Dial
  <2>3. at' \in [Attempts -> Stages] /\ at'[d] = "dial"
        /\ \A b \in Attempts \ {d} : at'[b] = at[b]
    BY <1>0, <2>1 DEF Staged, Attempts
  <2>4. d \notin reaped
    BY <2>1 DEF Staged
  <2>5. \A b \in Attempts : at'[b] = "iv" => peer[b] # "none"
    BY <2>3 DEF Staged
  <2>6. \A b \in Slots : at'[b] # "accept"
    BY <2>3 DEF Staged, Attempts
  <2>7. \A b \in reaped : at'[b] # "idle"
    BY <2>1, <2>4 DEF Staged
  <2> QED BY <2>1, <2>2, <2>3, <2>4, <2>5, <2>6, <2>7 DEF Staged
<1>4. CASE SelectOutbound \/ SelectNil
  <2>1. mine \in Attempts /\ mine \notin reaped
    BY <1>4 DEF SelectOutbound, SelectNil, Owned, Staged, Attempts
  <2>2. Comes(mine, "idle", "none", 0) /\ UNCHANGED reaped /\ pc' # "select"
    BY <1>4 DEF SelectOutbound, SelectNil, Leave, Enter, Comes
  <2> QED BY <1>0, <2>1, <2>2, StagedMove
<1>5. CASE SelectInbound
  <2>1. pc' # "select" /\ reaped' = reaped \cup {mine} /\ at[mine] # "idle"
        /\ UNCHANGED <<at, peer, heard>>
    BY <1>5 DEF SelectInbound, Staged
  <2> QED BY <2>1 DEF Staged
<1>6. CASE Wake \/ Start \/ RecvEnds \/ Stop \/ Restart \/ UNCHANGED vars
  <2>1. UNCHANGED <<mine, at, peer, heard, reaped>> /\ (pc' = "select" => pc = "select")
    BY <1>6 DEF Wake, Start, RecvEnds, Stop, Restart, vars, attemptVars
  <2> QED BY <2>1 DEF Staged
<1>7. CASE Surroundings
  <2>1. ASSUME NEW a \in Attempts, AttemptDies(a) PROVE Staged'
    <3>1. Comes(a, at[a], "dead", heard[a]) /\ UNCHANGED <<pc, mine, reaped>>
      BY <2>1 DEF AttemptDies, Comes, Staged
    <3>2. at[a] \in {"iv", "hs", "up"} /\ at[a] \in Stages /\ heard[a] \in Heard
      BY <2>1 DEF AttemptDies, Staged
    <3> QED BY <1>0, <3>1, <3>2, StagedMove
  <2>2. CASE Cross \/ Home \/ EiLost \/ QueuedDies \/ LinkDies
    <3>1. UNCHANGED <<pc, mine, at, peer, heard, reaped>>
      BY <2>2 DEF Cross, Home, EiLost, QueuedDies, LinkDies, attemptVars
    <3> QED BY <3>1 DEF Staged
  <2> QED BY <1>7, <2>1, <2>2 DEF Surroundings
<1>8. CASE Signal
  <2>1. pc' # "select" /\ at' = NoAttempt /\ reaped' = {}
        /\ peer' = [a \in Attempts |-> "none"] /\ heard' = [a \in Attempts |-> 0]
    BY <1>8 DEF Signal
  <2> QED BY <1>0, <2>1 DEF Staged, NoAttempt, Attempts
<1> QED BY <1>1, <1>2, <1>3, <1>4, <1>5, <1>6, <1>7, <1>8 DEF Next, MainStep

LEMMA StagedAlways == Spec => [](Owned /\ Staged)
<1>1. Init => Owned
  BY LinkAssumption DEF Init, NoAttempt, Owned, Attempts, Listener, NoSlot
<1>2. Init => Staged
  <2>1. 0 \in Heard /\ "none" \in Peers /\ {"idle", "accept"} \subseteq Stages
    BY LinkAssumption DEF Heard, Peers, Stages
  <2> QED BY <2>1, LinkAssumption DEF Init, NoAttempt, Staged, Attempts
<1> QED BY <1>1, <1>2, OwnedStep, StagedStep, PTL DEF Spec

(* While main waits, the attempt it waits for has a step to take, unless   *)
(* its peer is silent: with SelectMoves the safety half of SelectMovesOn.  *)
THEOREM SelectNeverHangs == Spec => []SelectGoesOn
<1>1. ASSUME Owned, Staged PROVE SelectGoesOn
  <2> SUFFICES ASSUME pc = "select",
                      at[mine] \notin {"dial", "hs", "up", "nil"},
                      ~(at[mine] = "iv" /\ peer[mine] \in {"live", "dead"})
               PROVE  SilentSlots # {}
    BY DEF SelectGoesOn
  <2>1. mine \in Slots /\ at[mine] \in Stages /\ at[mine] \notin {"idle", "accept"}
    BY <1>1 DEF Owned, Staged, Attempts
  <2>2. at[mine] = "iv" /\ peer[mine] = "silent"
    BY <1>1, <2>1 DEF Staged, Stages, Peers, Attempts
  <2> QED BY <2>1, <2>2 DEF SilentSlots
<1> QED BY <1>1, StagedAlways, PTL

(* Each step of that attempt brings it nearer to its report.               *)
THEOREM SelectMoves == Spec => [][SelectAdvances]_vars
<1>1. ASSUME Owned, Staged, [Next]_vars PROVE SelectAdvances
  <2> SUFFICES ASSUME pc = "select", pc' = "select" PROVE SelectAdvances
    BY DEF SelectAdvances
  <2>0. mine \in Slots /\ mine \in Attempts /\ mine # Listener
    BY <1>1, LinkAssumption DEF Owned, Attempts
  <2>1. ASSUME NEW a \in Attempts, AttemptStep(a) PROVE SelectAdvances
    <3>0. mine' = mine
      BY <1>1, <2>1, AttemptMoves
    <3>1. a # mine => UNCHANGED <<at[mine], heard[mine]>>
      BY <1>1, <2>0, <2>1, AttemptMoves DEF Comes, Staged
    <3>2. a = mine => \E s \in Stages, p \in Peers, n \in Heard :
                        Comes(mine, s, p, n) /\ Onward(mine, s, p, n)
      BY <1>1, <2>1, AttemptMoves DEF Staged
    <3>3. ASSUME NEW s \in Stages, NEW p \in Peers, NEW n \in Heard,
                 Comes(mine, s, p, n), Onward(mine, s, p, n)
          PROVE  SelectAdvances
      <4>1. at'[mine] = s /\ heard'[mine] = n
        BY <1>1, <2>0, <3>3 DEF Comes, Staged
      <4>2. n < HandshakeLimit
        BY LinkAssumption DEF Heard
      <4> QED BY <2>0, <3>0, <3>3, <4>1, <4>2 DEF Onward, SelectAdvances
    <3> QED BY <3>0, <3>1, <3>2, <3>3 DEF SelectAdvances
  <2>2. CASE ListenerStep
    <3>1. mine' = mine /\ at'[mine] = at[mine] /\ heard'[mine] = heard[mine]
      BY <1>1, <2>0, <2>2 DEF ListenerStep, Accept, Connected, Enqueue, Leave, Enter, Staged
    <3> QED BY <3>1 DEF SelectAdvances
  <2>3. CASE MainStep \/ Signal \/ Restart
    BY <2>3 DEF MainStep, Dial, SelectOutbound, SelectNil, SelectInbound, Wake, Start,
      RecvEnds, Stop, Signal, Restart
  <2>4. CASE Surroundings \/ UNCHANGED vars
    <3>1. UNCHANGED <<at, mine, heard>>
      BY <2>4 DEF Surroundings, Cross, Home, EiLost, QueuedDies, LinkDies, AttemptDies,
        vars, attemptVars
    <3> QED BY <3>1 DEF SelectAdvances
  <2> QED BY <1>1, <2>1, <2>2, <2>3, <2>4 DEF Next
<1> QED BY <1>1, StagedAlways, PTL DEF Spec
==============================================================================
