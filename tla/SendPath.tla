------------------------------ MODULE SendPath ------------------------------
(***************************************************************************)
(* The outbound half of network.Conn (internal/network/client.go): every   *)
(* goroutine of the program that talks to the remote ends up here.         *)
(*                                                                         *)
(*   Senders   SendPacket: input events, heartbeats, replies               *)
(*   Batchers  SendPackets: one clipboard message, several packets         *)
(*   Closers   Close: a ByeBye through SendPacket, then the socket         *)
(*                                                                         *)
(* The packet counter nextID is atomic but its wrap-around is not: a load, *)
(* a store and an add.  SendPacket numbers the packet before it takes      *)
(* sendMu, SendPackets after.  enc.Write encrypts the packet, which        *)
(* advances the CBC chain, and writes it to the socket, which may fail     *)
(* after any number of bytes: a deadline of 500ms, a reset, a closed       *)
(* socket.                                                                 *)
(*                                                                         *)
(* One action is one access to nextID or sendMu, one encryption or one     *)
(* write.  A packet is abstracted to its sender and number, the call it    *)
(* belongs to and its place in the CBC chain.                              *)
(*                                                                         *)
(* A definition marked "mutant" is a plausible bug, used by no other       *)
(* definition: put in place of the one that follows, it must break a       *)
(* property.                                                               *)
(***************************************************************************)
EXTENDS Integers, Sequences, FiniteSets

CONSTANTS
  Senders, Batchers, Closers,  \* goroutines
  BatchLen,  \* packets of one SendPackets call
  WrapAt,    \* nextID starts over from here on (0x7FFFFF00)
  IntMax,    \* largest int32 (0x7FFFFFFF)
  MaxTurns   \* bound: calls one goroutine makes

Threads == Senders \cup Batchers \cup Closers
NoOne == "none"

\* 0x7FFFFF00 leaves room for as many goroutines as pass the test at once.
ASSUME SendAssumption ==
  /\ IsFiniteSet(Threads) /\ Threads # {} /\ NoOne \notin Threads
  /\ Senders \cap Batchers = {} /\ Closers \cap Batchers = {}
  /\ Senders \cap Closers = {}
  /\ BatchLen \in Nat \ {0}
  /\ WrapAt \in Nat \ {0} /\ IntMax \in Nat
  /\ WrapAt + Cardinality(Threads) <= IntMax + 1
  /\ MaxTurns \in Nat

VARIABLES
  nextID,   \* Conn.nextID
  sendMu,   \* holder of Conn.sendMu, or NoOne
  chain,    \* packets encrypted so far: the state of the CBC encrypter
  closed,   \* the socket is closed
  pc,       \* control point of each goroutine
  id,       \* number of the packet a goroutine is sending
  seq,      \* place in the chain of the packet a goroutine has encrypted
  left,     \* packets left in the call
  turn,     \* history: calls a goroutine has begun
  wire,     \* history: packets written in full
  broken    \* history: a write failed

vars == <<nextID, sendMu, chain, closed, pc, id, seq, left, turn, wire, broken>>

Goto(t, label) == pc' = [pc EXCEPT ![t] = label]

----------------------------------------------------------------------------
Init ==
  /\ nextID = 0 /\ sendMu = NoOne /\ chain = 0 /\ closed = FALSE
  /\ pc = [t \in Threads |-> "idle"]
  /\ id = [t \in Threads |-> 0] /\ seq = [t \in Threads |-> 0]
  /\ left = [t \in Threads |-> 0] /\ turn = [t \in Threads |-> 0]
  /\ wire = <<>> /\ broken = FALSE

\* A call begins: SendPacket numbers its packet first, SendPackets locks.
Call(t) ==
  /\ pc[t] = "idle" /\ turn[t] < MaxTurns
  /\ turn' = [turn EXCEPT ![t] = @ + 1]
  /\ left' = [left EXCEPT ![t] = IF t \in Batchers THEN BatchLen ELSE 1]
  /\ Goto(t, IF t \in Batchers THEN "lock" ELSE "load")
  /\ UNCHANGED <<nextID, sendMu, chain, closed, id, seq, wire, broken>>

\* nextID.Load and the test for the wrap-around.
LoadNeverWraps(t) ==                                           \* mutant
  /\ pc[t] = "load"
  /\ Goto(t, "add")
  /\ UNCHANGED <<nextID, sendMu, chain, closed, id, seq, left, turn, wire, broken>>

LoadID(t) ==
  /\ pc[t] = "load"
  /\ Goto(t, IF nextID >= WrapAt THEN "store" ELSE "add")
  /\ UNCHANGED <<nextID, sendMu, chain, closed, id, seq, left, turn, wire, broken>>

\* nextID.Store(0).
StoreID(t) ==
  /\ pc[t] = "store"
  /\ nextID' = 0
  /\ Goto(t, "add")
  /\ UNCHANGED <<sendMu, chain, closed, id, seq, left, turn, wire, broken>>

\* nextID.Add(1), on an int32.
AddID(t) ==
  /\ pc[t] = "add"
  /\ nextID' = IF nextID = IntMax THEN -IntMax - 1 ELSE nextID + 1
  /\ id' = [id EXCEPT ![t] = nextID']
  /\ Goto(t, IF t \in Batchers THEN "encrypt" ELSE "lock")
  /\ UNCHANGED <<sendMu, chain, closed, seq, left, turn, wire, broken>>

\* sendMu.Lock.
LockNothing(t) ==                                              \* mutant
  /\ pc[t] = "lock"
  /\ Goto(t, IF t \in Batchers THEN "load" ELSE "encrypt")
  /\ UNCHANGED <<nextID, sendMu, chain, closed, id, seq, left, turn, wire, broken>>

Lock(t) ==
  /\ pc[t] = "lock" /\ sendMu = NoOne
  /\ sendMu' = t
  /\ Goto(t, IF t \in Batchers THEN "load" ELSE "encrypt")
  /\ UNCHANGED <<nextID, chain, closed, id, seq, left, turn, wire, broken>>

\* enc.Write: CryptBlocks.
Encrypt(t) ==
  /\ pc[t] = "encrypt"
  /\ chain' = chain + 1
  /\ seq' = [seq EXCEPT ![t] = chain']
  /\ Goto(t, "write")
  /\ UNCHANGED <<nextID, sendMu, closed, id, left, turn, wire, broken>>

\* Where the call goes when it is over.
Return(t) == IF t \in Closers THEN "rawClose" ELSE "idle"

Sent(t) == [by |-> t, turn |-> turn[t], id |-> id[t], seq |-> seq[t]]

\* enc.Write: the socket takes the packet.  sendMu is released after the
\* last packet of the call.
WriteUnlocking(t) ==                                           \* mutant
  /\ pc[t] = "write" /\ ~closed
  /\ wire' = Append(wire, Sent(t))
  /\ left' = [left EXCEPT ![t] = @ - 1]
  /\ sendMu' = NoOne
  /\ Goto(t, IF left'[t] = 0 THEN Return(t) ELSE "lock")
  /\ UNCHANGED <<nextID, chain, closed, id, seq, turn, broken>>

Write(t) ==
  /\ pc[t] = "write" /\ ~closed
  /\ wire' = Append(wire, Sent(t))
  /\ left' = [left EXCEPT ![t] = @ - 1]
  /\ IF left'[t] = 0 THEN sendMu' = NoOne /\ Goto(t, Return(t))
                     ELSE UNCHANGED sendMu /\ Goto(t, "load")
  /\ UNCHANGED <<nextID, chain, closed, id, seq, turn, broken>>

\* ... or does not: the call ends, a batch too, and sendMu is released.
FailHoldingMu(t) ==                                            \* mutant
  /\ pc[t] = "write"
  /\ broken' = TRUE
  /\ Goto(t, Return(t))
  /\ UNCHANGED <<nextID, sendMu, chain, closed, id, seq, left, turn, wire>>

WriteFails(t) ==
  /\ pc[t] = "write"
  /\ broken' = TRUE
  /\ sendMu' = NoOne
  /\ Goto(t, Return(t))
  /\ UNCHANGED <<nextID, chain, closed, id, seq, left, turn, wire>>

\* raw.Close, once the ByeBye was sent or failed.
RawClose(t) ==
  /\ pc[t] = "rawClose"
  /\ closed' = TRUE
  /\ Goto(t, "idle")
  /\ UNCHANGED <<nextID, sendMu, chain, id, seq, left, turn, wire, broken>>

Step(t) ==
  \/ LoadID(t) \/ StoreID(t) \/ AddID(t) \/ Lock(t) \/ Encrypt(t)
  \/ Write(t) \/ WriteFails(t) \/ RawClose(t)

\* Nobody sends any more.
Idle == (\A t \in Threads : pc[t] = "idle" /\ turn[t] = MaxTurns) /\ UNCHANGED vars

Next == (\E t \in Threads : Call(t) \/ Step(t)) \/ Idle

Spec == Init /\ [][Next]_vars

(***************************************************************************)
(* A goroutine inside a call goes on, and a write ends within its 500ms    *)
(* deadline.  sync.Mutex hands over to a waiter that starves: strong       *)
(* fairness, for Lock is disabled while others hold sendMu.                *)
(***************************************************************************)
FairSpec == Spec /\ \A t \in Threads : SF_vars(Step(t))

----------------------------------------------------------------------------
(* Properties.                                                             *)

\* "protocol requires non-zero, non-negative IDs": the wrap-around keeps
\* every number positive although load, store and add race
\* (client.go:280-283).
IdsPositive == \A i \in DOMAIN wire : wire[i].id \in 1 .. IntMax

\* The remote can decrypt what it reads: as long as no write failed, packets
\* are on the wire in the order in which they went through the CBC chain
\* (client.go:274-275).
ChainIntact == ~broken => \A i \in DOMAIN wire : wire[i].seq = i

\* No other goroutine's packet comes between the packets of one call, even
\* when a write fails (client.go:292-297).
SameCall(i, j) == wire[i].by = wire[j].by /\ wire[i].turn = wire[j].turn
BatchContiguous ==
  \A i, k \in DOMAIN wire :
    i < k /\ SameCall(i, k) => \A j \in i .. k : SameCall(i, j)

\* Every call returns: sendMu is never left locked, and a Close closes.
CallsReturn == \A t \in Threads : pc[t] # "idle" ~> pc[t] = "idle"

============================================================================
