-------------------------- MODULE SendPath_proofs --------------------------
(* Theorems about SendPath, for any number of goroutines and calls, any    *)
(* batch length and any place of the wrap-around that leaves it room.      *)
EXTENDS SendPath, FiniteSetTheorems, TLAPS

USE SendAssumption DEF Goto, vars

----------------------------------------------------------------------------
(***************************************************************************)
(* Control: who holds sendMu.                                              *)
(***************************************************************************)
Labels == {"idle", "load", "store", "add", "lock", "encrypt", "write", "rawClose"}
Entry  == [by : Threads, turn : Nat, id : Int, seq : Nat]

InCall(t) == pc[t] \notin {"idle", "rawClose"}
Inside(t) == \/ pc[t] \in {"encrypt", "write"}
             \/ t \in Batchers /\ pc[t] \in {"load", "store", "add"}

Shape ==
  /\ nextID \in Int /\ chain \in Nat /\ broken \in BOOLEAN
  /\ pc \in [Threads -> Labels]
  /\ id \in [Threads -> Int] /\ seq \in [Threads -> Nat]
  /\ left \in [Threads -> Int] /\ turn \in [Threads -> Nat]
  /\ wire \in Seq(Entry)

MutexInv ==
  /\ Shape
  /\ \A t \in Threads : Inside(t) => sendMu = t
  /\ \A t \in Threads : InCall(t) => left[t] >= 1 /\ (t \notin Batchers => left[t] = 1)

LEMMA MutexInit == ASSUME Init PROVE MutexInv
<1>1. wire \in Seq(Entry)
  BY DEF Init
<1>2. /\ pc \in [Threads -> Labels] /\ id \in [Threads -> Int]
      /\ seq \in [Threads -> Nat] /\ left \in [Threads -> Int]
      /\ turn \in [Threads -> Nat]
  BY DEF Init, Labels
<1>3. Shape
  BY <1>1, <1>2 DEF Init, Shape
<1> QED BY <1>3 DEF Init, MutexInv, Inside, InCall

LEMMA MutexStep == ASSUME MutexInv, [Next]_vars PROVE MutexInv'
<1> USE DEF MutexInv, Shape, Labels, Inside, InCall
<1>1. ASSUME NEW t \in Threads, Call(t) PROVE MutexInv'
  <2>1. /\ pc' = [pc EXCEPT ![t] = IF t \in Batchers THEN "lock" ELSE "load"]
        /\ left' = [left EXCEPT ![t] = IF t \in Batchers THEN BatchLen ELSE 1]
        /\ turn' = [turn EXCEPT ![t] = @ + 1]
        /\ UNCHANGED <<nextID, sendMu, chain, id, seq, wire, broken>>
    BY <1>1 DEF Call
  <2>2. pc' \in [Threads -> Labels] /\ left' \in [Threads -> Int] /\ turn' \in [Threads -> Nat]
    BY <2>1
  <2>3. Shape'
    BY <2>1, <2>2
  <2>4. ASSUME NEW u \in Threads
        PROVE  /\ Inside(u)' => sendMu' = u
               /\ InCall(u)' => left'[u] >= 1 /\ (u \notin Batchers => left'[u] = 1)
    <3>1. CASE u = t
      BY <2>1, <3>1
    <3>2. CASE u # t
      BY <2>1, <3>2
    <3> QED BY <3>1, <3>2
  <2> QED BY <2>3, <2>4
<1>2. ASSUME NEW t \in Threads, LoadID(t) PROVE MutexInv'
  BY <1>2 DEF LoadID
<1>3. ASSUME NEW t \in Threads, StoreID(t) PROVE MutexInv'
  BY <1>3 DEF StoreID
<1>4. ASSUME NEW t \in Threads, AddID(t) PROVE MutexInv'
  <2>1. /\ pc' = [pc EXCEPT ![t] = IF t \in Batchers THEN "encrypt" ELSE "lock"]
        /\ id' = [id EXCEPT ![t] = nextID'] /\ pc[t] = "add"
        /\ UNCHANGED <<sendMu, chain, seq, left, turn, wire, broken>>
    BY <1>4 DEF AddID
  <2>2. nextID' \in Int
    BY <1>4 DEF AddID
  <2>3. pc' \in [Threads -> Labels] /\ id' \in [Threads -> Int]
    BY <2>1, <2>2
  <2>4. Shape'
    BY <2>1, <2>2, <2>3
  <2> QED BY <2>1, <2>4
<1>5. ASSUME NEW t \in Threads, Lock(t) PROVE MutexInv'
  BY <1>5 DEF Lock
<1>6. ASSUME NEW t \in Threads, Encrypt(t) PROVE MutexInv'
  BY <1>6 DEF Encrypt
<1>7. ASSUME NEW t \in Threads, Write(t) PROVE MutexInv'
  <2>1. Sent(t) \in Entry
    BY DEF Sent, Entry
  <2>2. wire' \in Seq(Entry)
    BY <1>7, <2>1 DEF Write
  <2>3. /\ pc[t] = "write" /\ left[t] >= 1 /\ (t \notin Batchers => left[t] = 1)
        /\ \A u \in Threads : u # t => ~Inside(u)
    BY <1>7 DEF Write
  <2>4. CASE left[t] = 1
    <3>1. sendMu' = NoOne /\ pc' = [pc EXCEPT ![t] = Return(t)]
          /\ left' = [left EXCEPT ![t] = 0]
      BY <1>7, <2>4 DEF Write
    <3>2. Return(t) \in {"idle", "rawClose"}
      BY DEF Return
    <3>3. Shape'
      BY <1>7, <2>2, <3>1, <3>2 DEF Write
    <3>4. \A u \in Threads : ~Inside(u)'
      BY <2>3, <3>1, <3>2
    <3> QED BY <3>1, <3>2, <3>3, <3>4
  <2>5. CASE left[t] # 1
    <3>1. t \in Batchers /\ UNCHANGED sendMu /\ pc' = [pc EXCEPT ![t] = "load"]
          /\ left' = [left EXCEPT ![t] = @ - 1]
      BY <1>7, <2>3, <2>5 DEF Write
    <3>2. Shape'
      BY <1>7, <2>2, <3>1 DEF Write
    <3>3. left'[t] >= 1
      BY <2>3, <2>5, <3>1
    <3> QED BY <2>3, <3>1, <3>2, <3>3
  <2> QED BY <2>4, <2>5
<1>8. ASSUME NEW t \in Threads, WriteFails(t) PROVE MutexInv'
  BY <1>8 DEF WriteFails, Return
<1>9. ASSUME NEW t \in Threads, RawClose(t) PROVE MutexInv'
  BY <1>9 DEF RawClose
<1>10. CASE UNCHANGED vars
  BY <1>10
<1> QED BY <1>1, <1>2, <1>3, <1>4, <1>5, <1>6, <1>7, <1>8, <1>9, <1>10
        DEF Next, Step, Idle

THEOREM Mutex == Spec => []MutexInv
BY MutexInit, MutexStep, PTL DEF Spec

----------------------------------------------------------------------------
(***************************************************************************)
(* The CBC chain: at most one packet is encrypted and not yet written, and *)
(* it is the last of the chain.                                            *)
(***************************************************************************)
ChainInv ==
  ~broken =>
    /\ \A i \in 1 .. Len(wire) : wire[i].seq = i
    /\ \A t \in Threads : pc[t] = "write" => seq[t] = chain /\ chain = Len(wire) + 1
    /\ (\A t \in Threads : pc[t] # "write") => chain = Len(wire)

LEMMA ChainStep == ASSUME MutexInv, ChainInv, [Next]_vars PROVE ChainInv'
<1> USE DEF MutexInv, Shape, Labels, Inside, ChainInv
<1>1. ASSUME NEW t \in Threads, Call(t) PROVE ChainInv'
  BY <1>1 DEF Call
<1>2. ASSUME NEW t \in Threads, LoadID(t) PROVE ChainInv'
  BY <1>2 DEF LoadID
<1>3. ASSUME NEW t \in Threads, StoreID(t) PROVE ChainInv'
  BY <1>3 DEF StoreID
<1>4. ASSUME NEW t \in Threads, AddID(t) PROVE ChainInv'
  BY <1>4 DEF AddID
<1>5. ASSUME NEW t \in Threads, Lock(t) PROVE ChainInv'
  BY <1>5 DEF Lock
<1>6. ASSUME NEW t \in Threads, Encrypt(t) PROVE ChainInv'
  <2>1. sendMu = t /\ \A u \in Threads : pc[u] # "write"
    BY <1>6 DEF Encrypt
  <2> QED BY <1>6, <2>1 DEF Encrypt
<1>7. ASSUME NEW t \in Threads, Write(t), ~broken' PROVE ChainInv'
  <2>1. \A u \in Threads \ {t} : pc[u] # "write"
    BY <1>7 DEF Write
  <2>2. \A u \in Threads : pc'[u] # "write"
    BY <1>7, <2>1 DEF Write, Return
  <2>3. seq[t] = chain /\ chain = Len(wire) + 1 /\ UNCHANGED chain
    BY <1>7 DEF Write
  <2>4. wire' = Append(wire, Sent(t)) /\ Sent(t).seq = chain
    BY <1>7, <2>3 DEF Write, Sent
  <2>5. Len(wire') = Len(wire) + 1
    BY <2>4
  <2>6. \A i \in 1 .. Len(wire') : wire'[i].seq = i
    <3>1. ASSUME NEW i \in 1 .. Len(wire) PROVE wire'[i].seq = i
      BY <2>4, <1>7, <3>1 DEF Write
    <3>2. wire'[Len(wire) + 1].seq = Len(wire) + 1
      BY <2>4, <2>3
    <3>3. \A i \in 1 .. Len(wire) + 1 : i \in 1 .. Len(wire) \/ i = Len(wire) + 1
      OBVIOUS
    <3> QED BY <2>5, <3>1, <3>2, <3>3
  <2> QED BY <2>2, <2>3, <2>5, <2>6
<1>8. ASSUME NEW t \in Threads, WriteFails(t) PROVE ChainInv'
  BY <1>8 DEF WriteFails
<1>9. ASSUME NEW t \in Threads, RawClose(t) PROVE ChainInv'
  BY <1>9 DEF RawClose
<1>10. CASE UNCHANGED vars
  BY <1>10
<1> QED BY <1>1, <1>2, <1>3, <1>4, <1>5, <1>6, <1>7, <1>8, <1>9, <1>10
        DEF Next, Step, Idle

(* Until a write fails, the remote can decrypt all that it reads.          *)
THEOREM ChainOrder == Spec => []ChainIntact
<1>1. Init => ChainInv
  BY DEF Init, ChainInv
<1>2. MutexInv /\ ChainInv => ChainIntact
  BY DEF MutexInv, Shape, ChainInv, ChainIntact
<1> QED BY <1>1, <1>2, ChainStep, Mutex, PTL DEF Spec

----------------------------------------------------------------------------
(***************************************************************************)
(* Batches: when a goroutine in a call has packets of that call on the     *)
(* wire, it is a batcher that holds sendMu, and the last packet on the     *)
(* wire is one of them.                                                    *)
(***************************************************************************)
Mine(t, i) == wire[i].by = t /\ wire[i].turn = turn[t]

BatchInv ==
  /\ \A i \in 1 .. Len(wire) : wire[i].turn <= turn[wire[i].by]
  /\ \A t \in Threads, i \in 1 .. Len(wire) :
       InCall(t) /\ Mine(t, i) =>
         t \in Batchers /\ pc[t] # "lock" /\ Mine(t, Len(wire))
  /\ \A i, k \in 1 .. Len(wire) :
       i < k /\ SameCall(i, k) => \A j \in i .. k : SameCall(i, j)

\* A step that leaves the wire and the calls alone.
LEMMA BatchFrame ==
  ASSUME MutexInv, BatchInv, UNCHANGED <<wire, turn>>,
         \A t \in Threads :
           InCall(t)' => InCall(t) /\ (pc'[t] = "lock" => pc[t] = "lock" \/ t \notin Batchers)
  PROVE  BatchInv'
BY DEF BatchInv, Mine, SameCall, MutexInv, Shape

LEMMA BatchStep == ASSUME MutexInv, BatchInv, [Next]_vars PROVE BatchInv'
<1> USE DEF MutexInv, Shape, Labels
<1>1. ASSUME NEW t \in Threads, Call(t) PROVE BatchInv'
  <2>1. turn'[t] = turn[t] + 1 /\ UNCHANGED wire
    BY <1>1 DEF Call
  <2>2. \A u \in Threads \ {t} : turn'[u] = turn[u] /\ pc'[u] = pc[u]
    BY <1>1 DEF Call
  <2>3. ASSUME NEW i \in 1 .. Len(wire)
        PROVE  wire[i].by \in Threads /\ wire[i].turn \in Nat
    <3>1. wire[i] \in Entry
      OBVIOUS
    <3> QED BY <3>1 DEF Entry
  <2>4. ASSUME NEW i \in 1 .. Len(wire) PROVE wire[i].turn <= turn'[wire[i].by]
    <3>1. wire[i].turn <= turn[wire[i].by]
      BY DEF BatchInv
    <3>2. wire[i].by \in Threads /\ wire[i].turn \in Nat
      BY <2>3
    <3>3. turn[wire[i].by] \in Nat
      BY <3>2
    <3>4. CASE wire[i].by = t
      <4>1. turn'[wire[i].by] = turn[wire[i].by] + 1
        BY <2>1, <3>4
      <4> HIDE DEF MutexInv, Shape
      <4> QED BY <3>1, <3>2, <3>3, <4>1
    <3>5. CASE wire[i].by # t
      <4>1. turn'[wire[i].by] = turn[wire[i].by]
        BY <2>2, <3>2, <3>5
      <4> QED BY <3>1, <4>1
    <3> QED BY <3>4, <3>5
  <2>5. \A i \in 1 .. Len(wire) : ~Mine(t, i)'
    BY <2>1, <2>3 DEF BatchInv, Mine
  <2>6. \A u \in Threads \ {t}, i \in 1 .. Len(wire) :
          (InCall(u)' <=> InCall(u)) /\ (Mine(u, i)' <=> Mine(u, i))
    BY <2>1, <2>2 DEF InCall, Mine
  <2>7. \A u \in Threads, i \in 1 .. Len(wire) :
          InCall(u)' /\ Mine(u, i)' =>
            u \in Batchers /\ pc'[u] # "lock" /\ Mine(u, Len(wire))'
    <3>1. SUFFICES ASSUME NEW u \in Threads \ {t}, NEW i \in 1 .. Len(wire),
                          InCall(u)', Mine(u, i)'
                   PROVE  u \in Batchers /\ pc'[u] # "lock" /\ Mine(u, Len(wire))'
      BY <2>5
    <3>2. Len(wire) \in 1 .. Len(wire)
      OBVIOUS
    <3>3. u \in Batchers /\ pc[u] # "lock" /\ Mine(u, Len(wire))
      BY <2>6, <3>1 DEF BatchInv
    <3>4. Mine(u, Len(wire))'
      BY <2>1, <2>2, <3>3 DEF Mine
    <3>5. pc'[u] # "lock"
      BY <2>2, <3>3
    <3> QED BY <3>3, <3>4, <3>5
  <2>9. Len(wire') = Len(wire)
    BY <2>1
  <2>10. \A i \in 1 .. Len(wire') : wire'[i].turn <= turn'[wire'[i].by]
    BY <2>1, <2>4
  <2>11. ASSUME NEW i \in 1 .. Len(wire'), NEW k \in 1 .. Len(wire'), i < k,
                SameCall(i, k)', NEW j \in i .. k
         PROVE  SameCall(i, j)'
    <3>1. SameCall(i, k) /\ i \in 1 .. Len(wire) /\ k \in 1 .. Len(wire)
      BY <2>1, <2>11 DEF SameCall
    <3>2. SameCall(i, j)
      BY <2>11, <3>1 DEF BatchInv
    <3> QED BY <2>1, <3>2 DEF SameCall
  <2>12. \A u \in Threads, i \in 1 .. Len(wire') :
           InCall(u)' /\ Mine(u, i)' =>
             u \in Batchers /\ pc'[u] # "lock" /\ Mine(u, Len(wire))'
    BY <2>7, <2>9
  <2> QED BY <2>10, <2>11, <2>12 DEF BatchInv
<1>2. ASSUME NEW t \in Threads, LoadID(t) PROVE BatchInv'
  BY <1>2, BatchFrame DEF LoadID, InCall
<1>3. ASSUME NEW t \in Threads, StoreID(t) PROVE BatchInv'
  BY <1>3, BatchFrame DEF StoreID, InCall
<1>4. ASSUME NEW t \in Threads, AddID(t) PROVE BatchInv'
  BY <1>4, BatchFrame DEF AddID, InCall
<1>5. ASSUME NEW t \in Threads, Lock(t) PROVE BatchInv'
  BY <1>5, BatchFrame DEF Lock, InCall
<1>6. ASSUME NEW t \in Threads, Encrypt(t) PROVE BatchInv'
  BY <1>6, BatchFrame DEF Encrypt, InCall
<1>7. ASSUME NEW t \in Threads, Write(t) PROVE BatchInv'
  <2>0. PICK n \in Nat : n = Len(wire)
    OBVIOUS
  <2>1. wire' = Append(wire, Sent(t)) /\ UNCHANGED turn /\ sendMu = t
    BY <1>7 DEF Write, Inside
  <2>2. /\ Len(wire') = n + 1 /\ n \in Nat
        /\ \A i \in 1 .. n : wire'[i] = wire[i]
        /\ wire'[n + 1].by = t /\ wire'[n + 1].turn = turn[t]
    BY <2>0, <2>1 DEF Sent
  <2>a. \A i \in 1 .. n + 1 : i \in 1 .. n \/ i = n + 1
    BY <2>2
  <2>3. \A i \in 1 .. n + 1 : wire'[i].turn <= turn'[wire'[i].by]
    <3>1. ASSUME NEW i \in 1 .. n PROVE wire'[i].turn <= turn'[wire'[i].by]
      <4>1. wire[i].turn <= turn[wire[i].by]
        BY <2>0 DEF BatchInv
      <4> QED BY <2>1, <2>2, <4>1
    <3>2. wire'[n + 1].turn <= turn'[wire'[n + 1].by]
      <4>1. turn[t] <= turn[t]
        OBVIOUS
      <4> QED BY <2>1, <2>2, <4>1
    <3> QED BY <2>a, <3>1, <3>2
  <2>4. ASSUME NEW u \in Threads, NEW i \in 1 .. n PROVE Mine(u, i)' <=> Mine(u, i)
    <3>1. wire'[i] = wire[i] /\ turn' = turn
      BY <2>1, <2>2
    <3> QED BY <3>1 DEF Mine
  <2>5. ASSUME NEW u \in Threads, u # t, NEW i \in 1 .. n + 1, InCall(u)', Mine(u, i)'
        PROVE  FALSE
    <3>1. i \in 1 .. n /\ Mine(u, i)
      <4>1. i # n + 1
        BY <2>2, <2>5 DEF Mine
      <4>2. i \in 1 .. n
        BY <2>2, <4>1
      <4> QED BY <2>4, <2>5, <4>2
    <3>2. InCall(u) /\ pc'[u] = pc[u]
      BY <1>7, <2>5 DEF Write, InCall
    <3>3. u \in Batchers /\ pc[u] # "lock"
      BY <2>0, <3>1, <3>2 DEF BatchInv
    <3>4. Inside(u)
      BY <3>2, <3>3 DEF InCall, Inside
    <3> QED BY <3>4, <2>1, <2>5
  <2>6. InCall(t)' => t \in Batchers /\ pc'[t] # "lock"
    <3>1. left[t] >= 1 /\ (t \notin Batchers => left[t] = 1)
      BY <1>7 DEF Write, InCall
    <3> QED BY <1>7, <3>1 DEF Write, Return, InCall
  <2>7. Mine(t, n + 1)'
    BY <2>1, <2>2 DEF Mine
  <2>8. \A u \in Threads, i \in 1 .. n + 1 :
          InCall(u)' /\ Mine(u, i)' =>
            u \in Batchers /\ pc'[u] # "lock" /\ Mine(u, n + 1)'
    BY <2>5, <2>6, <2>7
  <2>9. ASSUME NEW i \in 1 .. n + 1, NEW k \in 1 .. n + 1, i < k, SameCall(i, k)',
               NEW j \in i .. k
        PROVE  SameCall(i, j)'
    <3>1. CASE k \in 1 .. n
      <4>1. SameCall(i, k) /\ i \in 1 .. n /\ j \in 1 .. n
        <5> HIDE DEF MutexInv, Shape
        <5>1. i \in 1 .. n /\ j \in 1 .. n
          BY <2>2, <2>9, <3>1
        <5>2. wire'[i] = wire[i] /\ wire'[k] = wire[k]
          BY <2>2, <3>1, <5>1
        <5> QED BY <2>9, <5>1, <5>2 DEF SameCall
      <4>2. SameCall(i, j)
        BY <2>0, <2>9, <3>1, <4>1 DEF BatchInv
      <4> QED BY <2>2, <4>1, <4>2 DEF SameCall
    <3>2. CASE k = n + 1
      <4>1. i \in 1 .. n /\ Mine(t, i)
        <5> HIDE DEF MutexInv, Shape
        <5>1. i \in 1 .. n /\ wire'[i] = wire[i]
          BY <2>2, <2>9, <3>2
        <5> QED BY <2>2, <2>9, <3>2, <5>1 DEF SameCall, Mine
      <4>2. InCall(t)
        BY <1>7 DEF Write, InCall
      <4>3. Mine(t, n) /\ n \in 1 .. n
        BY <2>0, <4>1, <4>2 DEF BatchInv
      <4>4. SameCall(i, n)
        BY <4>1, <4>3 DEF SameCall, Mine
      <4>5. CASE j = n + 1
        BY <2>9, <3>2, <4>5
      <4>6. CASE j \in 1 .. n
        <5>1. SameCall(i, j)
          <6>1. CASE i = n
            BY <2>9, <4>6, <6>1 DEF SameCall
          <6>2. CASE i < n
            <7>1. j \in i .. n
              BY <2>9, <4>6
            <7> QED BY <2>0, <4>1, <4>3, <4>4, <6>2, <7>1 DEF BatchInv
          <6> QED BY <4>1, <6>1, <6>2
        <5> QED BY <2>2, <4>1, <4>6, <5>1 DEF SameCall
      <4> QED BY <2>9, <3>2, <4>5, <4>6
    <3>3. k \in 1 .. n \/ k = n + 1
      BY <2>2, <2>9
    <3> QED BY <3>1, <3>2, <3>3
  <2>10. Len(wire') = n + 1
    BY <2>2
  <2>11. \A u \in Threads, i \in 1 .. Len(wire') :
           InCall(u)' /\ Mine(u, i)' =>
             u \in Batchers /\ pc'[u] # "lock" /\ Mine(u, Len(wire))'
    <3>1. \A u \in Threads : Mine(u, Len(wire))' <=> Mine(u, n + 1)'
      BY <2>10 DEF Mine
    <3> QED BY <2>8, <2>10, <3>1
  <2> QED BY <2>3, <2>9, <2>10, <2>11 DEF BatchInv
<1>8. ASSUME NEW t \in Threads, WriteFails(t) PROVE BatchInv'
  BY <1>8, BatchFrame DEF WriteFails, Return, InCall
<1>9. ASSUME NEW t \in Threads, RawClose(t) PROVE BatchInv'
  BY <1>9, BatchFrame DEF RawClose, InCall
<1>10. CASE UNCHANGED vars
  BY <1>10, BatchFrame DEF InCall
<1> QED BY <1>1, <1>2, <1>3, <1>4, <1>5, <1>6, <1>7, <1>8, <1>9, <1>10
        DEF Next, Step, Idle

(* Nobody's packet comes between the packets of one SendPackets call.      *)
THEOREM Contiguous == Spec => []BatchContiguous
<1>1. Init => BatchInv
  BY DEF Init, BatchInv
<1>2. ASSUME MutexInv, BatchInv PROVE BatchContiguous
  <2>1. DOMAIN wire = 1 .. Len(wire)
    BY <1>2 DEF MutexInv, Shape
  <2> QED BY <1>2, <2>1 DEF BatchInv, BatchContiguous
<1> QED BY <1>1, <1>2, BatchStep, Mutex, PTL DEF Spec

----------------------------------------------------------------------------
(***************************************************************************)
(* Packet numbers: the counter can pass WrapAt only by the goroutines that *)
(* are between their test and their increment.                             *)
(***************************************************************************)
Adding == {t \in Threads : pc[t] = "add"}
Numbered(t) == pc[t] \in {"lock", "encrypt", "write"} /\ (t \in Batchers => pc[t] # "lock")

IdInv ==
  /\ nextID \in Nat
  /\ nextID + Cardinality(Adding) <= WrapAt + Cardinality(Threads) - 1
  /\ \A t \in Threads : Numbered(t) => id[t] \in 1 .. IntMax
  /\ \A i \in 1 .. Len(wire) : wire[i].id \in 1 .. IntMax

LEMMA AddingFinite ==
  /\ IsFiniteSet(Adding) /\ Cardinality(Adding) \in Nat
  /\ Cardinality(Threads) \in Nat
  /\ Cardinality(Adding) <= Cardinality(Threads)
BY FS_Subset, FS_CardinalityType DEF Adding

\* A goroutine that enters or leaves the set.
LEMMA Enters ==
  ASSUME MutexInv, NEW t \in Threads, pc[t] # "add", pc' = [pc EXCEPT ![t] = "add"]
  PROVE  /\ Cardinality(Adding') = Cardinality(Adding) + 1
         /\ Cardinality(Adding') <= Cardinality(Threads)
         /\ Cardinality(Adding) \in Nat /\ Cardinality(Threads) \in Nat
<1>1. Adding' = Adding \cup {t} /\ t \notin Adding
  BY DEF Adding, MutexInv, Shape
<1>2. Adding' \subseteq Threads
  BY DEF Adding
<1> QED BY <1>1, <1>2, AddingFinite, FS_AddElement, FS_Subset

LEMMA Leaves ==
  ASSUME MutexInv, NEW t \in Threads, pc[t] = "add", NEW l, l # "add",
         pc' = [pc EXCEPT ![t] = l]
  PROVE  /\ Cardinality(Adding') = Cardinality(Adding) - 1
         /\ Cardinality(Adding) \in Nat /\ Cardinality(Threads) \in Nat
<1>1. Adding' = Adding \ {t} /\ t \in Adding
  BY DEF Adding, MutexInv, Shape
<1> QED BY <1>1, AddingFinite, FS_RemoveElement

LEMMA Stays ==
  ASSUME MutexInv, NEW t \in Threads, pc[t] # "add", NEW l, l # "add",
         pc' = [pc EXCEPT ![t] = l]
  PROVE  Adding' = Adding
BY DEF Adding, MutexInv, Shape

LEMMA IdStep == ASSUME MutexInv, IdInv, [Next]_vars PROVE IdInv'
<1> USE DEF MutexInv, Shape, Labels, Numbered
<1>1. ASSUME NEW t \in Threads, Call(t) PROVE IdInv'
  <2>1. Adding' = Adding
    BY <1>1, Stays DEF Call
  <2> QED BY <1>1, <2>1 DEF Call, IdInv
<1>2. ASSUME NEW t \in Threads, LoadID(t) PROVE IdInv'
  <2>1. CASE nextID >= WrapAt
    <3>1. Adding' = Adding
      BY <1>2, <2>1, Stays DEF LoadID
    <3>2. pc' = [pc EXCEPT ![t] = "store"] /\ UNCHANGED <<nextID, id, wire>>
      BY <1>2, <2>1 DEF LoadID
    <3>3. nextID' + Cardinality(Adding') <= WrapAt + Cardinality(Threads) - 1
      BY <3>1, <3>2 DEF IdInv
    <3> QED BY <3>2, <3>3 DEF IdInv
  <2>2. CASE nextID < WrapAt
    <3>1. ~(nextID >= WrapAt) /\ nextID \in Nat
      BY <2>2 DEF IdInv
    <3>2. pc' = [pc EXCEPT ![t] = "add"] /\ pc[t] # "add"
          /\ UNCHANGED <<nextID, id, wire>>
      BY <1>2, <3>1 DEF LoadID
    <3>3. Cardinality(Adding') = Cardinality(Adding) + 1
          /\ Cardinality(Adding') <= Cardinality(Threads)
          /\ Cardinality(Adding) \in Nat /\ Cardinality(Threads) \in Nat
      BY <3>2, Enters
    <3>4. nextID' + Cardinality(Adding') <= WrapAt + Cardinality(Threads) - 1
      <4> HIDE DEF MutexInv, Adding, Threads
      <4> QED BY <2>2, <3>1, <3>2, <3>3
    <3> QED BY <3>2, <3>4 DEF IdInv
  <2> QED BY <2>1, <2>2 DEF IdInv
<1>3. ASSUME NEW t \in Threads, StoreID(t) PROVE IdInv'
  <2>1. pc' = [pc EXCEPT ![t] = "add"] /\ pc[t] # "add" /\ nextID' = 0
        /\ UNCHANGED <<id, wire>>
    BY <1>3 DEF StoreID
  <2>2. Cardinality(Adding') = Cardinality(Adding) + 1
        /\ Cardinality(Adding') <= Cardinality(Threads)
        /\ Cardinality(Adding) \in Nat /\ Cardinality(Threads) \in Nat
    BY <2>1, Enters
  <2>3. nextID' + Cardinality(Adding') <= WrapAt + Cardinality(Threads) - 1
    BY <2>1, <2>2
  <2> QED BY <2>1, <2>3 DEF IdInv
<1>4. ASSUME NEW t \in Threads, AddID(t) PROVE IdInv'
  <2>1. pc[t] = "add" /\ UNCHANGED wire
        /\ pc' = [pc EXCEPT ![t] = IF t \in Batchers THEN "encrypt" ELSE "lock"]
    BY <1>4 DEF AddID
  <2>2. /\ Cardinality(Adding') = Cardinality(Adding) - 1
        /\ Cardinality(Adding) \in Nat /\ Cardinality(Threads) \in Nat
    BY <2>1, Leaves
  <2>3. Cardinality(Adding) >= 1
    <3>1. t \in Adding
      BY <2>1 DEF Adding
    <3> QED BY <3>1, <2>2, AddingFinite, FS_EmptySet
  <2>4. nextID + 1 <= IntMax /\ nextID + 1 >= 1 /\ nextID # IntMax
    <3> HIDE DEF MutexInv, Shape
    <3>1. /\ nextID \in Nat
          /\ nextID + Cardinality(Adding) <= WrapAt + Cardinality(Threads) - 1
      BY DEF IdInv
    <3>2. WrapAt \in Nat /\ IntMax \in Nat /\ WrapAt + Cardinality(Threads) <= IntMax + 1
      OBVIOUS
    <3> QED BY <2>2, <2>3, <3>1, <3>2
  <2>5. nextID' = nextID + 1 /\ id' = [id EXCEPT ![t] = nextID + 1]
    BY <1>4, <2>4 DEF AddID
  <2>6. nextID' + Cardinality(Adding') <= WrapAt + Cardinality(Threads) - 1
    BY <2>2, <2>5 DEF IdInv
  <2>7. \A u \in Threads : Numbered(u)' => id'[u] \in 1 .. IntMax
    <3>1. nextID + 1 \in 1 .. IntMax
      BY <2>4 DEF IdInv
    <3>2. ASSUME NEW u \in Threads, Numbered(u)' PROVE id'[u] \in 1 .. IntMax
      <4>1. CASE u = t
        BY <2>5, <3>1, <4>1
      <4>2. CASE u # t
        BY <2>1, <2>5, <3>2, <4>2 DEF IdInv
      <4> QED BY <4>1, <4>2
    <3> QED BY <3>2
  <2> QED BY <2>1, <2>5, <2>6, <2>7 DEF IdInv
<1>5. ASSUME NEW t \in Threads, Lock(t) PROVE IdInv'
  <2>1. Adding' = Adding
    BY <1>5, Stays DEF Lock
  <2> QED BY <1>5, <2>1 DEF Lock, IdInv
<1>6. ASSUME NEW t \in Threads, Encrypt(t) PROVE IdInv'
  <2>1. Adding' = Adding
    BY <1>6, Stays DEF Encrypt
  <2> QED BY <1>6, <2>1 DEF Encrypt, IdInv
<1>7. ASSUME NEW t \in Threads, Write(t) PROVE IdInv'
  <2>1. Adding' = Adding
    <3>1. CASE left'[t] = 0
      BY <1>7, <3>1, Stays DEF Write, Return
    <3>2. CASE left'[t] # 0
      BY <1>7, <3>2, Stays DEF Write
    <3> QED BY <3>1, <3>2
  <2>2. wire' = Append(wire, Sent(t)) /\ Sent(t).id = id[t] /\ id[t] \in 1 .. IntMax
    BY <1>7 DEF Write, Sent, IdInv
  <2>3. \A i \in 1 .. Len(wire') : wire'[i].id \in 1 .. IntMax
    <3>1. Len(wire') = Len(wire) + 1 /\ wire'[Len(wire) + 1] = Sent(t)
          /\ \A i \in 1 .. Len(wire) : wire'[i] = wire[i]
      BY <2>2
    <3> QED BY <2>2, <3>1 DEF IdInv
  <2>4. \A u \in Threads : Numbered(u)' => Numbered(u)
    BY <1>7 DEF Write, Return
  <2> QED BY <1>7, <2>1, <2>3, <2>4 DEF Write, IdInv
<1>8. ASSUME NEW t \in Threads, WriteFails(t) PROVE IdInv'
  <2>1. Adding' = Adding
    BY <1>8, Stays DEF WriteFails, Return
  <2> QED BY <1>8, <2>1 DEF WriteFails, Return, IdInv
<1>9. ASSUME NEW t \in Threads, RawClose(t) PROVE IdInv'
  <2>1. Adding' = Adding
    BY <1>9, Stays DEF RawClose
  <2> QED BY <1>9, <2>1 DEF RawClose, IdInv
<1>10. CASE UNCHANGED vars
  BY <1>10 DEF IdInv, Adding
<1> QED BY <1>1, <1>2, <1>3, <1>4, <1>5, <1>6, <1>7, <1>8, <1>9, <1>10
        DEF Next, Step, Idle

LEMMA IdInit == ASSUME Init PROVE IdInv
<1>1. Adding = {}
  BY DEF Init, Adding
<1>2. Cardinality(Adding) = 0 /\ Cardinality(Threads) \in Nat
      /\ Cardinality(Threads) # 0
  BY <1>1, FS_EmptySet, FS_CardinalityType
<1> QED BY <1>2 DEF Init, IdInv, Numbered

(* Every packet number is positive, whatever races at the wrap-around.     *)
THEOREM PositiveIDs == Spec => []IdsPositive
<1>1. MutexInv /\ IdInv => IdsPositive
  BY DEF MutexInv, Shape, IdInv, IdsPositive
<1> QED BY <1>1, IdInit, IdStep, Mutex, PTL DEF Spec

----------------------------------------------------------------------------
(***************************************************************************)
(* Progress, without its fairness: sendMu is held only by a goroutine that *)
(* is inside its critical section and needs nothing to go on, and every    *)
(* step of a call brings its end nearer.                                   *)
(***************************************************************************)
HolderInv == sendMu # NoOne => sendMu \in Threads /\ Inside(sendMu)

LEMMA HolderStep == ASSUME MutexInv, HolderInv, [Next]_vars PROVE HolderInv'
<1> USE DEF HolderInv, MutexInv, Shape, Inside
<1>1. ASSUME NEW t \in Threads, Call(t) PROVE HolderInv'
  BY <1>1 DEF Call
<1>2. ASSUME NEW t \in Threads, LoadID(t) PROVE HolderInv'
  BY <1>2 DEF LoadID
<1>2a. ASSUME NEW t \in Threads, StoreID(t) PROVE HolderInv'
  BY <1>2a DEF StoreID
<1>2b. ASSUME NEW t \in Threads, AddID(t) PROVE HolderInv'
  BY <1>2b DEF AddID
<1>3. ASSUME NEW t \in Threads, Lock(t) \/ Encrypt(t) PROVE HolderInv'
  BY <1>3 DEF Lock, Encrypt
<1>4. ASSUME NEW t \in Threads, Write(t) PROVE HolderInv'
  <2>1. sendMu = t /\ left[t] >= 1 /\ (t \notin Batchers => left[t] = 1)
    BY <1>4 DEF Write, InCall
  <2>2. CASE left[t] = 1
    BY <1>4, <2>2 DEF Write
  <2>3. CASE left[t] # 1
    <3>1. t \in Batchers /\ UNCHANGED sendMu /\ pc' = [pc EXCEPT ![t] = "load"]
      BY <1>4, <2>1, <2>3 DEF Write
    <3> QED BY <2>1, <3>1
  <2> QED BY <2>2, <2>3
<1>5. ASSUME NEW t \in Threads, WriteFails(t) \/ RawClose(t) PROVE HolderInv'
  BY <1>5 DEF WriteFails, RawClose
<1>6. CASE UNCHANGED vars
  BY <1>6
<1> QED BY <1>1, <1>2, <1>2a, <1>2b, <1>3, <1>4, <1>5, <1>6 DEF Next, Step, Idle

\* What a goroutine needs for its next step.
CanStep(t) == pc[t] \notin {"idle", "lock"} \/ (pc[t] = "lock" /\ sendMu = NoOne)

\* While a call is open some call can go on: the goroutine itself, or the one
\* that holds what it waits for.
NoneBlocked ==
  \A t \in Threads : pc[t] # "idle" =>
    CanStep(t) \/ (sendMu \in Threads \ {t} /\ CanStep(sendMu))

(* sendMu is never left locked, by an error return either (client.go:299-  *)
(* 307): no state of any number of senders and closers has all of them     *)
(* wait.                                                                   *)
THEOREM NeverLeftLocked == Spec => []NoneBlocked
<1>1. Init => HolderInv
  BY DEF Init, HolderInv
<1>2. MutexInv /\ HolderInv => NoneBlocked
  BY DEF MutexInv, Shape, HolderInv, Inside, NoneBlocked, CanStep
<1> QED BY <1>1, <1>2, HolderStep, Mutex, PTL DEF Spec

\* How many steps a call has left, at most.
Place(t, l) ==
  IF l = "lock" THEN IF t \in Batchers THEN 7 ELSE 3
  ELSE IF l = "load" THEN 6
  ELSE IF l = "store" THEN 5
  ELSE IF l = "add" THEN 4
  ELSE IF l = "encrypt" THEN 2 ELSE 1
Steps(t, l, n) == IF l = "idle" THEN 0
                  ELSE IF l = "rawClose" THEN 1 ELSE 10 * n + Place(t, l)
ToGo(t) == Steps(t, pc[t], left[t])

\* A goroutine in a call stays where it is or comes nearer to its return.
CallAdvances ==
  \A t \in Threads : pc[t] # "idle" =>
    /\ ToGo(t) \in Nat \ {0}
    /\ (pc'[t] = pc[t] /\ left'[t] = left[t]) \/ ToGo(t)' < ToGo(t)

LEMMA Advances == ASSUME MutexInv, [Next]_vars PROVE CallAdvances
<1> USE DEF MutexInv, Shape, InCall
<1> SUFFICES ASSUME NEW t \in Threads, pc[t] # "idle"
             PROVE  /\ ToGo(t) \in Nat \ {0}
                    /\ (pc'[t] = pc[t] /\ left'[t] = left[t]) \/ ToGo(t)' < ToGo(t)
  BY DEF CallAdvances
<1> DEFINE l == pc[t]
           k == pc'[t]
           n == left[t]
           m == left'[t]
           Same == k = l /\ m = n
           Nearer == Steps(t, k, m) < Steps(t, l, n)
<1>1. l \in Labels \ {"idle"} /\ n \in Int /\ (l # "rawClose" => n >= 1)
  BY DEF Labels
<1>2. Steps(t, l, n) \in Nat \ {0}
  <2> HIDE DEF l, n
  <2>1. Place(t, l) \in Nat
    BY DEF Place
  <2> QED BY <1>1, <2>1 DEF Steps
<1>3. ASSUME NEW u \in Threads, u # t, Call(u) \/ Step(u) PROVE Same
  BY <1>3 DEF Call, Step, LoadID, StoreID, AddID, Lock, Encrypt, Write, WriteFails, RawClose
<1>4. ASSUME Call(t) PROVE FALSE
  BY <1>4 DEF Call
<1>5. ASSUME LoadID(t) \/ StoreID(t) \/ AddID(t) \/ Lock(t) \/ Encrypt(t) PROVE Nearer
  <2>1. /\ m = n
        /\ \/ l = "load" /\ k \in {"store", "add"}
           \/ l = "store" /\ k = "add"
           \/ l = "add" /\ k = IF t \in Batchers THEN "encrypt" ELSE "lock"
           \/ l = "lock" /\ k = IF t \in Batchers THEN "load" ELSE "encrypt"
           \/ l = "encrypt" /\ k = "write"
    BY <1>5 DEF LoadID, StoreID, AddID, Lock, Encrypt
  <2> HIDE DEF k, l, m, n
  <2> QED BY <1>1, <2>1 DEF Steps, Place
<1>6. ASSUME Write(t) \/ WriteFails(t) \/ RawClose(t) PROVE Nearer
  <2>1. \/ l = "write" /\ k = "load" /\ m = n - 1
        \/ k = "idle"
        \/ l = "write" /\ k = "rawClose"
    BY <1>6 DEF Write, WriteFails, RawClose, Return
  <2> HIDE DEF k, l, m, n
  <2>2. CASE l = "write" /\ k = "load" /\ m = n - 1
    BY <1>1, <2>2 DEF Steps, Place
  <2>3. CASE k = "idle"
    BY <1>2, <2>3 DEF Steps
  <2>4. CASE l = "write" /\ k = "rawClose"
    BY <1>1, <2>4 DEF Steps, Place
  <2> QED BY <2>1, <2>2, <2>3, <2>4
<1>7. ASSUME UNCHANGED vars PROVE Same
  BY <1>7
<1>8. Same \/ Nearer
  BY <1>3, <1>4, <1>5, <1>6, <1>7 DEF Next, Step, Idle
<1> QED BY <1>2, <1>8 DEF ToGo

(* A call never goes back: a batch of any length returns after at most     *)
(* ToGo steps of its own, however the others interleave.  With             *)
(* NeverLeftLocked it is CallsReturn but for the fairness.                 *)
THEOREM CallsAdvance == Spec => [][CallAdvances]_vars
BY Mutex, Advances, PTL DEF Spec
============================================================================
