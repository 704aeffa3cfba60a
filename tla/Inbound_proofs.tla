--------------------------- MODULE Inbound_proofs ---------------------------
(* Theorems about InboundKeyboard, InboundMouse and their composition, for  *)
(* any keys, gains, users and write failures.                               *)
EXTENDS Inbound, TLAPS

USE DEF vars, handlerVars, remoteVars, histVars

(***************************************************************************)
(* A device whose map agrees with it: what every key operation preserves.  *)
(***************************************************************************)
Devices == [kernel : SUBSET Codes, pressed : SUBSET Codes]
Agrees(d) == d \in Devices /\ d.kernel = d.pressed

LEMMA KeyOps ==
  ASSUME NEW d \in Devices, NEW code \in Codes
  PROVE  /\ KeyDown(d, code) \in Devices /\ KeyUp(d, code) \in Devices
         /\ Agrees(d) => Agrees(KeyDown(d, code)) /\ Agrees(KeyUp(d, code))
BY DEF KeyDown, KeyUp, Agrees, Devices

LEMMA ActOp ==
  ASSUME NEW d \in Devices, NEW p \in Packets
  PROVE  Act(d, p) \in Devices /\ (Agrees(d) => Agrees(Act(d, p)))
<1>1. p.code \in Codes /\ p.up \in BOOLEAN
  BY DEF Packets
<1> QED BY <1>1, KeyOps DEF Act

----------------------------------------------------------------------------
(* What the state is made of.                                              *)
HandlerOK ==
  /\ pendingCtrl \in BOOLEAN /\ suppressCtrlUp \in BOOLEAN
  /\ pendingCtrlCode \in Ctrls \cup {"none"}
  /\ pendingCtrl => pendingCtrlCode \in Ctrls

WireOK ==
  wire \in {<<>>} \cup {<<p>> : p \in Packets}
             \cup {<<p, q>> : p \in Packets, q \in Packets}

(***************************************************************************)
(* The device agrees with the map until a release fails, and nothing is    *)
(* down, held back or on its way while the remote's cursor is elsewhere.   *)
(***************************************************************************)
KeyInv ==
  /\ HandlerOK /\ WireOK
  /\ dev \in Devices
  /\ ~leaked => dev.kernel = dev.pressed
  /\ ~here => wire = <<>> /\ ~pendingCtrl /\ ~suppressCtrlUp
  /\ ~here /\ ~leaked => dev.kernel = {}

LEMMA CodesOfCtrls == Ctrls \subseteq Codes
BY DEF Ctrls, Codes

LEMMA AttemptOK ==
  ASSUME KeyInv, NEW d, NEW e, Attempt(d, e), d \in Devices, e \in Devices,
         UNCHANGED leaked, Agrees(dev) => Agrees(d) /\ Agrees(e)
  PROVE  dev' \in Devices /\ (~leaked' => dev'.kernel = dev'.pressed)
BY DEF Attempt, Agrees, KeyInv

LEMMA KeyInit == ASSUME Init PROVE KeyInv
<1>1. HandlerOK
  BY DEF Init, HandlerOK
<1>2. WireOK
  BY DEF Init, WireOK
<1>3. dev \in Devices /\ dev.kernel = {} /\ dev.pressed = {}
  BY DEF Init, Devices
<1> QED BY <1>1, <1>2, <1>3 DEF Init, KeyInv

\* What one key packet does.
LEMMA KeyboardStep ==
  ASSUME KeyInv, NEW p \in Packets, HandleKeyboard(p), UNCHANGED leaked
  PROVE  /\ HandlerOK'
         /\ dev' \in Devices /\ (~leaked' => dev'.kernel = dev'.pressed)
<1> USE DEF HandlerOK
<1>p. p.code \in Codes /\ p.up \in BOOLEAN
  BY DEF Packets
<1>d. dev \in Devices /\ HandlerOK
  BY DEF KeyInv
<1>1. CASE CtrlDown(p)
  BY <1>1, <1>d DEF CtrlDown, KeyInv
<1>2. CASE CtrlTap(p)
  <2> DEFINE tapped == KeyDown(dev, p.code)
  <2>1. tapped \in Devices /\ (Agrees(dev) => Agrees(tapped))
    BY <1>p, <1>d, KeyOps
  <2>2. KeyUp(tapped, p.code) \in Devices
        /\ (Agrees(dev) => Agrees(KeyUp(tapped, p.code)))
    BY <1>p, <2>1, KeyOps
  <2>3. Attempt(KeyUp(tapped, p.code), dev) \/ Attempt(tapped, tapped)
          \/ (dev' = tapped /\ UNCHANGED leaked)
    BY <1>2 DEF CtrlTap
  <2>4. dev' \in Devices /\ (~leaked' => dev'.kernel = dev'.pressed)
    BY <1>d, <2>1, <2>2, <2>3 DEF Attempt, Agrees, KeyInv
  <2> QED BY <1>2, <1>d, <2>4 DEF CtrlTap
<1>3. CASE CtrlUpDropped(p)
  BY <1>3, <1>d DEF CtrlUpDropped, KeyInv
<1>4. CASE AltGrDown(p)
  <2>1. dev' \in Devices /\ (~leaked' => dev'.kernel = dev'.pressed)
    BY <1>4, <1>p, <1>d, KeyOps, AttemptOK DEF AltGrDown
  <2> QED BY <1>4, <1>d, <2>1 DEF AltGrDown
<1>5. CASE OrdinaryKey(p)
  <2> DEFINE flushed == IF pendingCtrl THEN KeyDown(dev, pendingCtrlCode) ELSE dev
  <2>1. flushed \in Devices /\ (Agrees(dev) => Agrees(flushed))
    BY <1>d, KeyOps, CodesOfCtrls
  <2>2. Act(flushed, p) \in Devices /\ (Agrees(dev) => Agrees(Act(flushed, p)))
    BY <2>1, ActOp
  <2>3. Attempt(Act(flushed, p), flushed) \/ dev' = dev
    BY <1>5 DEF OrdinaryKey
  <2> HIDE DEF flushed
  <2>4. dev' \in Devices /\ (~leaked' => dev'.kernel = dev'.pressed)
    BY <1>d, <2>1, <2>2, <2>3 DEF Attempt, Agrees, KeyInv
  <2> QED BY <1>5, <1>d, <2>4 DEF OrdinaryKey
<1> QED BY <1>1, <1>2, <1>3, <1>4, <1>5 DEF HandleKeyboard

\* What a release of all keys does.
LEMMA ReleaseStep ==
  ASSUME KeyInv, NEW d \in Devices, Agrees(dev) => Agrees(d), ReleaseAllKeys(d)
  PROVE  /\ HandlerOK' /\ ~pendingCtrl' /\ ~suppressCtrlUp'
         /\ dev' \in Devices
         /\ ~leaked' => dev'.kernel = {} /\ dev'.pressed = {}
<1>1. PICK stuck \in SUBSET d.pressed :
        /\ dev' = ReleaseAll(d, stuck)
        /\ leaked' = (leaked \/ stuck # {})
  BY DEF ReleaseAllKeys
<1>2. dev' = [kernel |-> d.kernel \ (d.pressed \ stuck), pressed |-> {}]
  BY <1>1 DEF ReleaseAll
<1>3. dev' \in Devices
  BY <1>2 DEF Devices
<1>4. ASSUME ~leaked' PROVE dev'.kernel = {} /\ dev'.pressed = {}
  <2>1. stuck = {} /\ ~leaked
    BY <1>1, <1>4
  <2>2. d.kernel = d.pressed
    BY <2>1 DEF Agrees, KeyInv
  <2> QED BY <1>2, <2>1, <2>2
<1> QED BY <1>3, <1>4 DEF ReleaseAllKeys, HandlerOK, KeyInv

LEMMA FlushedOK ==
  ASSUME KeyInv, NEW d \in Flushed
  PROVE  d \in Devices /\ (Agrees(dev) => Agrees(d))
<1>1. d = dev \/ (pendingCtrl /\ d = KeyDown(dev, pendingCtrlCode))
  BY DEF Flushed
<1>2. pendingCtrl => pendingCtrlCode \in Codes
  BY CodesOfCtrls DEF KeyInv, HandlerOK
<1> QED BY <1>1, <1>2, KeyOps DEF KeyInv

LEMMA StrokeOK ==
  ASSUME NEW k \in Keys, NEW up \in BOOLEAN, KeyboardAssumption
  PROVE  Stroke(k, up) \in {<<p>> : p \in Packets}
                             \cup {<<p, q>> : p \in Packets, q \in Packets}
<1>1. \A c \in Codes, u \in BOOLEAN : Packet(c, u) \in Packets
  BY DEF Packet, Packets
<1>2. CASE k # "altgr"
  <2>1. k \in Codes
    BY <1>2 DEF Keys, Codes, KeyboardAssumption
  <2>2. Packet(k, up) \in Packets /\ Stroke(k, up) = <<Packet(k, up)>>
    BY <1>1, <1>2, <2>1 DEF Stroke
  <2> QED BY <2>2
<1>3. CASE k = "altgr"
  <2>1. "ralt" \in Codes /\ "lctrl" \in Codes
    BY DEF Codes
  <2>2. \A u \in BOOLEAN : Packet("ralt", u) \in Packets /\ Packet("lctrl", u) \in Packets
    BY <1>1, <2>1
  <2>3. \E p \in Packets, q \in Packets : Stroke(k, up) = <<p, q>>
    BY <1>3, <2>2 DEF Stroke
  <2> QED BY <2>3
<1> QED BY <1>2, <1>3

LEMMA WireTail ==
  ASSUME WireOK, wire # <<>>
  PROVE  Head(wire) \in Packets
         /\ Tail(wire) \in {<<>>} \cup {<<p>> : p \in Packets}
<1>1. CASE \E p \in Packets : wire = <<p>>
  BY <1>1
<1>2. CASE \E p \in Packets, q \in Packets : wire = <<p, q>>
  BY <1>2
<1> QED BY <1>1, <1>2 DEF WireOK

LEMMA KeyStep == ASSUME KeyInv, [Next]_vars PROVE KeyInv'
<1>1. ASSUME NEW k \in Keys, NEW up \in BOOLEAN, Type(k, up) PROVE KeyInv'
  <2>1. WireOK'
    BY <1>1, StrokeOK, KeyboardAssumption DEF Type, WireOK
  <2>2. HandlerOK'
    BY <1>1 DEF Type, HandlerOK, KeyInv
  <2> QED BY <1>1, <2>1, <2>2 DEF Type, KeyInv
<1>2. CASE RecvKeyboard
  <2>1. Head(wire) \in Packets /\ WireOK' /\ here
    BY <1>2, WireTail DEF RecvKeyboard, KeyInv, WireOK
  <2>2. HandlerOK' /\ dev' \in Devices /\ (~leaked' => dev'.kernel = dev'.pressed)
    BY <1>2, <2>1, KeyboardStep DEF RecvKeyboard
  <2> QED BY <1>2, <2>1, <2>2 DEF RecvKeyboard, KeyInv
<1>3. CASE RecvOther \/ RecvRejected
  <2>f. FlushPendingCtrl /\ UNCHANGED <<wire, leaked>> /\ here'
    BY <1>3 DEF RecvOther, RecvRejected
  <2>1. HandlerOK' /\ WireOK'
    <3>1. HandlerOK'
      BY <2>f DEF FlushPendingCtrl, HandlerOK, KeyInv
    <3>2. WireOK'
      BY <2>f DEF WireOK, KeyInv
    <3> QED BY <3>1, <3>2
  <2>2. pendingCtrl => /\ KeyDown(dev, pendingCtrlCode) \in Devices
                       /\ Agrees(dev) => Agrees(KeyDown(dev, pendingCtrlCode))
    BY KeyOps, CodesOfCtrls DEF KeyInv, HandlerOK
  <2>3. dev' \in Devices /\ (~leaked' => dev'.kernel = dev'.pressed)
    BY <2>f, <2>2 DEF FlushPendingCtrl, Attempt, Agrees, KeyInv
  <2> QED BY <2>f, <2>1, <2>3 DEF KeyInv
<1>4. CASE RecvMachineSwitched
  <2>1. PICK d \in Flushed : ReleaseAllKeys(d)
    BY <1>4 DEF RecvMachineSwitched
  <2>2. d \in Devices /\ (Agrees(dev) => Agrees(d))
    BY FlushedOK
  <2>3. WireOK' /\ here'
    BY <1>4 DEF RecvMachineSwitched, WireOK, KeyInv
  <2> QED BY <2>1, <2>2, <2>3, ReleaseStep DEF KeyInv
<1>5. CASE RecvHideMouse
  <2>1. PICK d \in Flushed : ReleaseAllKeys(d)
    BY <1>5 DEF RecvHideMouse
  <2>2. d \in Devices /\ (Agrees(dev) => Agrees(d))
    BY FlushedOK
  <2>3. WireOK' /\ wire' = <<>>
    BY <1>5 DEF RecvHideMouse, WireOK
  <2> QED BY <2>1, <2>2, <2>3, ReleaseStep DEF KeyInv
<1>6. CASE LinkDrops
  <2>1. ReleaseAllKeys(dev) /\ WireOK' /\ wire' = <<>>
    BY <1>6 DEF LinkDrops, WireOK
  <2>2. dev \in Devices
    BY DEF KeyInv
  <2> QED BY <2>1, <2>2, ReleaseStep DEF KeyInv
<1>7. CASE UNCHANGED vars
  BY <1>7 DEF KeyInv, HandlerOK, WireOK
<1> QED BY <1>1, <1>2, <1>3, <1>4, <1>5, <1>6, <1>7 DEF Next

----------------------------------------------------------------------------
(* The map of pressed keys agrees with the device until a release fails,   *)
(* so ReleaseAll misses no key.                                            *)
THEOREM Tracked == Spec => []TrackedKeys
<1>1. KeyInv => TrackedKeys
  BY DEF KeyInv, TrackedKeys
<1> QED BY <1>1, KeyInit, KeyStep, PTL DEF Spec

(* No key is left down when the cursor leaves or the link drops, and no    *)
(* Ctrl that was held back appears later.                                  *)
THEOREM HeldNowhere == Spec => []NothingHeldAway
<1>1. KeyInv => NothingHeldAway
  BY DEF KeyInv, NothingHeldAway
<1> QED BY <1>1, KeyInit, KeyStep, PTL DEF Spec

----------------------------------------------------------------------------
(***************************************************************************)
(* No stuck key.  In the middle of a stroke, too, every key that is down,  *)
(* and the Ctrl held back, is produced by a key the user holds or lifted   *)
(* by a packet still to come.  Dropping a release is safe because no Ctrl  *)
(* is down while one is about to be dropped.                               *)
(***************************************************************************)
Produced(ks) ==
  (ks \ {"altgr"}) \cup (IF "altgr" \in ks THEN {"lctrl", "ralt"} ELSE {})

Lifts(w) == {w[i].code : i \in {j \in DOMAIN w : w[j].up}}

Explained == Produced(typed) \cup Lifts(wire)

StrokeInv ==
  /\ leaked => failed
  /\ \A i \in DOMAIN wire : ~wire[i].up => wire[i].code \in Produced(typed)
  /\ ~failed /\ ~mixed /\ here =>
       /\ dev.kernel \subseteq Explained
       /\ pendingCtrl => pendingCtrlCode \in Explained
       /\ suppressCtrlUp => dev.kernel \cap Ctrls = {}

\* The first packet of the wire, and what it leaves to explain a key by.
LEMMA WireHead ==
  ASSUME WireOK, wire # <<>>
  PROVE  /\ \A c \in Lifts(wire) :
              c \in Lifts(Tail(wire)) \/ (Head(wire).up /\ c = Head(wire).code)
         /\ 1 \in DOMAIN wire /\ Head(wire) = wire[1]
         /\ \A i \in DOMAIN Tail(wire) :
              i + 1 \in DOMAIN wire /\ Tail(wire)[i] = wire[i + 1]
<1>1. CASE \E p \in Packets : wire = <<p>>
  BY <1>1 DEF Lifts
<1>2. CASE \E p \in Packets, q \in Packets : wire = <<p, q>>
  <2>1. PICK p \in Packets, q \in Packets : wire = <<p, q>>
    BY <1>2
  <2>2. /\ DOMAIN wire = {1, 2} /\ wire[1] = p /\ wire[2] = q /\ Head(wire) = p
        /\ Tail(wire) = <<q>> /\ DOMAIN Tail(wire) = {1} /\ Tail(wire)[1] = q
    BY <2>1
  <2> QED BY <2>2 DEF Lifts
<1> QED BY <1>1, <1>2 DEF WireOK

\* One key packet, when E explains what it is not about to lift.
LEMMA KeyExplained ==
  ASSUME KeyInv, NEW p \in Packets, HandleKeyboard(p), ~failed', NEW E,
         \A c \in dev.kernel : c \in E \/ (p.up /\ c = p.code),
         pendingCtrl => pendingCtrlCode \in E
                          \/ (p.up /\ pendingCtrlCode = p.code),
         ~p.up => p.code \in E,
         suppressCtrlUp => dev.kernel \cap Ctrls = {}
  PROVE  ~failed /\ dev'.kernel \subseteq E /\ (pendingCtrl' => pendingCtrlCode' \in E)
<1>p. pendingCtrl => pendingCtrlCode \in Ctrls
  BY DEF KeyInv, HandlerOK
<1>1. CASE CtrlDown(p)
  BY <1>1 DEF CtrlDown
<1>2. CASE CtrlTap(p)
  <2>1. /\ ~failed /\ dev' = KeyUp(KeyDown(dev, p.code), p.code)
        /\ p.up /\ ~pendingCtrl'
    BY <1>2 DEF CtrlTap, Attempt
  <2>2. dev'.kernel = (dev.kernel \cup {p.code}) \ {p.code}
    BY <2>1 DEF KeyUp, KeyDown
  <2> QED BY <2>1, <2>2
<1>3. CASE CtrlUpDropped(p)
  BY <1>3 DEF CtrlUpDropped
<1>4. CASE AltGrDown(p)
  <2>1. /\ ~failed /\ dev' = KeyDown(dev, p.code)
        /\ ~p.up /\ ~pendingCtrl'
    BY <1>4 DEF AltGrDown, Attempt
  <2>2. dev'.kernel = dev.kernel \cup {p.code}
    BY <2>1 DEF KeyDown
  <2> QED BY <2>1, <2>2
<1>5. CASE OrdinaryKey(p)
  <2> DEFINE flushed == IF pendingCtrl THEN KeyDown(dev, pendingCtrlCode) ELSE dev
  <2>1. ~failed /\ dev' = Act(flushed, p) /\ ~pendingCtrl'
    BY <1>5 DEF OrdinaryKey, Attempt
  <2>2. pendingCtrl => pendingCtrlCode \in E \/ (p.up /\ pendingCtrlCode = p.code)
    OBVIOUS
  <2>3. \A c \in flushed.kernel : c \in E \/ (p.up /\ c = p.code)
    BY <2>2 DEF KeyDown
  <2> HIDE DEF flushed
  <2>4. CASE p.up
    <3>1. dev'.kernel = flushed.kernel \ {p.code}
      BY <2>1, <2>4 DEF Act, KeyUp
    <3> QED BY <2>1, <2>3, <3>1
  <2>5. CASE ~p.up
    <3>1. dev'.kernel = flushed.kernel \cup {p.code}
      BY <2>1, <2>5 DEF Act, KeyDown
    <3> QED BY <2>1, <2>3, <2>5, <3>1
  <2> QED BY <2>4, <2>5
<1> QED BY <1>1, <1>2, <1>3, <1>4, <1>5 DEF HandleKeyboard

\* A stroke is explained by the keys held after it, or lifts what they were.
LEMMA StrokeExplained ==
  ASSUME NEW k \in Keys, NEW up \in BOOLEAN, NEW ks, NEW ls,
         ls = IF up THEN ks \ {k} ELSE ks \cup {k}, up => k \in ks
  PROVE  /\ Produced(ks) \subseteq Produced(ls) \cup Lifts(Stroke(k, up))
         /\ \A i \in DOMAIN Stroke(k, up) :
              ~Stroke(k, up)[i].up => Stroke(k, up)[i].code \in Produced(ls)
<1>1. CASE k # "altgr"
  <2>1. Stroke(k, up) = <<[code |-> k, up |-> up]>>
    BY <1>1 DEF Stroke, Packet
  <2>2. DOMAIN Stroke(k, up) = {1} /\ Stroke(k, up)[1].code = k /\ Stroke(k, up)[1].up = up
    BY <2>1
  <2>3. up => k \in Lifts(Stroke(k, up))
    BY <2>2 DEF Lifts
  <2> QED BY <1>1, <2>2, <2>3 DEF Produced
<1>2. CASE k = "altgr"
  <2> DEFINE a == IF up THEN "ralt" ELSE "lctrl"
             b == IF up THEN "lctrl" ELSE "ralt"
  <2>1. Stroke(k, up) = <<[code |-> a, up |-> up], [code |-> b, up |-> up]>>
    BY <1>2 DEF Stroke, Packet
  <2>2. /\ DOMAIN Stroke(k, up) = {1, 2}
        /\ Stroke(k, up)[1].code = a /\ Stroke(k, up)[1].up = up
        /\ Stroke(k, up)[2].code = b /\ Stroke(k, up)[2].up = up
    BY <2>1
  <2>3. up => {"ralt", "lctrl"} \subseteq Lifts(Stroke(k, up))
    BY <2>2 DEF Lifts
  <2> QED BY <1>2, <2>2, <2>3 DEF Produced
<1> QED BY <1>1, <1>2

LEMMA StrokeInit == ASSUME Init PROVE StrokeInv
BY DEF Init, StrokeInv

\* A flush presses an explained Ctrl.
LEMMA FlushExplained ==
  ASSUME KeyInv, StrokeInv, FlushPendingCtrl, ~failed', NEW E,
         dev.kernel \subseteq E, pendingCtrl => pendingCtrlCode \in E
  PROVE  ~failed /\ dev'.kernel \subseteq E /\ ~pendingCtrl'
<1>1. CASE pendingCtrl
  <2>1. ~failed /\ dev' = KeyDown(dev, pendingCtrlCode)
    BY <1>1 DEF FlushPendingCtrl, Attempt
  <2> QED BY <1>1, <2>1 DEF KeyDown, FlushPendingCtrl
<1>2. CASE ~pendingCtrl
  BY <1>2 DEF FlushPendingCtrl
<1> QED BY <1>1, <1>2

\* A release of all keys that failed nowhere leaves nothing to explain.
LEMMA ReleaseExplained ==
  ASSUME KeyInv, StrokeInv, wire' = <<>>,
         \E d \in Devices : (Agrees(dev) => Agrees(d)) /\ ReleaseAllKeys(d)
  PROVE  StrokeInv'
<1>1. PICK d \in Devices : (Agrees(dev) => Agrees(d)) /\ ReleaseAllKeys(d)
  OBVIOUS
<1>2. /\ ~pendingCtrl' /\ ~suppressCtrlUp'
      /\ ~leaked' => dev'.kernel = {}
  BY <1>1, ReleaseStep
<1>3. leaked' => failed'
  BY <1>1 DEF ReleaseAllKeys, StrokeInv
<1> QED BY <1>2, <1>3 DEF StrokeInv

LEMMA StrokeStep == ASSUME KeyInv, StrokeInv, [Next]_vars PROVE StrokeInv'
<1>l. leaked => failed
  BY DEF StrokeInv
<1>1. ASSUME NEW k \in Keys, NEW up \in BOOLEAN, Type(k, up) PROVE StrokeInv'
  <2>1. /\ Produced(typed) \subseteq Produced(typed') \cup Lifts(Stroke(k, up))
        /\ \A i \in DOMAIN Stroke(k, up) :
             ~Stroke(k, up)[i].up => Stroke(k, up)[i].code \in Produced(typed')
    BY <1>1, StrokeExplained DEF Type
  <2>2. /\ UNCHANGED <<failed, leaked, mixed, here, dev, handlerVars>>
        /\ wire = <<>> /\ wire' = IF here THEN Stroke(k, up) ELSE <<>>
    BY <1>1 DEF Type
  <2>3. \A i \in DOMAIN wire' : ~wire'[i].up => wire'[i].code \in Produced(typed')
    BY <2>1, <2>2
  <2>4. here => Explained \subseteq Explained'
    BY <2>1, <2>2 DEF Explained, Lifts
  <2> QED BY <2>2, <2>3, <2>4 DEF StrokeInv
<1>2. CASE RecvKeyboard
  <2> DEFINE p == Head(wire)
             E == Explained'
  <2>1. /\ wire # <<>> /\ HandleKeyboard(p) /\ wire' = Tail(wire)
        /\ UNCHANGED <<here, typed, leaked>> /\ NoteMixed
    BY <1>2 DEF RecvKeyboard
  <2>2. p \in Packets
    BY <2>1, WireTail DEF KeyInv
  <2>3. \A i \in DOMAIN wire' : ~wire'[i].up => wire'[i].code \in Produced(typed')
    BY <2>1, WireHead DEF StrokeInv, KeyInv
  <2>4. \A c \in Explained : c \in E \/ (p.up /\ c = p.code)
    BY <2>1, WireHead DEF Explained, KeyInv
  <2>5. ~p.up => p.code \in E
    BY <2>1, WireHead DEF Explained, StrokeInv, KeyInv
  <2>6. failed => failed'
    BY <2>1, <2>2 DEF HandleKeyboard, CtrlDown, CtrlTap, CtrlUpDropped, AltGrDown,
      OrdinaryKey, Attempt
  <2>7. ASSUME ~failed', ~mixed', here'
        PROVE  /\ dev'.kernel \subseteq E
               /\ pendingCtrl' => pendingCtrlCode' \in E
               /\ suppressCtrlUp' => dev'.kernel \cap Ctrls = {}
    <3>1. ~failed /\ ~mixed /\ here /\ (suppressCtrlUp' => dev'.kernel \cap Ctrls = {})
      BY <2>1, <2>6, <2>7 DEF NoteMixed
    <3>2. /\ dev.kernel \subseteq Explained
          /\ pendingCtrl => pendingCtrlCode \in Explained
          /\ suppressCtrlUp => dev.kernel \cap Ctrls = {}
      BY <3>1 DEF StrokeInv
    <3> HIDE DEF E, p
    <3> QED BY <2>1, <2>2, <2>4, <2>5, <2>7, <3>1, <3>2, KeyExplained
  <2> QED BY <1>l, <2>1, <2>3, <2>6, <2>7 DEF StrokeInv
<1>3. CASE RecvOther \/ RecvRejected
  <2>1. /\ FlushPendingCtrl /\ NoteMixed /\ UNCHANGED <<typed, wire, leaked>>
        /\ here \/ wire = <<>>
    BY <1>3 DEF RecvOther, RecvRejected
  <2>2. failed => failed'
    BY <2>1 DEF FlushPendingCtrl, Attempt
  <2>3. ASSUME ~failed', ~mixed'
        PROVE  /\ dev'.kernel \subseteq Explained /\ ~pendingCtrl'
               /\ suppressCtrlUp' => dev'.kernel \cap Ctrls = {}
    <3>1. ~failed /\ ~mixed /\ (suppressCtrlUp' => dev'.kernel \cap Ctrls = {})
      BY <2>1, <2>2, <2>3 DEF NoteMixed
    <3>2. /\ dev.kernel \subseteq Explained
          /\ pendingCtrl => pendingCtrlCode \in Explained
      BY <1>l, <3>1 DEF StrokeInv, KeyInv
    <3> QED BY <2>1, <2>3, <3>1, <3>2, FlushExplained
  <2> QED BY <1>l, <2>1, <2>2, <2>3 DEF StrokeInv, Explained
<1>4. CASE RecvMachineSwitched \/ RecvHideMouse
  BY <1>4, FlushedOK, ReleaseExplained DEF RecvMachineSwitched, RecvHideMouse
<1>5. CASE LinkDrops
  BY <1>5, ReleaseExplained DEF LinkDrops, KeyInv
<1>6. CASE UNCHANGED vars
  BY <1>6 DEF StrokeInv, Explained
<1> QED BY <1>1, <1>2, <1>3, <1>4, <1>5, <1>6 DEF Next

(* Between strokes, a key is down here only if the remote user holds a key *)
(* that produces it, unless a Ctrl was down when a release of a Ctrl was   *)
(* about to be dropped.                                                    *)
THEOREM NothingStuck == Spec => []NoStuckKey
<1>1. ASSUME StrokeInv PROVE NoStuckKey
  <2>1. wire = <<>> => Lifts(wire) = {}
    BY DEF Lifts
  <2> QED BY <1>1, <2>1 DEF StrokeInv, Explained, Produced, NoStuckKey
<1>2. Spec => [](KeyInv /\ StrokeInv)
  BY KeyInit, KeyStep, StrokeInit, StrokeStep, PTL DEF Spec
<1> QED BY <1>1, <1>2, PTL

----------------------------------------------------------------------------
(* The composition.  Whatever the mouse does, the keyboard takes only its  *)
(* own steps, so what holds of it alone holds in the whole handler.        *)
USE DEF InboundVars, mouseVars, trackVars

LEMMA OneUser == InboundSpec => [](user \in Users)
<1>1. InboundInit => user \in Users
  BY DEF InboundInit
<1>2. user \in Users /\ [InboundNext]_InboundVars => (user \in Users)'
  BY DEF InboundNext, UserTypes, UserClicksElsewhere, KeyPacket, OtherPacket,
    MovePacket, PressPacket, ReleasePacket, SwitchedPacket, RejectedPacket,
    HidePacket, LinkEnds
<1> QED BY <1>1, <1>2, PTL DEF InboundSpec

THEOREM ImplementsKeyboard == InboundSpec => Spec
<1>1. InboundInit => Init
  BY DEF InboundInit
<1>2. user \in Users /\ [InboundNext]_InboundVars => [Next]_vars
  <2> SUFFICES ASSUME user \in Users, [InboundNext]_InboundVars
               PROVE  [Next]_vars
    OBVIOUS
  <2>1. CASE UserTypes
    <3>1. user.keys \subseteq Keys
      BY UsersAssumption
    <3> QED BY <2>1, <3>1 DEF UserTypes, Next
  <2>2. CASE UserClicksElsewhere \/ UNCHANGED InboundVars
    BY <2>2 DEF UserClicksElsewhere
  <2>3. CASE \/ KeyPacket \/ OtherPacket \/ MovePacket \/ PressPacket
             \/ ReleasePacket \/ RejectedPacket
    BY <2>3 DEF KeyPacket, OtherPacket, MovePacket, PressPacket, ReleasePacket,
      RejectedPacket, Flush, Next
  <2>4. CASE SwitchedPacket \/ HidePacket \/ LinkEnds
    BY <2>4 DEF SwitchedPacket, HidePacket, LinkEnds, Next
  <2> QED BY <2>1, <2>2, <2>3, <2>4 DEF InboundNext
<1> QED BY <1>1, <1>2, OneUser, PTL DEF InboundSpec, Spec

(* In the composed handler, too, the map agrees with the device, no key is *)
(* held while the remote's cursor is elsewhere, and none gets stuck.       *)
THEOREM NoKeyLost ==
  InboundSpec => [](TrackedKeys /\ NothingHeldAway /\ NoStuckKey)
BY ImplementsKeyboard, Tracked, HeldNowhere, NothingStuck, PTL

\* A flush that was written leaves the Ctrl down.
LEMMA FlushPresses ==
  ASSUME KeyInv, pendingCtrl, FlushPendingCtrl, ~failed'
  PROVE  ~pendingCtrl' /\ pendingCtrlCode \in dev'.kernel
<1>1. dev' = KeyDown(dev, pendingCtrlCode)
  BY DEF FlushPendingCtrl, Attempt
<1> QED BY <1>1 DEF FlushPendingCtrl, KeyDown

\* An ordinary key that was written follows its Ctrl.
LEMMA OrdinaryFollows ==
  ASSUME KeyInv, pendingCtrl, KeyboardAssumption,
         NEW p \in Packets, p.code \in Plain, HandleKeyboard(p), ~failed'
  PROVE  ~pendingCtrl' /\ pendingCtrlCode \in dev'.kernel
<1>1. p.code \notin Ctrls /\ p.code # "ralt"
  BY DEF KeyboardAssumption, Ctrls
<1>2. OrdinaryKey(p)
  BY <1>1 DEF HandleKeyboard, CtrlDown, CtrlTap, CtrlUpDropped, AltGrDown
<1> DEFINE flushed == KeyDown(dev, pendingCtrlCode)
<1>3. dev' = Act(flushed, p)
  BY <1>2 DEF OrdinaryKey, Attempt
<1>4. pendingCtrlCode \in flushed.kernel /\ pendingCtrlCode # p.code
  BY <1>1 DEF KeyDown, KeyInv, HandlerOK
<1> HIDE DEF flushed
<1>5. pendingCtrlCode \in dev'.kernel
  BY <1>3, <1>4 DEF Act, KeyUp, KeyDown
<1> QED BY <1>2, <1>5 DEF OrdinaryKey

(* A shortcut keeps its Ctrl: nothing that is pressed, key or button,      *)
(* leaves a Ctrl held back behind it.                                      *)
THEOREM CtrlFirst == InboundSpec => CtrlGoesFirst
<1> DEFINE Ahead == pendingCtrl /\ here /\ here' /\ Pressed /\ ~failed'
                      => ~pendingCtrl' /\ pendingCtrlCode \in dev'.kernel
<1>1. KeyInv /\ [InboundNext]_InboundVars => [Ahead]_InboundVars
  <2> SUFFICES ASSUME KeyInv, InboundNext, pendingCtrl, here, here', Pressed, ~failed'
               PROVE  ~pendingCtrl' /\ pendingCtrlCode \in dev'.kernel
    OBVIOUS
  <2>1. CASE KeyPacket
    <3>1. down' = down
      BY <2>1 DEF KeyPacket
    <3>2. wire # <<>> /\ Head(wire).code \in Plain
      BY <3>1 DEF Pressed
    <3>3. Head(wire) \in Packets
      BY <3>2, WireTail DEF KeyInv
    <3>4. HandleKeyboard(Head(wire))
      BY <2>1 DEF KeyPacket, RecvKeyboard
    <3> QED BY <3>2, <3>3, <3>4, OrdinaryFollows, KeyboardAssumption
  <2>2. CASE OtherPacket \/ MovePacket \/ PressPacket \/ ReleasePacket \/ RejectedPacket
    <3>1. FlushPendingCtrl
      BY <2>2 DEF OtherPacket, MovePacket, PressPacket, ReleasePacket,
        RejectedPacket, Flush, RecvOther, RecvRejected
    <3> QED BY <3>1, FlushPresses
  <2>3. CASE UserTypes \/ UserClicksElsewhere \/ SwitchedPacket
    <3>1. (wire = <<>> \/ ~here) /\ down' = down
      BY <2>3 DEF UserTypes, Type, UserClicksElsewhere, UseElsewhere,
        SwitchedPacket, RecvMachineSwitched, StartSession
    <3> QED BY <3>1 DEF Pressed
  <2>4. CASE HidePacket \/ LinkEnds
    BY <2>4 DEF HidePacket, RecvHideMouse, LinkEnds, LinkDrops
  <2> QED BY <2>1, <2>2, <2>3, <2>4 DEF InboundNext
<1>2. InboundSpec => []KeyInv
  BY ImplementsKeyboard, KeyInit, KeyStep, PTL DEF Spec
<1> QED BY <1>1, <1>2, PTL DEF InboundSpec, CtrlGoesFirst

(***************************************************************************)
(* The tracker.  A session that has reported no position is unseeded.      *)
(***************************************************************************)
Unseeded == arriving => ~inSeeded

LEMMA MouseMoves ==
  ASSUME NEW x, NEW otherJumps, NEW ok, MoveInbound(x, otherJumps, ok)
  PROVE  ~arriving' /\ inSeeded' /\ (~inSeeded => inX' = lastInX')
BY DEF MoveInbound, Injected, IsJump

\* The steps of the composition, as the mouse sees them.
LEMMA MouseSees ==
  ASSUME [InboundNext]_InboundVars
  PROVE  \/ UNCHANGED <<trackVars, arriving>>
         \/ \E x \in user.spots, otherJumps \in BOOLEAN, ok \in BOOLEAN :
              MoveInbound(x, otherJumps, ok)
         \/ StartSession
         \/ EndSession
<1>1. CASE MovePacket \/ PressPacket \/ ReleasePacket
  BY <1>1 DEF MovePacket, PressPacket, ReleasePacket, HandleMove, PressButton,
    ReleaseButton
<1>2. CASE \/ UserTypes \/ UserClicksElsewhere \/ KeyPacket \/ OtherPacket
           \/ RejectedPacket \/ UNCHANGED InboundVars
  BY <1>2 DEF UserTypes, UserClicksElsewhere, UseElsewhere, KeyPacket,
    OtherPacket, RejectedPacket
<1>3. CASE SwitchedPacket \/ HidePacket \/ LinkEnds
  BY <1>3 DEF SwitchedPacket, HidePacket, LinkEnds
<1> QED BY <1>1, <1>2, <1>3 DEF InboundNext

(* Every session starts where the remote's cursor enters.                  *)
THEOREM Snaps == InboundSpec => EntrySnaps
<1>1. InboundInit => Unseeded
  BY DEF InboundInit, MouseInit, Unseeded
<1>2. Unseeded /\ [InboundNext]_InboundVars =>
        /\ Unseeded'
        /\ [arriving /\ inSeeded' => inX' = lastInX']_mouseVars
  <2> SUFFICES ASSUME Unseeded, [InboundNext]_InboundVars
               PROVE  /\ Unseeded'
                      /\ arriving /\ inSeeded' => inX' = lastInX'
    OBVIOUS
  <2>1. CASE UNCHANGED <<trackVars, arriving>>
    BY <2>1 DEF Unseeded
  <2>2. CASE \E x \in user.spots, otherJumps \in BOOLEAN, ok \in BOOLEAN :
               MoveInbound(x, otherJumps, ok)
    BY <2>2, MouseMoves DEF Unseeded
  <2>3. CASE StartSession \/ EndSession
    BY <2>3 DEF StartSession, EndSession, Unseeded
  <2> QED BY <2>1, <2>2, <2>3, MouseSees
<1> QED BY <1>1, <1>2, PTL DEF InboundSpec, EntrySnaps

(***************************************************************************)
(* The step of a report that is no jump: scaling keeps the order of        *)
(* distances, and clamping never lengthens a step from a screen position.  *)
(***************************************************************************)
LEMMA TimesMonotone ==
  ASSUME NEW a \in Nat, NEW b \in Nat, NEW n \in Nat, a <= b
  PROVE  a * n \in Nat /\ b * n \in Nat /\ a * n <= b * n
<1>1. PICK c \in Nat : b = a + c
  <2>1. b - a \in Nat /\ b = a + (b - a)
    OBVIOUS
  <2> QED BY <2>1
<1>2. b * n = a * n + c * n /\ c * n \in Nat /\ a * n \in Nat /\ b * n \in Nat
  BY <1>1
<1> QED BY <1>2

LEMMA DivMonotone ==
  ASSUME NEW a \in Nat, NEW b \in Nat, NEW n \in Nat \ {0}, a <= b
  PROVE  a \div n \in Nat /\ b \div n \in Nat /\ a \div n <= b \div n
<1> DEFINE p == a \div n
           q == b \div n
<1>1. p \in Nat /\ q \in Nat
  OBVIOUS
<1>2. n * p <= a /\ b < n * q + n
  <2>1. a = n * p + (a % n) /\ a % n \in 0 .. n - 1
    OBVIOUS
  <2>2. b = n * q + (b % n) /\ b % n \in 0 .. n - 1
    OBVIOUS
  <2> QED BY <2>1, <2>2, <1>1
<1> HIDE DEF p, q
<1>3. ASSUME p >= q + 1 PROVE FALSE
  <2>1. (q + 1) * n <= p * n
    BY <1>1, <1>3, TimesMonotone
  <2>2. (q + 1) * n = n * q + n /\ p * n = n * p
    BY <1>1
  <2> QED BY <2>1, <2>2, <1>1, <1>2
<1> QED BY <1>1, <1>3 DEF p, q

LEMMA Negated ==
  ASSUME NEW z \in Int, NEW n \in Nat
  PROVE  -(z * n) = (-z) * n
OBVIOUS

LEMMA ScaledBound ==
  ASSUME NEW x \in Positions, NEW y \in Positions, MouseAssumption,
         gain \in Gains, Dist(x, y) <= JumpThreshold
  PROVE  /\ Scaled(x - y) \in Int /\ Scaled(JumpThreshold) \in Nat
         /\ Scaled(x - y) <= Scaled(JumpThreshold)
         /\ -Scaled(JumpThreshold) <= Scaled(x - y)
<1>1. gain[1] \in Nat /\ gain[2] \in Nat \ {0}
  BY DEF MouseAssumption
<1>2. x \in Int /\ y \in Int /\ JumpThreshold \in Nat
  BY DEF MouseAssumption, Positions
<1> DEFINE d == Dist(x, y)
           near == (d * gain[1]) \div gain[2]
           far  == (JumpThreshold * gain[1]) \div gain[2]
<1>3. d \in Nat
  BY <1>2 DEF Dist
<1>4. (d * gain[1]) \in Nat /\ (JumpThreshold * gain[1]) \in Nat
      /\ d * gain[1] <= JumpThreshold * gain[1]
  BY <1>1, <1>2, <1>3, TimesMonotone
<1>5. near \in Nat /\ far \in Nat /\ near <= far
  BY <1>1, <1>4, DivMonotone
<1>6. Scaled(JumpThreshold) = far
  BY <1>2 DEF Scaled
<1>7. Scaled(x - y) = near \/ Scaled(x - y) = -near
  <2>1. CASE x < y
    <3>1. x - y < 0 /\ d = -(x - y)
      BY <1>2, <2>1 DEF Dist
    <3>2. -((x - y) * gain[1]) = d * gain[1]
      BY <3>1, <1>1, <1>2, <1>3, Negated
    <3> QED BY <3>1, <3>2 DEF Scaled
  <2>2. CASE ~(x < y)
    <3>1. ~(x - y < 0) /\ d = x - y
      BY <1>2, <2>2 DEF Dist
    <3> QED BY <3>1 DEF Scaled
  <2> QED BY <2>1, <2>2
<1> HIDE DEF near, far
<1> QED BY <1>5, <1>6, <1>7

\* One report, from a tracker whose pointer is where it says.
Tracker ==
  /\ gain \in Gains /\ inX \in Positions /\ lastInX \in Positions
  /\ pointer \in Positions
  /\ ~astray => pointer = inX

LEMMA ReportStep ==
  ASSUME Tracker, MouseAssumption, NEW x \in Positions, NEW otherJumps \in BOOLEAN,
         NEW ok \in BOOLEAN, MoveInbound(x, otherJumps, ok), UNCHANGED gain
  PROVE  /\ Tracker'
         /\ pointer' # pointer /\ ~astray =>
              pointer' = lastInX' \/ Dist(pointer', pointer) <= Scaled(JumpThreshold)
<1>m. /\ inX' = Injected(x, otherJumps) /\ lastInX' = x /\ astray' = ~ok
      /\ pointer' = inX' \/ (~ok /\ pointer' = pointer)
  BY DEF MoveInbound
<1>i. inX \in Int /\ x \in Int /\ ScreenMax \in Nat
  BY DEF Tracker, MouseAssumption, Positions
<1>1. CASE inX' = x
  BY <1>1, <1>m DEF Tracker
<1>2. CASE inX' # x
  <2> DEFINE s == Scaled(x - lastInX)
             t == Scaled(JumpThreshold)
  <2>1. ~IsJump(x, otherJumps) /\ inX' = Clamp65535(inX + s)
    BY <1>2, <1>m DEF Injected
  <2>2. Dist(x, lastInX) <= JumpThreshold
    BY <2>1, <1>i DEF IsJump, Dist, Tracker, Positions, MouseAssumption
  <2>3. s \in Int /\ t \in Nat /\ s <= t /\ -t <= s
    BY <2>2, ScaledBound DEF Tracker
  <2> HIDE DEF s, t
  <2>4. inX' \in Positions /\ Dist(inX', inX) <= t
    BY <2>1, <2>3, <1>i DEF Clamp65535, Dist, Tracker, Positions
  <2>5. Tracker'
    BY <1>m, <2>4 DEF Tracker
  <2> QED BY <1>m, <2>4, <2>5 DEF Tracker, t
<1> QED BY <1>1, <1>2

(* The pointer stays on the screen and is never sent flying: it follows a  *)
(* report or moves by no more than the scaled threshold.                   *)
THEOREM PointerBounded == InboundSpec => NeverFlies
<1> DEFINE Moves ==
     /\ pointer' \in Positions
     /\ pointer' # pointer /\ ~astray =>
          pointer' = lastInX' \/ Dist(pointer', pointer) <= Scaled(JumpThreshold)
<1>1. InboundInit => Tracker
  BY MouseAssumption DEF InboundInit, MouseInit, Tracker, Positions, MouseAssumption
<1>2. user \in Users /\ Tracker /\ [InboundNext]_InboundVars
        => Tracker' /\ [Moves]_mouseVars
  <2> SUFFICES ASSUME user \in Users, Tracker, [InboundNext]_InboundVars
               PROVE  Tracker' /\ Moves
    OBVIOUS
  <2>s. user.spots \subseteq Positions
    BY UsersAssumption
  <2>1. CASE MovePacket \/ PressPacket \/ ReleasePacket
    <3>1. PICK x \in Positions, far \in BOOLEAN, ok \in BOOLEAN :
            MoveInbound(x, far, ok) /\ UNCHANGED gain
      <4>1. CASE MovePacket
        BY <4>1, <2>s DEF MovePacket, HandleMove
      <4>2. CASE PressPacket
        BY <4>2, <2>s DEF PressPacket, PressButton
      <4>3. CASE ReleasePacket
        BY <4>3, <2>s DEF ReleasePacket, ReleaseButton
      <4> QED BY <2>1, <4>1, <4>2, <4>3
    <3>2. Tracker' /\ (pointer' # pointer /\ ~astray =>
              pointer' = lastInX' \/ Dist(pointer', pointer) <= Scaled(JumpThreshold))
      BY <3>1, ReportStep, MouseAssumption
    <3> QED BY <3>2 DEF Tracker
  <2>2. CASE ~(MovePacket \/ PressPacket \/ ReleasePacket)
    <3>1. UNCHANGED <<gain, inX, lastInX, pointer, astray>>
      BY <2>2 DEF InboundNext, UserTypes, UserClicksElsewhere, UseElsewhere,
        KeyPacket, OtherPacket, SwitchedPacket, StartSession, RejectedPacket,
        HidePacket, EndSession, LinkEnds
    <3> QED BY <3>1 DEF Tracker
  <2> QED BY <2>1, <2>2
<1> QED BY <1>1, <1>2, OneUser, PTL DEF InboundSpec, NeverFlies

(***************************************************************************)
(* The buttons.  While the cursor is elsewhere every button that is down   *)
(* was stranded; a click sets its button right.                            *)
(***************************************************************************)
Held == {BtnCode(b) : b \in holds}
ButtonsKnown == down \subseteq (IF here THEN Held ELSE {}) \cup stranded

LEMMA ButtonStep ==
  ASSUME here \in BOOLEAN, ButtonsKnown, [InboundNext]_InboundVars
  PROVE  ButtonsKnown'
<1> USE DEF ButtonsKnown, Held
<1>1. CASE PressPacket
  <2>1. UNCHANGED here
    BY <1>1 DEF PressPacket, Flush, RecvOther
  <2>2. PICK x \in user.spots, b \in user.buttons : PressButton(x, b)
    BY <1>1 DEF PressPacket
  <2> QED BY <2>1, <2>2, <1>1 DEF PressButton, PressPacket, Flush, RecvOther
<1>2. CASE ReleasePacket
  <2>1. UNCHANGED here /\ here
    BY <1>2 DEF ReleasePacket, Flush, RecvOther
  <2>2. PICK x \in user.spots, b \in user.buttons : ReleaseButton(x, b)
    BY <1>2 DEF ReleasePacket
  <2> QED BY <2>1, <2>2 DEF ReleaseButton
<1>3. CASE UserTypes \/ KeyPacket \/ OtherPacket \/ MovePacket
  BY <1>3 DEF UserTypes, Type, KeyPacket, RecvKeyboard, OtherPacket, RecvOther,
    MovePacket, Flush, HandleMove
<1>4. CASE UserClicksElsewhere
  <2>1. ~here /\ UNCHANGED <<here, down, stranded>>
    BY <1>4 DEF UserClicksElsewhere, UseElsewhere, vars, remoteVars
  <2> QED BY <2>1
<1>5. CASE RejectedPacket
  <2>1. here' = TRUE /\ UNCHANGED <<down, holds, stranded>>
    BY <1>5 DEF RejectedPacket, RecvRejected, mouseVars
  <2> QED BY <2>1
<1>6. CASE SwitchedPacket \/ HidePacket \/ LinkEnds
  BY <1>6 DEF SwitchedPacket, HidePacket, LinkEnds, StartSession, EndSession
<1>7. CASE UNCHANGED InboundVars
  BY <1>7
<1> QED BY <1>1, <1>2, <1>3, <1>4, <1>5, <1>6, <1>7 DEF InboundNext

(* A button is down only if its user holds it or its release had no way    *)
(* to arrive.                                                              *)
THEOREM NoButtonStuck == InboundSpec => []ButtonsFollow
<1>1. InboundInit => ButtonsKnown
  BY DEF InboundInit, MouseInit, ButtonsKnown
<1>2. InboundSpec => [](here \in BOOLEAN)
  <2>1. InboundInit => here \in BOOLEAN
    BY DEF InboundInit, Init
  <2>2. here \in BOOLEAN /\ [InboundNext]_InboundVars => (here \in BOOLEAN)'
    BY DEF InboundNext, UserTypes, Type, UserClicksElsewhere, KeyPacket,
      RecvKeyboard, OtherPacket, RecvOther, MovePacket, PressPacket,
      ReleasePacket, Flush, SwitchedPacket, RecvMachineSwitched,
      RejectedPacket, RecvRejected, HidePacket, RecvHideMouse, LinkEnds,
      LinkDrops
  <2> QED BY <2>1, <2>2, PTL DEF InboundSpec
<1>3. ButtonsKnown => ButtonsFollow
  BY DEF ButtonsKnown, Held, ButtonsFollow
<1> QED BY <1>1, <1>2, <1>3, ButtonStep, PTL DEF InboundSpec
============================================================================
