------------------------------ MODULE Inbound ------------------------------
(***************************************************************************)
(* network.Handler as a whole: the keyboard of InboundKeyboard and the     *)
(* mouse of InboundMouse share one stream of packets and one session.      *)
(* Each packet that is no key first flushes a Ctrl that is held back; the  *)
(* session's start and end act on both devices, differently.  One action   *)
(* is one packet, as in HandlePacket.                                      *)
(***************************************************************************)
EXTENDS InboundKeyboard, InboundMouse

CONSTANT
  Users  \* what remote users do: [keys, buttons, spots: sets of what they
         \*   use, gain: the multiplier in use]; one is chosen for a behaviour

ASSUME UsersAssumption ==
  Users \subseteq [keys : SUBSET Keys, buttons : SUBSET Buttons,
                   spots : SUBSET Positions, gain : Gains]

VARIABLE user

InboundVars == <<vars, mouseVars, user>>

InboundInit ==
  /\ Init /\ MouseInit
  /\ user \in Users /\ gain = user.gain

----------------------------------------------------------------------------
(* The remote user.                                                        *)

UserTypes ==
  /\ \E k \in user.keys, up \in BOOLEAN : Type(k, up)
  /\ UNCHANGED <<mouseVars, user>>

UserClicksElsewhere ==
  /\ ~here
  /\ \E b \in user.buttons : UseElsewhere(b)
  /\ UNCHANGED <<vars, user>>

----------------------------------------------------------------------------
(* The packets.                                                            *)

KeyPacket == RecvKeyboard /\ UNCHANGED <<mouseVars, user>>

\* A packet that is neither key nor mouse and is not about the session.
OtherPacket == RecvOther /\ UNCHANGED <<mouseVars, user>>

FlushNothing == here /\ UNCHANGED vars                            \* mutant
Flush == RecvOther

MovePacket ==
  /\ Flush
  /\ \E x \in user.spots, far \in BOOLEAN : HandleMove(x, far)
  /\ UNCHANGED user

PressPacket ==
  /\ Flush
  /\ \E x \in user.spots, b \in user.buttons : PressButton(x, b)
  /\ UNCHANGED user

ReleasePacket ==
  /\ Flush
  /\ \E x \in user.spots, b \in user.buttons : ReleaseButton(x, b)
  /\ UNCHANGED user

SwitchedPacket == RecvMachineSwitched /\ StartSession /\ UNCHANGED user

RejectedPacket == RecvRejected /\ UNCHANGED <<mouseVars, user>>

HidePacket == RecvHideMouse /\ EndSession /\ UNCHANGED user

\* The receive loop ends; the next connection has the same Handler.
LinkEnds == LinkDrops /\ EndSession /\ UNCHANGED user

InboundNext ==
  \/ UserTypes \/ UserClicksElsewhere
  \/ KeyPacket \/ OtherPacket \/ MovePacket \/ PressPacket \/ ReleasePacket
  \/ SwitchedPacket \/ RejectedPacket \/ HidePacket \/ LinkEnds

InboundSpec == InboundInit /\ [][InboundNext]_InboundVars

----------------------------------------------------------------------------
(* Properties, beyond those of the two devices.                            *)

\* No stuck button: while the cursor is here, a button is down only if the
\* remote user holds it.  The exceptions are buttons that were down when a
\* session ended, which nothing releases, and releases that could not be
\* written (handler.go:134-183); the next click of that button frees it.
ButtonsFollow ==
  here => down \subseteq {BtnCode(b) : b \in holds} \cup stranded

\* A shortcut keeps its Ctrl: whatever is pressed, a key or a button, no
\* Ctrl is still held back behind it (handler.go:67-71, 282-285).
Pressed == \/ wire # <<>> /\ wire' = Tail(wire) /\ Head(wire).code \in Plain
           \/ down' # down

CtrlGoesFirst ==
  [][pendingCtrl /\ here /\ here' /\ Pressed /\ ~failed'
       => ~pendingCtrl' /\ pendingCtrlCode \in dev'.kernel]_InboundVars
============================================================================
