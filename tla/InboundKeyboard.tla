-------------------------- MODULE InboundKeyboard --------------------------
(***************************************************************************)
(* Inbound keys: network.Handler (internal/network/handler.go) turns the   *)
(* remote user's keystrokes into events of the uinput keyboard             *)
(* (internal/input/uinput.go).  Two mechanisms interact:                   *)
(*   - a Ctrl-down is held back until the next packet tells whether it is  *)
(*     the one Windows synthesizes before AltGr (handlePendingCtrl);       *)
(*   - every key still down is lifted when the cursor leaves, when a new   *)
(*     session starts and when the link drops (releaseAllKeys).            *)
(*                                                                         *)
(* Packets are handled one at a time by the receive loop, which also       *)
(* releases the keys after the link dropped; one action is one packet.     *)
(* The remote side is the environment: its user types on any keys, its     *)
(* packets arrive in order, and other packets may come between the two     *)
(* that one AltGr stroke makes.  A packet with an unmapped key changes     *)
(* nothing and is left out.                                                *)
(*                                                                         *)
(* A definition marked "mutant" is a plausible bug, used by no other       *)
(* definition: put in place of the one that follows, it must break a       *)
(* property.                                                               *)
(***************************************************************************)
EXTENDS Sequences

CONSTANTS
  Plain,         \* ordinary keys
  Modifiers,     \* modifier keys of the remote keyboard
  WritesMayFail  \* whether a write to /dev/uinput may fail

Ctrls == {"lctrl", "rctrl"}

ASSUME KeyboardAssumption ==
  /\ Modifiers \subseteq {"lctrl", "rctrl", "ralt", "altgr"}
  /\ Plain \cap {"lctrl", "rctrl", "ralt", "altgr"} = {}
  /\ WritesMayFail \in BOOLEAN

Keys  == Plain \cup Modifiers
Codes == Plain \cup {"lctrl", "rctrl", "ralt"}

VARIABLES
  \* Handler
  pendingCtrl, pendingCtrlCode, suppressCtrlUp,
  \* VirtualKeyboard
  dev,      \* [kernel: keys down in the input device, pressed: as tracked]
  \* the remote
  here,     \* the remote's cursor is on this machine
  typed,    \* keys the remote user holds
  wire,     \* packets of the last stroke still to arrive
  \* history
  failed,   \* a write to the device failed
  leaked,   \* a release failed
  mixed     \* in this session, a Ctrl was down here while the release of a
            \*   Ctrl was about to be dropped

handlerVars == <<pendingCtrl, pendingCtrlCode, suppressCtrlUp>>
remoteVars  == <<here, typed, wire>>
histVars    == <<failed, leaked, mixed>>
vars == <<handlerVars, dev, remoteVars, histVars>>

----------------------------------------------------------------------------
(* The uinput keyboard.  The key map is updated only after a write that    *)
(* succeeded, except in ReleaseAll, which empties it first.                *)

KeyDownUntracked(d, code) == [d EXCEPT !.kernel = @ \cup {code}]  \* mutant
KeyDown(d, code) ==
  [kernel |-> d.kernel \cup {code}, pressed |-> d.pressed \cup {code}]

KeyUp(d, code) ==
  [kernel |-> d.kernel \ {code}, pressed |-> d.pressed \ {code}]

\* stuck: the keys whose release could not be written.
ReleaseAll(d, stuck) ==
  [kernel |-> d.kernel \ (d.pressed \ stuck), pressed |-> {}]

\* The device after a write that gives d or, failing, e.
Attempt(d, e) ==
  \/ dev' = d /\ UNCHANGED failed
  \/ WritesMayFail /\ dev' = e /\ failed' = TRUE

----------------------------------------------------------------------------
(* The handler, by kind of packet.                                         *)

Packet(code, up) == [code |-> code, up |-> up]
Packets == [code : Codes, up : BOOLEAN]

Act(d, p) == IF p.up THEN KeyUp(d, p.code) ELSE KeyDown(d, p.code)

\* Ctrl goes down: held back.
CtrlDown(p) ==
  /\ p.code \in Ctrls /\ ~p.up
  /\ pendingCtrl' = TRUE /\ pendingCtrlCode' = p.code
  /\ UNCHANGED <<suppressCtrlUp, dev, failed>>

\* Ctrl was only tapped.
CtrlTapDown(p) ==                                              \* mutant
  /\ p.code \in Ctrls /\ p.up /\ pendingCtrl
  /\ pendingCtrl' = FALSE
  /\ Attempt(KeyDown(dev, p.code), dev)
  /\ UNCHANGED <<pendingCtrlCode, suppressCtrlUp>>

CtrlTap(p) ==
  /\ p.code \in Ctrls /\ p.up /\ pendingCtrl
  /\ pendingCtrl' = FALSE
  /\ \/ Attempt(KeyUp(KeyDown(dev, p.code), p.code), dev)
     \/ WritesMayFail /\ dev' = KeyDown(dev, p.code) /\ failed' = TRUE
  /\ UNCHANGED <<pendingCtrlCode, suppressCtrlUp>>

\* The release of a Ctrl that was dropped.
CtrlUpDropped(p) ==
  /\ p.code \in Ctrls /\ p.up /\ ~pendingCtrl /\ suppressCtrlUp
  /\ suppressCtrlUp' = FALSE
  /\ UNCHANGED <<pendingCtrl, pendingCtrlCode, dev, failed>>

\* Right Alt right after Ctrl: it is AltGr, and that Ctrl is dropped.
AltGrDown(p) ==
  /\ p.code = "ralt" /\ ~p.up /\ pendingCtrl
  /\ pendingCtrl' = FALSE /\ suppressCtrlUp' = TRUE
  /\ Attempt(KeyDown(dev, p.code), dev)
  /\ UNCHANGED pendingCtrlCode

\* Any other key: a Ctrl that was held back goes first.
OrdinaryKey(p) ==
  /\ ~(p.code \in Ctrls /\ (~p.up \/ pendingCtrl \/ suppressCtrlUp))
  /\ ~(p.code = "ralt" /\ ~p.up /\ pendingCtrl)
  /\ pendingCtrl' = FALSE
  /\ LET flushed == IF pendingCtrl THEN KeyDown(dev, pendingCtrlCode) ELSE dev
     IN  \/ Attempt(Act(flushed, p), flushed)
         \/ pendingCtrl /\ WritesMayFail /\ dev' = dev /\ failed' = TRUE
  /\ UNCHANGED <<pendingCtrlCode, suppressCtrlUp>>

\* handleKeyboard.
HandleKeyboard(p) ==
  CtrlDown(p) \/ CtrlTap(p) \/ CtrlUpDropped(p) \/ AltGrDown(p) \/ OrdinaryKey(p)

\* flushPendingCtrl ahead of any packet that is no key.
FlushPendingCtrl ==
  /\ pendingCtrl' = FALSE
  /\ IF pendingCtrl THEN Attempt(KeyDown(dev, pendingCtrlCode), dev)
                    ELSE UNCHANGED <<dev, failed>>
  /\ UNCHANGED <<pendingCtrlCode, suppressCtrlUp>>

\* releaseAllKeys on the device d; the keys that stay stuck may be any.
ReleaseKeepingChord(d) ==                                      \* mutant
  /\ UNCHANGED <<pendingCtrl, pendingCtrlCode, suppressCtrlUp>>
  /\ dev' = ReleaseAll(d, {}) /\ UNCHANGED <<failed, leaked>>

ReleaseAllKeys(d) ==
  /\ pendingCtrl' = FALSE /\ suppressCtrlUp' = FALSE
  /\ UNCHANGED pendingCtrlCode
  /\ \E stuck \in IF WritesMayFail THEN SUBSET d.pressed ELSE {{}} :
       /\ dev' = ReleaseAll(d, stuck)
       /\ failed' = (failed \/ stuck # {})
       /\ leaked' = (leaked \/ stuck # {})

\* The device when a packet that is no key has flushed a Ctrl held back.
Flushed == IF pendingCtrl THEN {KeyDown(dev, pendingCtrlCode)}
                                 \cup (IF WritesMayFail THEN {dev} ELSE {})
                          ELSE {dev}

----------------------------------------------------------------------------
Init ==
  /\ pendingCtrl = FALSE /\ pendingCtrlCode = "none" /\ suppressCtrlUp = FALSE
  /\ dev = [kernel |-> {}, pressed |-> {}]
  /\ here = FALSE /\ typed = {} /\ wire = <<>>
  /\ failed = FALSE /\ leaked = FALSE /\ mixed = FALSE

\* The packets of a stroke: AltGr comes with a left Ctrl.
Stroke(k, up) ==
  IF k # "altgr" THEN <<Packet(k, up)>>
  ELSE IF up THEN <<Packet("ralt", TRUE), Packet("lctrl", TRUE)>>
             ELSE <<Packet("lctrl", FALSE), Packet("ralt", FALSE)>>

\* The remote user presses, keeps holding (auto-repeat) or releases a key.
\* Only a remote whose cursor is here sends it to us.
Type(k, up) ==
  /\ wire = <<>>
  /\ up => k \in typed
  /\ typed' = IF up THEN typed \ {k} ELSE typed \cup {k}
  /\ wire' = IF here THEN Stroke(k, up) ELSE <<>>
  /\ UNCHANGED <<handlerVars, dev, here, histVars>>

NoteMixed == mixed' = (mixed \/ (suppressCtrlUp' /\ dev'.kernel \cap Ctrls # {}))

RecvKeyboard ==
  /\ wire # <<>>
  /\ HandleKeyboard(Head(wire))
  /\ wire' = Tail(wire)
  /\ NoteMixed
  /\ UNCHANGED <<here, typed, leaked>>

\* A mouse or clipboard packet.
RecvOther ==
  /\ here
  /\ FlushPendingCtrl
  /\ NoteMixed
  /\ UNCHANGED <<remoteVars, leaked>>

\* The remote's cursor comes to us by a MachineSwitched that ShouldActivate
\* rejects: for the remote it is here all the same.
RecvRejected ==
  /\ wire = <<>>
  /\ FlushPendingCtrl
  /\ NoteMixed
  /\ here' = TRUE
  /\ UNCHANGED <<typed, wire, leaked>>

\* The remote's cursor comes to us: a MachineSwitched that is accepted.
RecvMachineSwitched ==
  /\ wire = <<>>
  /\ \E d \in Flushed : ReleaseAllKeys(d)
  /\ here' = TRUE
  /\ mixed' = FALSE
  /\ UNCHANGED <<typed, wire>>

\* ... and leaves again, possibly in the middle of a stroke.
RecvHideMouse ==
  /\ here
  /\ \E d \in Flushed : ReleaseAllKeys(d)
  /\ here' = FALSE /\ wire' = <<>>
  /\ UNCHANGED <<typed, mixed>>

\* The link drops; the next connection starts with the same Handler.
LinkDrops ==
  /\ ReleaseAllKeys(dev)
  /\ here' = FALSE /\ wire' = <<>>
  /\ UNCHANGED <<typed, mixed>>

Next ==
  \/ \E k \in Keys, up \in BOOLEAN : Type(k, up)
  \/ RecvKeyboard \/ RecvOther \/ RecvRejected \/ RecvMachineSwitched
  \/ RecvHideMouse \/ LinkDrops

Spec == Init /\ [][Next]_vars

----------------------------------------------------------------------------
(* Properties.                                                             *)

\* ReleaseAll knows every key that is down: the map agrees with the device
\* whatever writes fail, until a release itself fails (uinput.go:262-267).
TrackedKeys == ~leaked => dev.kernel = dev.pressed

\* When the remote's cursor is elsewhere or the link is down, no key is
\* down here and no half-built chord is left to inject one later
\* (handler.go:91-96, 258-269).
NothingHeldAway ==
  ~here /\ ~leaked => dev.kernel = {} /\ ~pendingCtrl /\ ~suppressCtrlUp

\* No stuck key: between strokes, a key is down here only if the remote
\* user holds a key that produces it, however AltGr, Ctrl, repeats, visits
\* and other packets mix.  The exception is a Ctrl that was down here while
\* a Ctrl release was about to be dropped: it may be the wrong release.
NoStuckKey ==
  here /\ wire = <<>> /\ ~failed /\ ~mixed =>
    dev.kernel \subseteq (typed \ {"altgr"})
        \cup (IF "altgr" \in typed THEN {"lctrl", "ralt"} ELSE {})
============================================================================
