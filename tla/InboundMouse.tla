---------------------------- MODULE InboundMouse ----------------------------
(***************************************************************************)
(* The mouse half of network.Handler (internal/network/handler.go) and the *)
(* uinput mouse (internal/input/uinput.go).  The remote reports absolute   *)
(* positions of its own cursor; the handler snaps to them, or adds its     *)
(* scaled movement to a position of its own, and writes absolute positions *)
(* and buttons to the input device.                                        *)
(*                                                                         *)
(* One axis is modelled.  The other one enters the test for a jump, which  *)
(* looks at both: a packet says whether the other axis jumped.  The        *)
(* remote's packets and the moments a session starts and ends are those of *)
(* the module that composes this one with the keyboard (Inbound).          *)
(***************************************************************************)
EXTENDS Integers

CONSTANTS
  ScreenMax,       \* the last position on the axis (65535 in the code)
  JumpThreshold,   \* inboundJumpThreshold
  Gains,           \* values of InboundMultiplier, as <<numerator, denominator>>
  MouseMayFail     \* whether a write to the mouse device may fail

ASSUME MouseAssumption ==
  /\ ScreenMax \in Nat /\ JumpThreshold \in Nat
  /\ Gains \subseteq (Nat \ {0}) \X (Nat \ {0})
  /\ MouseMayFail \in BOOLEAN

Positions == 0..ScreenMax

\* Buttons as the remote names them and as the input device does.
Buttons == {"left", "right", "middle", "x1", "x2"}
BtnCodes == {"left", "right", "middle", "side", "extra"}

BtnCode(b) == CASE b = "x1" -> "side" [] b = "x2" -> "extra" [] OTHER -> b

VARIABLES
  \* Handler
  gain,             \* InboundMultiplier; does not change
  inX, lastInX,     \* the injected position, the remote's last report
  inSeeded,
  \* VirtualMouse
  pointer,          \* position last written to the device
  down,             \* buttons down in the device, as codes
  \* the remote
  holds,            \* buttons its user holds
  \* history
  arriving,         \* a session started and no position was reported since
  astray,           \* the last write of a position failed
  stranded          \* codes that were down when the cursor left, or whose
                    \*   write failed

trackVars == <<inX, lastInX, inSeeded>>
mouseVars == <<gain, trackVars, pointer, down, holds, arriving, astray, stranded>>

----------------------------------------------------------------------------
(* Scaling.                                                                *)

Dist(a, b) == IF a < b THEN b - a ELSE a - b

\* int32(float64(d) * multiplier): toward zero.
Scaled(d) ==
  IF d < 0 THEN -((-d * gain[1]) \div gain[2]) ELSE (d * gain[1]) \div gain[2]

Clamp65535(v) == IF v < 0 THEN 0 ELSE IF v > ScreenMax THEN ScreenMax ELSE v

IsJumpSeededOnly(x, otherJumps) == ~inSeeded \/ otherJumps        \* mutant
IsJump(x, otherJumps) ==
  ~inSeeded \/ Dist(x, lastInX) > JumpThreshold \/ otherJumps

\* The position moveInbound injects for the report x.
Injected(x, otherJumps) ==
  IF IsJump(x, otherJumps) \/ gain[1] = gain[2] THEN x
  ELSE Clamp65535(inX + Scaled(x - lastInX))

----------------------------------------------------------------------------
MouseInit ==
  /\ gain \in Gains
  /\ inX = 0 /\ lastInX = 0 /\ inSeeded = FALSE
  /\ pointer = 0 /\ down = {} /\ holds = {}
  /\ arriving = FALSE /\ astray = FALSE /\ stranded = {}

\* moveInbound; ok tells whether MoveTo wrote everything.  A failed MoveTo
\* may have written the position before it failed.
MoveInbound(x, otherJumps, ok) ==
  /\ inX' = Injected(x, otherJumps)
  /\ lastInX' = x /\ inSeeded' = TRUE
  /\ pointer' = inX' \/ (~ok /\ UNCHANGED pointer)
  /\ ok \/ MouseMayFail
  /\ arriving' = FALSE /\ astray' = ~ok

HandleMove(x, otherJumps) ==
  /\ \E ok \in BOOLEAN : MoveInbound(x, otherJumps, ok)
  /\ UNCHANGED <<gain, down, holds, stranded>>

\* A press or a release comes with a position.  It reaches the device only
\* if the position did, and its own write may fail too.
PressButton(x, b) ==
  /\ b \notin holds
  /\ holds' = holds \cup {b}
  /\ \E ok \in BOOLEAN :
       /\ MoveInbound(x, FALSE, ok)
       /\ \/ ok /\ down' = down \cup {BtnCode(b)}
                /\ stranded' = stranded \ {BtnCode(b)}
          \/ (~ok \/ MouseMayFail) /\ UNCHANGED <<down, stranded>>
  /\ UNCHANGED gain

ReleaseAlwaysSide(x, b) ==                                        \* mutant
  /\ b \in holds
  /\ holds' = holds \ {b}
  /\ LET code == IF b \in {"x1", "x2"} THEN "side" ELSE b
     IN  /\ MoveInbound(x, FALSE, TRUE)
         /\ down' = down \ {code} /\ stranded' = stranded \ {code}
  /\ UNCHANGED gain

ReleaseButton(x, b) ==
  /\ b \in holds
  /\ holds' = holds \ {b}
  /\ \E ok \in BOOLEAN :
       /\ MoveInbound(x, FALSE, ok)
       /\ \/ ok /\ down' = down \ {BtnCode(b)}
                /\ stranded' = stranded \ {BtnCode(b)}
          \/ /\ ~ok \/ MouseMayFail
             /\ stranded' = stranded \cup {BtnCode(b)}
             /\ UNCHANGED down
  /\ UNCHANGED gain

\* The remote user's buttons while the cursor is not here.
UseElsewhere(b) ==
  /\ holds' = IF b \in holds THEN holds \ {b} ELSE holds \cup {b}
  /\ UNCHANGED <<gain, trackVars, pointer, down, arriving, astray, stranded>>

\* A MachineSwitched that is accepted.
StartSessionSeeded ==                                             \* mutant
  /\ arriving' = TRUE
  /\ stranded' = stranded \cup down
  /\ UNCHANGED <<gain, trackVars, pointer, down, holds, astray>>

StartSession ==
  /\ inSeeded' = FALSE
  /\ arriving' = TRUE
  /\ stranded' = stranded \cup down
  /\ UNCHANGED <<gain, inX, lastInX, pointer, down, holds, astray>>

\* A HideMouse or the end of the link: keys are released, buttons are not.
EndSession ==
  /\ arriving' = FALSE
  /\ stranded' = stranded \cup down
  /\ UNCHANGED <<gain, trackVars, pointer, down, holds, astray>>

----------------------------------------------------------------------------
(* Properties.                                                             *)

\* Every session starts where the remote's cursor enters, whatever the gain
\* and whatever an earlier session or connection left in the tracker
\* (handler.go:86).
EntrySnaps == [][arriving /\ inSeeded' => inX' = lastInX']_mouseVars

\* The pointer is never sent flying: it stays on the screen, and a packet
\* moves it either to where the remote reports its cursor or by no more
\* than the scaled threshold, unless the last position was not written
\* (handler.go:203-206).
NeverFlies ==
  [][/\ pointer' \in Positions
     /\ pointer' # pointer /\ ~astray =>
          pointer' = lastInX' \/ Dist(pointer', pointer) <= Scaled(JumpThreshold)
    ]_mouseVars
============================================================================
