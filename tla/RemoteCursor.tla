--------------------------- MODULE RemoteCursor ---------------------------
(***************************************************************************)
(* The virtual remote cursor kept by capture.Capturer                      *)
(* (internal/capture/capture_linux.go), shared by the X11 and the Wayland  *)
(* drivers.  While the remote host owns the pointer, Linux dead-reckons    *)
(* the remote cursor on the normalized grid 0..NormMax, and two gates      *)
(* decide when control may come home:                                      *)
(*   - canReturn, armed by moving far enough from the return edge, lets    *)
(*     motion over that edge hand control back (afterMotionLocked);        *)
(*   - AcceptsActivation lets a remote MachineSwitched hand it back.       *)
(*                                                                         *)
(* One action is one critical section of Capturer.mu.  The ownership test  *)
(* of handleEvent and FeedMotion runs in an earlier critical section and   *)
(* is not repeated, so Motion has no guard on active: a late event moves   *)
(* the cursor after control came home.  CaptureX11 shows which             *)
(* interleavings of the goroutines lead there.                             *)
(*                                                                         *)
(* Motion is counted in 1/Frac of a grid unit: an event adds a whole       *)
(* number of them, which is the float64 delta after scaling.               *)
(*                                                                         *)
(* A definition marked "mutant" is a plausible bug, used by no other       *)
(* definition: put in place of the one that follows, it must break a       *)
(* property.                                                               *)
(***************************************************************************)
EXTENDS Integers

CONSTANTS
  NormMax,       \* largest grid coordinate (normMax, 65535 in the code)
  SwitchMargin,  \* entry offset and arming distance (switchMargin, normMax/10)
  ReturnMargin,  \* hand-back distance (returnEdgeMargin, normMax/40)
  Frac,          \* sub-units per grid unit, for the sub-pixel carry
  Edges,         \* edges the driver may cross
  Deltas,        \* motion of one event on one axis, in sub-units
  Perps          \* crossing points along an edge, in grid units

AllEdges == {"left", "right", "top", "bottom"}

(***************************************************************************)
(* The margins nest as in the code: 0 < normMax/40 < normMax/10 <          *)
(* normMax/2, and a unit separates the return edge from the entry offset.  *)
(***************************************************************************)
ASSUME CursorAssumption ==
  /\ NormMax \in Nat /\ SwitchMargin \in Nat /\ ReturnMargin \in Nat
  /\ 1 <= ReturnMargin
  /\ ReturnMargin < SwitchMargin
  /\ 2 * SwitchMargin < NormMax
  /\ Frac \in Nat \ {0}
  /\ Edges \subseteq AllEdges /\ Edges # {}
  /\ Deltas \subseteq Int
  /\ Perps \subseteq 0 .. NormMax

VARIABLES
  active,      \* TRUE when Linux owns the pointer (Capturer.active)
  activeEdge,  \* edge crossed into the remote on (Capturer.activeEdge)
  remoteX, remoteY,  \* the virtual cursor (Capturer.remoteX, remoteY)
  accX, accY,  \* sub-pixel carry (Capturer.accX, accY)
  canReturn,   \* the return gate (Capturer.canReturn)
  deepest,     \* history: largest distance from the return edge reached by
               \*   a motion since the crossing, 0 before the first motion
  travel,      \* history: motion away from the return edge since the
               \*   crossing, in sub-units, while nothing was clipped
  clipped      \* history: a motion since the crossing met the grid's border

cursorVars == <<active, activeEdge, remoteX, remoteY, accX, accY, canReturn>>
vars == <<cursorVars, deepest, travel, clipped>>

----------------------------------------------------------------------------
(* Geometry.                                                               *)

\* Distance of a grid position from the edge it would return through.
ReturnDepth(edge, x, y) ==
  CASE edge = "right"  -> x
    [] edge = "bottom" -> y
    [] edge = "top"    -> NormMax - y
    [] OTHER           -> NormMax - x

\* The part of a motion that points away from the return edge.
Inward(edge, dx, dy) ==
  CASE edge = "right"  -> dx
    [] edge = "bottom" -> dy
    [] edge = "top"    -> -dy
    [] OTHER           -> -dx

\* The low edges are hit at 0, the high ones one unit early.
HitSlack(edge) == IF edge \in {"right", "bottom"} THEN 0 ELSE 1

Clamp(v) == IF v < 0 THEN 0 ELSE IF v > NormMax THEN NormMax ELSE v

\* math.Trunc of a sub-unit count: towards zero.
TruncUnits(a) == IF a >= 0 THEN a \div Frac ELSE -((-a) \div Frac)

\* Where a crossing at point p of an edge puts the virtual cursor.
EntryX(edge, p) ==
  CASE edge = "right" -> SwitchMargin
    [] edge \in {"top", "bottom"} -> p
    [] OTHER -> NormMax - SwitchMargin

EntryY(edge, p) ==
  CASE edge = "top"    -> NormMax - SwitchMargin
    [] edge = "bottom" -> SwitchMargin
    [] OTHER -> p

Depth == ReturnDepth(activeEdge, remoteX, remoteY)

\* The return gate after a motion to depth d.
ArmedAtEntry(d) == canReturn \/ d >= SwitchMargin                 \* mutant
ReturnArmed(d)  == canReturn \/ d > SwitchMargin

\* The gate of a remote MachineSwitched.
LooseGate  == active \/ Depth <= SwitchMargin                     \* mutant
StrictGate == active \/ Depth < ReturnMargin                      \* mutant
AcceptsActivation == active \/ Depth <= ReturnMargin

----------------------------------------------------------------------------
(* New: Linux owns the pointer and nothing has crossed yet.                *)
CursorInit ==
  /\ active = TRUE
  /\ activeEdge \in Edges
  /\ remoteX = 0 /\ remoteY = 0
  /\ accX = 0 /\ accY = 0
  /\ canReturn = FALSE

EnterKeepingCarry(edge, p) ==                                   \* mutant
  /\ active' = FALSE /\ activeEdge' = edge
  /\ remoteX' = EntryX(edge, p) /\ remoteY' = EntryY(edge, p)
  /\ canReturn' = FALSE
  /\ UNCHANGED <<accX, accY>>

\* Control crosses to the remote over an edge: EnterRemoteEdge, and the
\* same assignments at the end of pollCursorEdge on X11.  A second crossing
\* while the remote already owns the pointer (overlapping Wayland gates)
\* simply starts over.
EnterRemoteEdge(edge, p) ==
  /\ active' = FALSE
  /\ activeEdge' = edge
  /\ remoteX' = EntryX(edge, p) /\ remoteY' = EntryY(edge, p)
  /\ accX' = 0 /\ accY' = 0
  /\ canReturn' = FALSE

\* One motion event: addMotionLocked, clampRemoteLocked and the gates of
\* afterMotionLocked, which hands control back at the armed return edge.
Motion(dx, dy) ==
  LET ix == TruncUnits(accX + dx)
      iy == TruncUnits(accY + dy)
      d  == ReturnDepth(activeEdge, remoteX', remoteY')
  IN /\ remoteX' = Clamp(remoteX + ix) /\ remoteY' = Clamp(remoteY + iy)
     /\ accX' = accX + dx - ix * Frac
     /\ accY' = accY + dy - iy * Frac
     /\ canReturn' = ReturnArmed(d)
     /\ active' = (active \/ (canReturn' /\ d <= HitSlack(activeEdge)))
     /\ UNCHANGED activeEdge

\* SetActive(true): an accepted hand-back, a reclaim, the hotkey or the
\* compositor takes control home.  When Linux owns the pointer already it
\* changes nothing.
SetActive ==
  /\ active' = TRUE
  /\ canReturn' = (active /\ canReturn)
  /\ UNCHANGED <<activeEdge, remoteX, remoteY, accX, accY>>

\* The cursor alone: what the capture drivers are shown to implement.
CursorNext ==
  \/ \E edge \in Edges, p \in Perps : EnterRemoteEdge(edge, p)
  \/ \E dx \in Deltas, dy \in Deltas : Motion(dx, dy)
  \/ SetActive

CursorSpec == CursorInit /\ [][CursorNext]_cursorVars

----------------------------------------------------------------------------
(* History of the current visit to the remote.                             *)

NewVisit == deepest' = 0 /\ travel' = 0 /\ clipped' = FALSE

RecordMotion(dx, dy) ==
  LET d == ReturnDepth(activeEdge, remoteX', remoteY')
  IN /\ deepest' = IF d > deepest THEN d ELSE deepest
     /\ clipped' = (clipped \/ remoteX' # remoteX + TruncUnits(accX + dx)
                            \/ remoteY' # remoteY + TruncUnits(accY + dy))
     /\ travel' = IF clipped' THEN 0
                  ELSE travel + Inward(activeEdge, dx, dy)

Init == CursorInit /\ deepest = 0 /\ travel = 0 /\ clipped = FALSE

Next ==
  \/ \E edge \in Edges, p \in Perps : EnterRemoteEdge(edge, p) /\ NewVisit
  \/ \E dx \in Deltas, dy \in Deltas : Motion(dx, dy) /\ RecordMotion(dx, dy)
  \/ SetActive /\ UNCHANGED <<deepest, travel, clipped>>

Spec == Init /\ [][Next]_vars

----------------------------------------------------------------------------
(* Properties.                                                             *)

\* The grid position and the carry stay in range, whatever the events are
\* (clampRemoteLocked, addMotionLocked).
TypeOK ==
  /\ active \in BOOLEAN /\ canReturn \in BOOLEAN /\ clipped \in BOOLEAN
  /\ activeEdge \in Edges
  /\ remoteX \in 0 .. NormMax /\ remoteY \in 0 .. NormMax
  /\ accX \in -(Frac - 1) .. Frac - 1 /\ accY \in -(Frac - 1) .. Frac - 1
  /\ deepest \in 0 .. NormMax
  /\ travel \in Int

\* The return gate is armed only by a motion that took the cursor more than
\* switchMargin away from the edge, in this visit to the remote: a gate
\* armed in an earlier visit, or by a late event between two visits, does
\* not carry over (capture_linux.go:911-913).
ArmedOnlyWhenFar == canReturn => deepest > SwitchMargin

\* Momentum cannot bounce control straight back: a motion that brings
\* control home ends at the return edge and comes after one that was more
\* than switchMargin away from it in the same visit.
NoMomentumBounce ==
  [][(~active /\ active' /\ <<remoteX, remoteY>>' # <<remoteX, remoteY>>)
       => (deepest > SwitchMargin /\ Depth' <= 1)]_vars

\* The hand-back gate cannot take the initial hand-off for a return
\* (returnEdgeMargin's comment): while the remote owns the pointer and no
\* motion was clipped, the gate is open only after the user moved back
\* more than the distance between the two margins, less one unit.
HandBackNeedsTravel ==
  ~active /\ ~clipped /\ AcceptsActivation
    => -travel > (SwitchMargin - ReturnMargin - 1) * Frac

\* Slow motion is not lost: as long as nothing was clipped, position and
\* carry together are exactly the entry offset plus all the motion since
\* the crossing (addMotionLocked's sub-pixel carry).
NoMotionLost ==
  ~active /\ ~clipped =>
    Depth * Frac + Inward(activeEdge, accX, accY)
      = SwitchMargin * Frac + travel

\* No lock-out at the return edge: whenever the remote owns the pointer and
\* the cursor is where motion would bring it home, either that gate was not
\* armed yet, and then the remote's own hand-back is accepted.
EdgeIsNeverDeaf ==
  ~active /\ Depth <= HitSlack(activeEdge) => AcceptsActivation /\ ~canReturn

============================================================================
