----------------------- MODULE RemoteCursor_proofs -----------------------
(* Theorems about RemoteCursor, for every grid, margins and carry          *)
(* resolution that CursorAssumption admits.                                *)
EXTENDS RemoteCursor, TLAPS

USE CursorAssumption

(* Truncation towards zero leaves a remainder smaller than one grid unit.  *)
LEMMA TruncUnitsLemma ==
  ASSUME NEW a \in Int
  PROVE  /\ TruncUnits(a) \in Int
         /\ a - TruncUnits(a) * Frac \in -(Frac - 1) .. Frac - 1
<1>1. ASSUME NEW b \in Nat
      PROVE  b \div Frac \in Int /\ b - (b \div Frac) * Frac \in 0 .. Frac - 1
  <2> b = Frac * (b \div Frac) + (b % Frac) /\ b % Frac \in 0 .. Frac - 1
    OBVIOUS
  <2> QED OBVIOUS
<1>2. CASE a >= 0
  BY <1>1, <1>2 DEF TruncUnits
<1>3. CASE a < 0
  BY <1>1, <1>3 DEF TruncUnits
<1> QED BY <1>2, <1>3

(* The carry after one event, from any earlier carry.                      *)
LEMMA CarryLemma ==
  ASSUME NEW a \in Int, NEW d \in Int
  PROVE  /\ TruncUnits(a + d) \in Int
         /\ a + d - TruncUnits(a + d) * Frac \in -(Frac - 1) .. Frac - 1
<1> DEFINE c == a + d
<1>1. c \in Int
  OBVIOUS
<1> HIDE DEF c
<1>2. TruncUnits(c) \in Int /\ c - TruncUnits(c) * Frac \in -(Frac - 1) .. Frac - 1
  BY <1>1, TruncUnitsLemma
<1> QED BY <1>2 DEF c

(* Clamping lands on the grid.                                             *)
LEMMA ClampLemma ==
  ASSUME NEW v \in Int
  PROVE  Clamp(v) \in 0 .. NormMax
BY DEF Clamp

(* A grid position is at most NormMax away from any edge.                  *)
LEMMA DepthLemma ==
  ASSUME NEW e \in AllEdges, NEW x \in 0 .. NormMax, NEW y \in 0 .. NormMax
  PROVE  ReturnDepth(e, x, y) \in 0 .. NormMax
BY DEF ReturnDepth

----------------------------------------------------------------------------
(***************************************************************************)
(* The cursor alone, without the history: the part the drivers implement.  *)
(***************************************************************************)
CursorType ==
  /\ active \in BOOLEAN /\ canReturn \in BOOLEAN /\ activeEdge \in Edges
  /\ remoteX \in 0 .. NormMax /\ remoteY \in 0 .. NormMax
  /\ accX \in -(Frac - 1) .. Frac - 1 /\ accY \in -(Frac - 1) .. Frac - 1

LEMMA CursorTypeInit == ASSUME CursorInit PROVE CursorType
<1>1. active \in BOOLEAN /\ canReturn \in BOOLEAN /\ activeEdge \in Edges
  BY DEF CursorInit
<1>2. /\ remoteX \in 0 .. NormMax /\ remoteY \in 0 .. NormMax
      /\ accX \in -(Frac - 1) .. Frac - 1 /\ accY \in -(Frac - 1) .. Frac - 1
  BY DEF CursorInit
<1> QED BY <1>1, <1>2 DEF CursorType

LEMMA CursorTypeStep == ASSUME CursorType, [CursorNext]_cursorVars PROVE CursorType'
<1>1. ASSUME NEW edge \in Edges, NEW p \in Perps, EnterRemoteEdge(edge, p)
      PROVE  CursorType'
  <2>1. EntryX(edge, p) \in 0 .. NormMax
    BY DEF EntryX
  <2>2. EntryY(edge, p) \in 0 .. NormMax
    BY DEF EntryY
  <2>3. accX' \in -(Frac - 1) .. Frac - 1 /\ accY' \in -(Frac - 1) .. Frac - 1
    BY <1>1 DEF EnterRemoteEdge
  <2> QED BY <1>1, <2>1, <2>2, <2>3 DEF EnterRemoteEdge, CursorType
<1>2. ASSUME NEW dx \in Deltas, NEW dy \in Deltas, Motion(dx, dy) PROVE CursorType'
  <2> DEFINE ix == TruncUnits(accX + dx)
             iy == TruncUnits(accY + dy)
  <2>1. dx \in Int /\ dy \in Int /\ accX \in Int /\ accY \in Int
    BY DEF CursorType
  <2>2. /\ ix \in Int /\ accX' \in -(Frac - 1) .. Frac - 1
        /\ iy \in Int /\ accY' \in -(Frac - 1) .. Frac - 1
    BY <1>2, <2>1, CarryLemma DEF Motion
  <2> HIDE DEF ix, iy
  <2>3. remoteX' \in 0 .. NormMax /\ remoteY' \in 0 .. NormMax
    <3>1. remoteX + ix \in Int /\ remoteY + iy \in Int
      BY <2>2 DEF CursorType
    <3>2. remoteX' = Clamp(remoteX + ix) /\ remoteY' = Clamp(remoteY + iy)
      BY <1>2 DEF Motion, ix, iy
    <3> QED BY <3>1, <3>2, ClampLemma
  <2>4. active' \in BOOLEAN /\ canReturn' \in BOOLEAN /\ activeEdge' \in Edges
    BY <1>2 DEF Motion, ReturnArmed, CursorType
  <2> QED BY <2>2, <2>3, <2>4 DEF CursorType
<1>3. CASE SetActive
  BY <1>3 DEF CursorType, SetActive
<1>4. CASE UNCHANGED cursorVars
  BY <1>4 DEF CursorType, cursorVars
<1> QED BY <1>1, <1>2, <1>3, <1>4 DEF CursorNext

(* The history is only recorded: a step is one of the cursor alone.        *)
LEMMA StepOfCursor == ASSUME [Next]_vars PROVE [CursorNext]_cursorVars
BY DEF Next, CursorNext, vars

(* What a driver that implements the cursor inherits: position and carry   *)
(* stay in range ...                                                       *)
THEOREM CursorTypes == CursorSpec => []CursorType
BY CursorTypeInit, CursorTypeStep, PTL DEF CursorSpec

(* ... and at the return edge the remote's hand-back is always accepted.   *)
THEOREM CursorNeverDeaf == CursorSpec => []EdgeIsNeverDeaf
<1>1. CursorInit => EdgeIsNeverDeaf
  BY DEF CursorInit, EdgeIsNeverDeaf
<1>2. CursorType /\ EdgeIsNeverDeaf /\ [CursorNext]_cursorVars => EdgeIsNeverDeaf'
  <2> SUFFICES ASSUME CursorType, EdgeIsNeverDeaf, [CursorNext]_cursorVars,
                      ~active', Depth' <= HitSlack(activeEdge)'
               PROVE  Depth' <= ReturnMargin /\ ~canReturn'
    BY DEF EdgeIsNeverDeaf, AcceptsActivation
  <2>1. Depth' \in Int
    <3>1. CursorType'
      BY CursorTypeStep
    <3> QED BY <3>1, DepthLemma DEF CursorType, Depth
  <2>2. Depth' <= ReturnMargin
    <3>1. HitSlack(activeEdge)' \in 0 .. 1
      BY DEF HitSlack
    <3> QED BY <2>1, <3>1
  <2>3. ~canReturn'
    <3>1. ASSUME NEW edge \in Edges, NEW p \in Perps, EnterRemoteEdge(edge, p)
          PROVE  ~canReturn'
      BY <3>1 DEF EnterRemoteEdge
    <3>2. ASSUME NEW dx \in Deltas, NEW dy \in Deltas, Motion(dx, dy)
          PROVE  ~canReturn'
      <4>1. Depth' = ReturnDepth(activeEdge, remoteX', remoteY')
            /\ HitSlack(activeEdge)' = HitSlack(activeEdge)
        BY <3>2 DEF Depth, Motion
      <4>2. active' = (active \/ (canReturn' /\ Depth' <= HitSlack(activeEdge)))
        BY <3>2, <4>1 DEF Motion
      <4> QED BY <4>1, <4>2
    <3>3. CASE SetActive
      BY <3>3 DEF SetActive
    <3>4. CASE UNCHANGED cursorVars
      BY <3>4 DEF EdgeIsNeverDeaf, Depth, cursorVars
    <3> QED BY <3>1, <3>2, <3>3, <3>4 DEF CursorNext
  <2> QED BY <2>2, <2>3
<1> QED BY <1>1, <1>2, CursorTypes, PTL DEF CursorSpec

----------------------------------------------------------------------------
LEMMA TypeInit ==
  ASSUME Init PROVE TypeOK
<1>1. CursorType
  BY CursorTypeInit DEF Init
<1>2. deepest \in 0 .. NormMax /\ travel \in Int
  BY DEF Init
<1>3. clipped \in BOOLEAN
  BY DEF Init
<1> QED BY <1>1, <1>2, <1>3 DEF TypeOK, CursorType

LEMMA TypeStep ==
  ASSUME TypeOK, [Next]_vars PROVE TypeOK'
<1>1. CursorType /\ CursorType'
  BY StepOfCursor, CursorTypeStep DEF TypeOK, CursorType
<1>2. ASSUME NEW edge \in Edges, NEW p \in Perps, NewVisit PROVE TypeOK'
  <2>1. deepest' \in 0 .. NormMax /\ travel' \in Int
    BY <1>2 DEF NewVisit
  <2>2. clipped' \in BOOLEAN
    BY <1>2 DEF NewVisit
  <2> QED BY <1>1, <2>1, <2>2 DEF TypeOK, CursorType
<1>3. ASSUME NEW dx \in Deltas, NEW dy \in Deltas, Motion(dx, dy), RecordMotion(dx, dy)
      PROVE  TypeOK'
  <2>1. deepest' \in 0 .. NormMax
    <3>1. ReturnDepth(activeEdge, remoteX', remoteY') \in 0 .. NormMax
      BY <1>1, DepthLemma DEF CursorType
    <3>2. deepest' = IF ReturnDepth(activeEdge, remoteX', remoteY') > deepest
                     THEN ReturnDepth(activeEdge, remoteX', remoteY')
                     ELSE deepest
      BY <1>3 DEF RecordMotion
    <3> QED BY <3>1, <3>2 DEF TypeOK
  <2>2. travel' \in Int
    <3>1. Inward(activeEdge, dx, dy) \in Int
      BY DEF Inward
    <3> QED BY <1>3, <3>1 DEF RecordMotion, TypeOK
  <2>3. clipped' \in BOOLEAN
    BY <1>3 DEF RecordMotion, TypeOK
  <2> QED BY <1>1, <2>1, <2>2, <2>3 DEF TypeOK, CursorType
<1>4. CASE UNCHANGED <<deepest, travel, clipped>>
  BY <1>1, <1>4 DEF TypeOK, CursorType
<1> QED BY <1>2, <1>3, <1>4 DEF Next, vars

(* The grid position, the carry and the history variables stay in range.   *)
THEOREM TypeCorrect == Spec => []TypeOK
BY TypeInit, TypeStep, PTL DEF Spec

----------------------------------------------------------------------------
(* The return gate is armed only by a motion that got more than the switch *)
(* margin away from the return edge in the current visit.                  *)
THEOREM ArmedFar == Spec => []ArmedOnlyWhenFar
<1>1. Init => ArmedOnlyWhenFar
  BY DEF Init, CursorInit, ArmedOnlyWhenFar
<1>2. TypeOK /\ ArmedOnlyWhenFar /\ [Next]_vars => ArmedOnlyWhenFar'
  <2> SUFFICES ASSUME TypeOK, ArmedOnlyWhenFar, [Next]_vars
               PROVE  ArmedOnlyWhenFar'
    OBVIOUS
  <2>1. ASSUME NEW edge \in Edges, NEW p \in Perps, EnterRemoteEdge(edge, p), NewVisit
        PROVE  ArmedOnlyWhenFar'
    BY <2>1 DEF EnterRemoteEdge, NewVisit, ArmedOnlyWhenFar
  <2>2. ASSUME NEW dx \in Deltas, NEW dy \in Deltas, Motion(dx, dy), RecordMotion(dx, dy)
        PROVE  ArmedOnlyWhenFar'
    <3> DEFINE d == ReturnDepth(activeEdge, remoteX', remoteY')
    <3>1. d \in Int
      <4>1. TypeOK'
        BY TypeStep
      <4> QED BY <4>1, DepthLemma DEF TypeOK
    <3>2. /\ canReturn' = (canReturn \/ d > SwitchMargin)
          /\ deepest' = IF d > deepest THEN d ELSE deepest
      BY <2>2 DEF Motion, ReturnArmed, RecordMotion
    <3> HIDE DEF d
    <3> QED BY <3>1, <3>2 DEF ArmedOnlyWhenFar, TypeOK
  <2>3. CASE SetActive /\ UNCHANGED <<deepest, travel, clipped>>
    BY <2>3 DEF SetActive, ArmedOnlyWhenFar
  <2>4. CASE UNCHANGED vars
    BY <2>4 DEF ArmedOnlyWhenFar, vars, cursorVars
  <2> QED BY <2>1, <2>2, <2>3, <2>4 DEF Next
<1> QED BY <1>1, <1>2, TypeCorrect, PTL DEF Spec

(* A motion brings control home only at the return edge, and only after    *)
(* one that was more than the switch margin away from it in this visit.    *)
THEOREM NoBounce == Spec => NoMomentumBounce
<1>1. TypeOK /\ ArmedOnlyWhenFar /\ [Next]_vars
        => [(~active /\ active' /\ <<remoteX, remoteY>>' # <<remoteX, remoteY>>)
              => (deepest > SwitchMargin /\ Depth' <= 1)]_vars
  <2> SUFFICES ASSUME TypeOK, ArmedOnlyWhenFar, Next, ~active, active',
                      <<remoteX, remoteY>>' # <<remoteX, remoteY>>
               PROVE  deepest > SwitchMargin /\ Depth' <= 1
    OBVIOUS
  <2>1. PICK dx \in Deltas, dy \in Deltas : Motion(dx, dy)
    BY DEF Next, EnterRemoteEdge, NewVisit, SetActive
  <2> DEFINE d == ReturnDepth(activeEdge, remoteX', remoteY')
  <2>2. d \in Int /\ d = Depth'
    <3>1. TypeOK'
      BY TypeStep
    <3>2. d \in Int
      BY <3>1, <2>1, DepthLemma DEF TypeOK, Motion, ReturnArmed, RecordMotion
    <3> QED BY <2>1, <3>2 DEF Depth, Motion, ReturnArmed, RecordMotion
  <2>3. /\ canReturn \/ d > SwitchMargin
        /\ d <= HitSlack(activeEdge)
    BY <2>1 DEF Motion, ReturnArmed, RecordMotion
  <2> HIDE DEF d
  <2>4. HitSlack(activeEdge) \in 0 .. 1
    BY DEF HitSlack
  <2>5. canReturn
    BY <2>2, <2>3, <2>4
  <2> QED BY <2>2, <2>3, <2>4, <2>5 DEF ArmedOnlyWhenFar
<1> QED BY <1>1, TypeCorrect, ArmedFar, PTL DEF Spec, NoMomentumBounce

(* At the return edge the remote's hand-back is always accepted.           *)
THEOREM NeverDeaf == Spec => []EdgeIsNeverDeaf
<1>1. Init => CursorInit
  BY DEF Init
<1> QED BY <1>1, StepOfCursor, CursorNeverDeaf, PTL DEF Spec, CursorSpec

(* Distance from the return edge and carry add up to the entry offset plus *)
(* all motion of the visit, as long as nothing was clipped.                *)
THEOREM MotionConserved == Spec => []NoMotionLost
<1>1. Init => NoMotionLost
  BY DEF Init, CursorInit, NoMotionLost
<1>2. TypeOK /\ NoMotionLost /\ [Next]_vars => NoMotionLost'
  <2> SUFFICES ASSUME TypeOK, NoMotionLost, [Next]_vars, ~active', ~clipped'
               PROVE  (Depth * Frac + Inward(activeEdge, accX, accY)
                        = SwitchMargin * Frac + travel)'
    BY DEF NoMotionLost
  <2>1. ASSUME NEW edge \in Edges, NEW p \in Perps, EnterRemoteEdge(edge, p), NewVisit
        PROVE  (Depth * Frac + Inward(activeEdge, accX, accY)
                 = SwitchMargin * Frac + travel)'
    <3>1. ReturnDepth(edge, EntryX(edge, p), EntryY(edge, p)) = SwitchMargin
      BY DEF ReturnDepth, EntryX, EntryY
    <3>2. Inward(edge, 0, 0) = 0
      <4>1. ASSUME NEW z \in Int
            PROVE  Inward(edge, z, z) \in Int
                   /\ (Inward(edge, z, z) = z \/ Inward(edge, z, z) + z = 0)
        BY DEF Inward
      <4> QED BY <4>1
    <3> QED BY <2>1, <3>1, <3>2 DEF EnterRemoteEdge, NewVisit, Depth
  <2>2. ASSUME NEW dx \in Deltas, NEW dy \in Deltas, Motion(dx, dy), RecordMotion(dx, dy)
        PROVE  (Depth * Frac + Inward(activeEdge, accX, accY)
                 = SwitchMargin * Frac + travel)'
    <3> DEFINE ix == TruncUnits(accX + dx)
               iy == TruncUnits(accY + dy)
    <3>1. /\ dx \in Int /\ dy \in Int /\ accX \in Int /\ accY \in Int
          /\ remoteX \in Int /\ remoteY \in Int /\ travel \in Int
      BY DEF TypeOK
    <3>2. ix \in Int /\ iy \in Int
      <4>1. ASSUME NEW a \in Int, NEW d \in Int PROVE TruncUnits(a + d) \in Int
        BY CarryLemma
      <4> QED BY <3>1, <4>1
    <3>3. ~active /\ ~clipped
      BY <2>2 DEF Motion, ReturnArmed, RecordMotion
    <3>4. /\ remoteX' = remoteX + ix /\ remoteY' = remoteY + iy
          /\ accX' = accX + dx - ix * Frac /\ accY' = accY + dy - iy * Frac
          /\ travel' = travel + Inward(activeEdge, dx, dy)
          /\ activeEdge' = activeEdge
      BY <2>2 DEF Motion, ReturnArmed, RecordMotion
    <3>5. Depth * Frac + Inward(activeEdge, accX, accY)
            = SwitchMargin * Frac + travel
      BY <3>3 DEF NoMotionLost
    <3> HIDE DEF ix, iy
    <3>6. Depth' * Frac + Inward(activeEdge, accX', accY')
            = Depth * Frac + Inward(activeEdge, accX, accY)
                + Inward(activeEdge, dx, dy)
      BY <3>1, <3>2, <3>4 DEF Depth, ReturnDepth, Inward
    <3>7. Inward(activeEdge, dx, dy) \in Int
      BY <3>1 DEF Inward
    <3> QED BY <3>1, <3>4, <3>5, <3>6, <3>7
  <2>3. CASE SetActive /\ UNCHANGED <<deepest, travel, clipped>>
    BY <2>3 DEF SetActive
  <2>4. CASE UNCHANGED vars
    BY <2>4 DEF NoMotionLost, Depth, vars, cursorVars
  <2> QED BY <2>1, <2>2, <2>3, <2>4 DEF Next
<1> QED BY <1>1, <1>2, TypeCorrect, PTL DEF Spec

(* With nothing clipped, the hand-back gate opens only after real travel   *)
(* back towards the return edge.                                           *)
THEOREM HandBackGate == Spec => []HandBackNeedsTravel
<1>1. TypeOK /\ NoMotionLost => HandBackNeedsTravel
  <2> SUFFICES ASSUME TypeOK, NoMotionLost, ~active, ~clipped,
                      Depth <= ReturnMargin
               PROVE  -travel > (SwitchMargin - ReturnMargin - 1) * Frac
    BY DEF HandBackNeedsTravel, AcceptsActivation
  <2> DEFINE carry == Inward(activeEdge, accX, accY)
             gap   == SwitchMargin - Depth
  <2>1. carry \in Int /\ carry < Frac /\ carry > -Frac
    BY DEF Inward, TypeOK
  <2>2. Depth \in Int /\ gap \in Int /\ travel \in Int
    BY DepthLemma DEF Depth, TypeOK
  <2>3. -travel = gap * Frac - carry
    <3>1. Depth * Frac + carry = SwitchMargin * Frac + travel
      BY DEF NoMotionLost
    <3> HIDE DEF carry
    <3> QED BY <2>1, <2>2, <3>1
  <2>4. gap * Frac >= (SwitchMargin - ReturnMargin) * Frac
    BY <2>2
  <2> HIDE DEF carry, gap
  <2> QED BY <2>1, <2>2, <2>3, <2>4
<1> QED BY <1>1, TypeCorrect, MotionConserved, PTL
============================================================================
