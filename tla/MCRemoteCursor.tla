-------------------------- MODULE MCRemoteCursor --------------------------
(* Bounds for TLC.  Motion and crossing points are chosen so that the      *)
(* cursor can stop short of, on and beyond every margin.                   *)
EXTENDS RemoteCursor

MCDeltas == {-9, -3, -1, 0, 1, 4}
MCPerps  == {0, 3, NormMax}
============================================================================
