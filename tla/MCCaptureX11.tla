--------------------------- MODULE MCCaptureX11 ---------------------------
(* Bounds for TLC: motions that reach the far side and the return edge.    *)
EXTENDS CaptureX11, TLC

MCMoves == {-NormMax, 2}

DevSymmetry == Permutations(Devs)
============================================================================
