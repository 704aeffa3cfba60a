------------------------- MODULE MCCaptureWayland -------------------------
(* Constants of CaptureWayland for TLC that a cfg cannot write.            *)
EXTENDS CaptureWayland

MCMotions == {<<-3, 0>>, <<3, 0>>}
MCGates == <<"gate1", "gate2">>
MCOneGate == <<"gate1">>

============================================================================
