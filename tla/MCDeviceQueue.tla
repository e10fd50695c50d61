--------------------------- MODULE MCDeviceQueue ---------------------------
(* Two arrays at two addresses, contents of two values, two commands queued. *)
EXTENDS DeviceQueue

CONSTANTS a1, a2, m1, m2
MCArrays == {a1, a2}
MCAddresses == {m1, m2}
MCValues == {0, 1}
MCCompute == [v \in MCValues |-> 1 - v]
=============================================================================
