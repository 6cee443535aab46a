------------------------- MODULE MCLaneConnection -------------------------
(* Small instances of LaneConnection for TLC: the requests and the bound on *)
(* the connections come from the configurations.                            *)
EXTENDS LaneConnection

=============================================================================
