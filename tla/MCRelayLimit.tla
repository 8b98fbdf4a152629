----------------------------- MODULE MCRelayLimit -----------------------------
(* The instance of the run relay_limit: three calls of one source. *)
EXTENDS RelayLimit
CONSTANTS k1, c1, c2, c3
OneKey == [c \in Call |-> k1]
=============================================================================
