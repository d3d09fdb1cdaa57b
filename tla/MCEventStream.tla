--------------------------- MODULE MCEventStream ---------------------------
(* Constants of EventStream for TLC: nothing fails.                        *)
EXTENDS EventStream

NoFaults == {}
=============================================================================
