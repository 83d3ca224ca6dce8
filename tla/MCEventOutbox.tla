--------------------------- MODULE MCEventOutbox ---------------------------
(* Constants for model-checking EventOutbox. *)
EXTENDS EventOutbox

Events == 1..3
OldestIsPoison == {1}
=============================================================================
