---------------------------- MODULE MCRateLimit ----------------------------
(* Constants for model-checking RateLimit. *)
EXTENDS RateLimit

CONSTANTS c1, c2

InStep == [c \in Caller |-> 0]
Ahead == [c \in Caller |-> IF c = c1 THEN 1 ELSE 0]
=============================================================================
