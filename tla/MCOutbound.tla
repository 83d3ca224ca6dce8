----------------------------- MODULE MCOutbound -----------------------------
(* Constants for model-checking Outbound. *)
EXTENDS Outbound, TLC

CONSTANTS r1, r2, r3, b1, b2, b3

\* Requests are interchangeable, which helps the safety runs.
RequestSymmetry == Permutations(Request)

\* Every body has a provider message id of its own.
OwnIds == [b \in Body |-> b]

\* b3 is the body of a bad request: of another type, or without a person id.
NoBodies == {}
ThirdBody == {b3}
=============================================================================
