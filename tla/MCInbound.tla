----------------------------- MODULE MCInbound -----------------------------
(* Constants for model-checking Inbound. *)
EXTENDS Inbound

CONSTANTS d1, d2, d3, d4, m1, m2

\* Two Meta batches with the same two messages in opposite orders, one of which
\* has a message twice, and a single message that comes twice, once of them forged.
Batches ==
    [d \in Delivery |-> CASE d = d1 -> <<m1, m2, m1>>
                          [] d = d2 -> <<m2, m1>>
                          [] OTHER  -> <<m2>>]
=============================================================================
