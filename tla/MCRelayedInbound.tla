-------------------------- MODULE MCRelayedInbound --------------------------
(* Constants for model-checking RelayedInbound. *)
EXTENDS RelayedInbound

CONSTANTS e1, e2, e3, c1, t1

\* Two events of one call, which bring no id but the call's and nobody they are
\* from, and a picture without an id.
Events ==
    [e \in Event |-> CASE e = e3 -> [id |-> Empty, thread |-> t1, media |-> TRUE]
                       [] OTHER  -> [id |-> c1, thread |-> Empty, media |-> FALSE]]
=============================================================================
