---------------------------- MODULE AtLeastOnce ----------------------------
(***************************************************************************)
(* What the event outbox promises its consumers: every event it owes is    *)
(* put on the stream, perhaps more than once, and it is only written off   *)
(* once it is there.                                                       *)
(***************************************************************************)
EXTENDS Naturals

CONSTANT Event

VARIABLES
    owed,    \* events that are committed and not written off
    copies   \* how many copies of each event are on the stream

vars == <<owed, copies>>

Init ==
    /\ owed = {}
    /\ copies = [e \in Event |-> 0]

\* A transaction commits an event.
Owe(e) ==
    /\ e \notin owed
    /\ copies[e] = 0
    /\ owed' = owed \cup {e}
    /\ UNCHANGED copies

\* A copy of an owed event goes out.
Send(e) ==
    /\ e \in owed
    /\ copies' = [copies EXCEPT ![e] = @ + 1]
    /\ UNCHANGED owed

\* Events that are on the stream are written off.
Settle(S) ==
    /\ \A e \in S : copies[e] > 0
    /\ owed' = owed \ S
    /\ UNCHANGED copies

Next ==
    \/ \E e \in Event : Owe(e) \/ Send(e)
    \/ \E S \in SUBSET Event : Settle(S)

Spec == Init /\ [][Next]_vars
=============================================================================
