------------------------------- MODULE Inbox -------------------------------
(***************************************************************************)
(* What the inbound webhooks promise a provider, without transactions,     *)
(* locks or batches half done: a delivery is answered; after "received"    *)
(* what it brings that is not known is kept as a whole, or not at all;     *)
(* "duplicate" says that all of it is known; an error says that nothing of *)
(* this attempt is or will be kept.                                        *)
(***************************************************************************)
CONSTANTS Delivery, Contents, Forged

VARIABLES stored, answer

vars == <<stored, answer>>

Known == {row[1] : row \in stored}

Answer(d, a) == answer[d] = "none" /\ answer' = [answer EXCEPT ![d] = a]

Refuse(d) == d \in Forged /\ Answer(d, "401") /\ UNCHANGED stored

Receive(d) == d \notin Forged /\ Answer(d, "received") /\ UNCHANGED stored

Recognise(d) ==
    /\ d \notin Forged
    /\ Contents[d] \subseteq Known
    /\ Answer(d, "duplicate")
    /\ UNCHANGED stored

Keep(d) ==
    /\ answer[d] = "received"
    /\ stored' = stored \cup {<<i, d>> : i \in Contents[d] \ Known}
    /\ UNCHANGED answer

\* One attempt fails, or all that a process was at do.
Fail(D) ==
    /\ \A d \in D : answer[d] = "none"
    /\ \E error \in {"500", "cut"} :
         answer' = [d \in Delivery |-> IF d \in D THEN error ELSE answer[d]]
    /\ UNCHANGED stored

Again(d) == answer[d] # "401" /\ answer' = [answer EXCEPT ![d] = "none"] /\ UNCHANGED stored

Init == stored = {} /\ answer = [d \in Delivery |-> "none"]

Next ==
    \/ \E d \in Delivery : Refuse(d) \/ Receive(d) \/ Recognise(d) \/ Keep(d) \/ Again(d)
    \/ \E D \in SUBSET Delivery : Fail(D)

Spec == Init /\ [][Next]_vars
=============================================================================
