------------------------------ MODULE Inbound ------------------------------
(***************************************************************************)
(* The inbound webhooks: POST /webhook/{postmark, fbmessenger, instagram,  *)
(* signalwire}.  A delivery carries a batch of provider messages (Meta) or *)
(* a single one; _insert_inbound looks each of them up, inserts those that *)
(* are new and audits them, all in one session, which commits when the     *)
(* answer is out.  A provider delivers again until it gets a 2xx answer,   *)
(* and the same message may come in several deliveries at once.            *)
(*                                                                         *)
(* The database is PostgreSQL at READ COMMITTED, as in Outbound: a SELECT  *)
(* sees committed rows and its own; an INSERT waits for a rival's          *)
(* undecided row of the same (provider, provider_message_id); when waits   *)
(* form a cycle the database makes one of the waiting statements fail.     *)
(* A stored message stands for its row and its message.received event,     *)
(* which one transaction inserts together.                                 *)
(***************************************************************************)
EXTENDS Naturals, Sequences, FiniteSets

CONSTANTS
    Delivery,      \* webhook deliveries, redeliveries included in each
    Id,            \* pairs (provider, provider message id)
    Batch,         \* Batch[d]: ids of the messages in d, in parsing order
    Forged,        \* deliveries that are turned away: their signature does not verify
    Unfit,         \* deliveries that cannot be stored: no row or event can be made of them
    MaxFaults      \* bound: failures of any kind in a behaviour

ASSUME InboundAssumption ==
    /\ Batch \in [Delivery -> Seq(Id)]
    /\ Forged \subseteq Delivery
    /\ Unfit \subseteq Delivery
    /\ MaxFaults \in Nat

VARIABLES
    pc,      \* where each delivery's coroutine is
    item,    \* index of the message it is at
    tx,      \* ids it has inserted and not committed
    stored,  \* committed messages: pairs <<id, delivery that inserted it>>
    answer,  \* what the provider was told last
    audit,   \* message.receive records, as pairs <<id, delivery>>
    lost,    \* history: deliveries whose COMMIT was lost after the answer
    faults   \* failures so far

vars == <<pc, item, tx, stored, answer, audit, lost, faults>>

-----------------------------------------------------------------------------
Success == {"received", "duplicate"}
Failure == {"500", "cut"}
Working == {"check", "insert", "audit"}

Ids(d) == {Batch[d][i] : i \in DOMAIN Batch[d]}
Now(d) == Batch[d][item[d]]
Committed == {row[1] : row \in stored}

\* The INSERT of d waits for the undecided row of c.
WaitsFor(d, c) == pc[d] = "insert" /\ c # d /\ Now(d) \in tx[c]

\* d is in a cycle of waits.
InCycle(d) ==
    \E S \in SUBSET Delivery :
        /\ d \in S
        /\ \A c \in S : (\E e \in S : WaitsFor(c, e)) /\ (\E e \in S : WaitsFor(e, c))

Goto(d, p) == pc' = [pc EXCEPT ![d] = p]

\* Mutant: a handler that falls off its end answers null.
RespondNull(d, fresh) ==
    answer' = [answer EXCEPT ![d] = IF fresh = {} THEN "null" ELSE "received"]

\* The answer, by what was inserted.
Respond(d, fresh) ==
    answer' = [answer EXCEPT ![d] = IF fresh = {} /\ Batch[d] # <<>>
                                      THEN "duplicate" ELSE "received"]

\* On to the i-th message of the batch, or to the answer after the last.
Proceed(d, i, fresh) ==
    IF i > Len(Batch[d])
      THEN Goto(d, "responded") /\ Respond(d, fresh) /\ UNCHANGED item
      ELSE Goto(d, "check") /\ item' = [item EXCEPT ![d] = i] /\ UNCHANGED answer

\* Mutant: what the batch inserted so far is kept.
RaiseKeeps(d) ==
    /\ Goto(d, "done")
    /\ stored' = stored \cup {<<i, d>> : i \in tx[d]}
    /\ tx' = [tx EXCEPT ![d] = {}]
    /\ answer' = [answer EXCEPT ![d] = "500"]

\* Mutant: the failure is logged and the provider gets a 2xx.
RaiseAnswersOk(d) ==
    /\ Goto(d, "done")
    /\ tx' = [tx EXCEPT ![d] = {}]
    /\ answer' = [answer EXCEPT ![d] = "received"]
    /\ UNCHANGED stored

\* session_dep on an exception: roll back; the provider gets a 500.
Raise(d) ==
    /\ Goto(d, "done")
    /\ tx' = [tx EXCEPT ![d] = {}]
    /\ answer' = [answer EXCEPT ![d] = "500"]
    /\ UNCHANGED stored

Fault == faults < MaxFaults /\ faults' = faults + 1

-----------------------------------------------------------------------------
(* The handler. *)

\* A delivery comes in; its signature is checked first.
Deliver(d) ==
    /\ pc[d] = "new"
    /\ IF d \in Forged
         THEN /\ Goto(d, "done")
              /\ answer' = [answer EXCEPT ![d] = "401"]
              /\ UNCHANGED item
         ELSE Proceed(d, 1, {})
    /\ UNCHANGED <<tx, stored, audit, lost, faults>>

\* Mutant: messages that rivals are still inserting count as duplicates.
CheckUncommitted(d) ==
    /\ pc[d] = "check"
    /\ IF Now(d) \in Committed \cup UNION {tx[c] : c \in Delivery}
         THEN Proceed(d, item[d] + 1, tx[d])
         ELSE Goto(d, "insert") /\ UNCHANGED <<item, answer>>
    /\ UNCHANGED <<tx, stored, audit, lost, faults>>

\* _duplicate: a message that is known already is passed over.
Check(d) ==
    /\ pc[d] = "check"
    /\ IF Now(d) \in Committed \cup tx[d]
         THEN Proceed(d, item[d] + 1, tx[d])
         ELSE Goto(d, "insert") /\ UNCHANGED <<item, answer>>
    /\ UNCHANGED <<tx, stored, audit, lost, faults>>

\* Mutant: the table has no unique constraint.
InsertNotUnique(d) ==
    /\ pc[d] = "insert"
    /\ tx' = [tx EXCEPT ![d] = @ \cup {Now(d)}]
    /\ Goto(d, "audit")
    /\ UNCHANGED <<item, stored, answer, audit, lost, faults>>

\* Mutant: the INSERT does not wait for a rival.
InsertNoWait(d) ==
    /\ pc[d] = "insert"
    /\ IF Now(d) \in Committed \/ d \in Unfit \/ (\E c \in Delivery : WaitsFor(d, c))
         THEN Raise(d)
         ELSE /\ tx' = [tx EXCEPT ![d] = @ \cup {Now(d)}]
              /\ Goto(d, "audit")
              /\ UNCHANGED <<stored, answer>>
    /\ UNCHANGED <<item, audit, lost, faults>>

\* The row is flushed and its event made of it: the flush waits for a rival
\* that inserts the same message, and fails when the rival has committed since
\* the check.
Insert(d) ==
    /\ pc[d] = "insert"
    /\ \A c \in Delivery : ~WaitsFor(d, c)
    /\ IF Now(d) \in Committed \/ d \in Unfit
         THEN Raise(d)
         ELSE /\ tx' = [tx EXCEPT ![d] = @ \cup {Now(d)}]
              /\ Goto(d, "audit")
              /\ UNCHANGED <<stored, answer>>
    /\ UNCHANGED <<item, audit, lost, faults>>

\* Mutant: the record is only made for the first message of a batch.
AuditOnce(d) ==
    /\ pc[d] = "audit"
    /\ audit' = IF item[d] = 1 THEN audit \cup {<<Now(d), d>>} ELSE audit
    /\ Proceed(d, item[d] + 1, tx[d])
    /\ UNCHANGED <<tx, stored, lost, faults>>

\* The message is audited, and the batch goes on.
Audit(d) ==
    /\ pc[d] = "audit"
    /\ audit' = audit \cup {<<Now(d), d>>}
    /\ Proceed(d, item[d] + 1, tx[d])
    /\ UNCHANGED <<tx, stored, lost, faults>>

\* session_dep after the answer: the transaction commits.
Commit(d) ==
    /\ pc[d] = "responded"
    /\ stored' = stored \cup {<<i, d>> : i \in tx[d]}
    /\ tx' = [tx EXCEPT ![d] = {}]
    /\ Goto(d, "done")
    /\ UNCHANGED <<item, answer, audit, lost, faults>>

\* The database breaks a cycle of waits at one of its statements.
BreakDeadlock(d) ==
    /\ pc[d] = "insert"
    /\ InCycle(d)
    /\ Raise(d)
    /\ UNCHANGED <<item, audit, lost, faults>>

\* An await raises.  A failing notaio call may have been recorded.
Fail(d) ==
    /\ pc[d] \in Working
    /\ Fault
    /\ Raise(d)
    /\ \/ UNCHANGED audit
       \/ pc[d] = "audit" /\ audit' = audit \cup {<<Now(d), d>>}
    /\ UNCHANGED <<item, lost>>

-----------------------------------------------------------------------------
(* The environment. *)

\* The COMMIT fails when the answer is already out.
CommitFails(d) ==
    /\ pc[d] = "responded"
    /\ tx[d] # {}
    /\ Fault
    /\ tx' = [tx EXCEPT ![d] = {}]
    /\ lost' = lost \cup {d}
    /\ Goto(d, "done")
    /\ UNCHANGED <<item, stored, answer, audit>>

\* The process dies: transactions are rolled back, and the connection is cut
\* for providers that had no answer yet.
Crash ==
    /\ \E d \in Delivery : pc[d] \in Working \cup {"responded"}
    /\ Fault
    /\ pc' = [d \in Delivery |-> IF pc[d] = "new" THEN "new" ELSE "done"]
    /\ tx' = [d \in Delivery |-> {}]
    /\ lost' = lost \cup {d \in Delivery : pc[d] = "responded" /\ tx[d] # {}}
    /\ answer' = [d \in Delivery |-> IF pc[d] \in Working THEN "cut" ELSE answer[d]]
    /\ UNCHANGED <<item, stored, audit>>

\* The provider delivers again: after an error, or when a 2xx answer was lost
\* on its way.
Redeliver(d) ==
    /\ pc[d] = "done"
    /\ \/ answer[d] \in Failure /\ UNCHANGED faults
       \/ answer[d] \in Success /\ Fault
    /\ Goto(d, "new")
    /\ answer' = [answer EXCEPT ![d] = "none"]
    /\ UNCHANGED <<item, tx, stored, audit, lost>>

Init ==
    /\ pc = [d \in Delivery |-> "new"]
    /\ item = [d \in Delivery |-> 1]
    /\ tx = [d \in Delivery |-> {}]
    /\ stored = {}
    /\ answer = [d \in Delivery |-> "none"]
    /\ audit = {}
    /\ lost = {}
    /\ faults = 0

\* What the event loop and the database run once nothing holds it up.
Handle(d) ==
    \/ Check(d) \/ Insert(d) \/ Audit(d) \/ Commit(d) \/ BreakDeadlock(d)

Next ==
    \/ \E d \in Delivery :
         Deliver(d) \/ Handle(d) \/ Fail(d) \/ CommitFails(d) \/ Redeliver(d)
    \/ Crash

Spec == Init /\ [][Next]_vars

\* Coroutines are resumed.  An INSERT that waits for a rival is woken when the
\* rival's transaction ends: a provider's redelivery does not get in before it
\* for ever.  Providers do deliver, again and again if they have to.
FairSpec ==
    /\ Spec
    /\ \A d \in Delivery :
         /\ WF_vars(Handle(d))
         /\ \A i \in DOMAIN Batch[d] : SF_vars(item[d] = i /\ Insert(d))
         /\ WF_vars(Deliver(d))
         /\ WF_vars(answer[d] \in Failure /\ Redeliver(d))

-----------------------------------------------------------------------------
(* Properties. *)

\* Types of the variables.
TypeOK ==
    /\ pc \in [Delivery -> Working \cup {"new", "responded", "done"}]
    /\ item \in [Delivery -> Nat]
    /\ tx \in [Delivery -> SUBSET Id]
    /\ stored \subseteq Id \X Delivery
    /\ answer \in [Delivery -> Success \cup Failure \cup {"none", "401"}]
    /\ audit \subseteq Id \X Delivery
    /\ lost \subseteq Delivery
    /\ faults \in Nat

\* However often and in whatever batches a message is delivered, it is stored,
\* and its event emitted, at most once.
StoredOnce ==
    \A v, w \in stored : v[1] = w[1] => v = w

\* Every stored message was audited by the delivery that stored it
\* (notaio_client.py: "If the audit chain cannot be written, the operation
\* must fail"), and by a delivery whose signature verified.
AuditedBeforeCommit ==
    \A row \in stored : row \in audit /\ row[2] \notin Forged

\* A delivery is all or nothing: once one of its messages is stored by it, all
\* of its messages are stored, by it or by a rival.
BatchIsWhole ==
    \A row \in stored : Ids(row[2]) \subseteq Committed

\* "duplicate" is only answered when every message of the delivery is safely
\* stored: the provider will not send them again.
DuplicateMeansStored ==
    \A d \in Delivery : answer[d] = "duplicate" => Ids(d) \subseteq Committed

\* What is answered with success and then missing was lost by its COMMIT alone:
\* no race, rollback or early answer loses a message of its own accord.
OnlyCommitsLose ==
    \A d \in Delivery :
        pc[d] = "done" /\ answer[d] \in Success => Ids(d) \subseteq Committed \/ d \in lost

\* A delivery that was answered with success has its messages stored, once
\* the request is over.
AckedIsStored ==
    \A d \in Delivery :
        pc[d] = "done" /\ answer[d] \in Success => Ids(d) \subseteq Committed

\* The waits of the batches for each other never add up to a standstill: while
\* there are deliveries at work, one of them waits for nobody, or is in a cycle
\* that the database breaks.
NeverAllStuck ==
    LET AtWork == {d \in Delivery : pc[d] \in Working \cup {"responded"}} IN
        AtWork # {} =>
            \E d \in AtWork : InCycle(d) \/ \A c \in Delivery : ~WaitsFor(d, c)

\* Every genuine delivery ends up stored, through failed attempts, races on
\* the same message and deadlocks between batches, unless its COMMIT is lost.
EventuallyStored ==
    \A d \in Delivery \ (Forged \cup Unfit) : <>(Ids(d) \subseteq Committed \/ d \in lost)

\* All of the above as a provider sees it: batches, races, rollbacks and early
\* answers implement the abstract inbox.
Promise == INSTANCE Inbox WITH Contents <- [d \in Delivery |-> Ids(d)]
KeepsPromise == Promise!Spec
=============================================================================
