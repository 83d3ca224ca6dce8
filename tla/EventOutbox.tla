---------------------------- MODULE EventOutbox ----------------------------
(***************************************************************************)
(* The event outbox: rows that request handlers commit with their data,    *)
(* and the background tasks (one per replica of the service) that publish  *)
(* them to the Redis stream.  A poll is one database transaction: it locks *)
(* a batch of pending rows, publishes them one by one, and commits what    *)
(* came of each.  Between polls the task sleeps.                           *)
(***************************************************************************)
EXTENDS Naturals, FiniteSets

CONSTANTS
    Event,      \* event rows, numbered in the order of created_at
    Drain,      \* EventOutboxDrain tasks, one per replica
    BatchSize,  \* rows a poll claims at most
    Poison,     \* rows whose publication always raises
    MaxFaults   \* bound: failures of any kind in a behaviour

ASSUME EventOutboxAssumption ==
    /\ Event \subseteq Nat
    /\ BatchSize \in Nat \ {0}
    /\ Poison \subseteq Event
    /\ MaxFaults \in Nat

VARIABLES
    state,   \* committed state of each row, "absent" before it is committed
    copies,  \* copies of each event on the stream
    pc,      \* where each drain is
    locked,  \* rows each drain's transaction holds FOR UPDATE
    todo,    \* rows of the batch still to be published
    sent,    \* rows of the batch marked DONE in the transaction
    faults   \* failures so far

vars == <<state, copies, pc, locked, todo, sent, faults>>

-----------------------------------------------------------------------------
\* A handler's transaction commits an event row.
Insert(e) ==
    /\ state[e] = "absent"
    /\ state' = [state EXCEPT ![e] = "pending"]
    /\ UNCHANGED <<copies, pc, locked, todo, sent, faults>>

\* Rows that a locking SELECT of drain d does not skip.
Available(d) ==
    {e \in Event : state[e] = "pending" /\ \A c \in Drain \ {d} : e \notin locked[c]}

\* The oldest rows of a set, as many as a batch holds.
Oldest(S) == {e \in S : Cardinality({f \in S : f < e}) < BatchSize}

\* Mutant: the SELECT does not lock.
ClaimUnlocked(d) ==
    /\ pc[d] = "polling"
    /\ LET batch == Oldest({e \in Event : state[e] = "pending"}) IN
        /\ locked' = [locked EXCEPT ![d] = batch]
        /\ todo' = [todo EXCEPT ![d] = batch]
    /\ pc' = [pc EXCEPT ![d] = "publishing"]
    /\ UNCHANGED <<state, copies, sent, faults>>

\* A poll begins: the batch is selected and locked.
Claim(d) ==
    /\ pc[d] = "polling"
    /\ LET batch == Oldest(Available(d)) IN
        /\ locked' = [locked EXCEPT ![d] = batch]
        /\ todo' = [todo EXCEPT ![d] = batch]
    /\ pc' = [pc EXCEPT ![d] = "publishing"]
    /\ UNCHANGED <<state, copies, sent, faults>>

\* The next row of the batch.
Head(d) == CHOOSE e \in todo[d] : \A f \in todo[d] : e <= f

\* The event is on the stream and the row is DONE, in the transaction.
Publish(d) ==
    /\ pc[d] = "publishing"
    /\ todo[d] # {}
    /\ Head(d) \notin Poison
    /\ copies' = [copies EXCEPT ![Head(d)] = @ + 1]
    /\ sent' = [sent EXCEPT ![d] = @ \cup {Head(d)}]
    /\ todo' = [todo EXCEPT ![d] = @ \ {Head(d)}]
    /\ UNCHANGED <<state, pc, locked, faults>>

\* Mutant: a failed publication is marked DONE as well.
PublishFailsDone(d) ==
    /\ pc[d] = "publishing"
    /\ todo[d] # {}
    /\ faults < MaxFaults
    /\ faults' = faults + 1
    /\ sent' = [sent EXCEPT ![d] = @ \cup {Head(d)}]
    /\ todo' = [todo EXCEPT ![d] = @ \ {Head(d)}]
    /\ UNCHANGED <<state, copies, pc, locked>>

\* Redis fails or its answer is lost: the row stays PENDING and the batch
\* goes on with the next one.
PublishFails(d) ==
    /\ pc[d] = "publishing"
    /\ todo[d] # {}
    /\ Head(d) \notin Poison
    /\ faults < MaxFaults
    /\ faults' = faults + 1
    /\ \/ UNCHANGED copies
       \/ copies' = [copies EXCEPT ![Head(d)] = @ + 1]
    /\ todo' = [todo EXCEPT ![d] = @ \ {Head(d)}]
    /\ UNCHANGED <<state, pc, locked, sent>>

\* Mutant: a row that raises ends the batch instead of being passed over.
SkipPoisonStops(d) ==
    /\ pc[d] = "publishing"
    /\ todo[d] # {}
    /\ Head(d) \in Poison
    /\ todo' = [todo EXCEPT ![d] = {}]
    /\ UNCHANGED <<state, copies, pc, locked, sent, faults>>

\* Mutant: the row is given up as DEAD, which nothing ever looks for.
SkipPoisonDead(d) ==
    /\ pc[d] = "publishing"
    /\ todo[d] # {}
    /\ Head(d) \in Poison
    /\ state' = [state EXCEPT ![Head(d)] = "dead"]
    /\ todo' = [todo EXCEPT ![d] = @ \ {Head(d)}]
    /\ UNCHANGED <<copies, pc, locked, sent, faults>>

\* The row's event does not validate: it stays PENDING, every time.
SkipPoison(d) ==
    /\ pc[d] = "publishing"
    /\ todo[d] # {}
    /\ Head(d) \in Poison
    /\ todo' = [todo EXCEPT ![d] = @ \ {Head(d)}]
    /\ UNCHANGED <<state, copies, pc, locked, sent, faults>>

\* What the rows are once the transaction of d has committed.
Settled(d) == [e \in Event |-> IF e \in sent[d] THEN "done" ELSE state[e]]

\* The transaction of d is over, one way or the other.
Release(d) ==
    /\ locked' = [locked EXCEPT ![d] = {}]
    /\ todo' = [todo EXCEPT ![d] = {}]
    /\ sent' = [sent EXCEPT ![d] = {}]

\* Mutant: the whole batch is marked DONE.
CommitBatch(d) ==
    /\ pc[d] = "publishing"
    /\ todo[d] = {}
    /\ state' = [e \in Event |-> IF e \in locked[d] THEN "done" ELSE state[e]]
    /\ Release(d)
    /\ pc' = [pc EXCEPT ![d] = "waiting"]
    /\ UNCHANGED <<copies, faults>>

\* The batch is through: the poll's transaction commits.
Commit(d) ==
    /\ pc[d] = "publishing"
    /\ todo[d] = {}
    /\ state' = Settled(d)
    /\ Release(d)
    /\ pc' = [pc EXCEPT ![d] = "waiting"]
    /\ UNCHANGED <<copies, faults>>

\* The interval is over and the next poll is due.
Wake(d) ==
    /\ pc[d] = "waiting"
    /\ pc' = [pc EXCEPT ![d] = "polling"]
    /\ UNCHANGED <<state, copies, locked, todo, sent, faults>>

\* The database fails under the SELECT or the COMMIT.  Nothing in run catches
\* it: the task is over for good.  The transaction is rolled back, unless it
\* was the answer to the COMMIT that was lost.
DbError(d) ==
    /\ pc[d] \in {"polling", "publishing"}
    /\ pc[d] = "publishing" => todo[d] = {}
    /\ faults < MaxFaults
    /\ faults' = faults + 1
    /\ UNCHANGED state \/ state' = Settled(d)
    /\ Release(d)
    /\ pc' = [pc EXCEPT ![d] = "dead"]
    /\ UNCHANGED copies

\* The replica crashes, or is stopped and cancels the task at an await, and
\* starts again: an open transaction is rolled back.
Restart(d) ==
    /\ faults < MaxFaults
    /\ faults' = faults + 1
    /\ Release(d)
    /\ pc' = [pc EXCEPT ![d] = "polling"]
    /\ UNCHANGED <<state, copies>>

Init ==
    /\ state = [e \in Event |-> "absent"]
    /\ copies = [e \in Event |-> 0]
    /\ pc = [d \in Drain |-> "polling"]
    /\ locked = [d \in Drain |-> {}]
    /\ todo = [d \in Drain |-> {}]
    /\ sent = [d \in Drain |-> {}]
    /\ faults = 0

\* What the event loop runs of a task that is alive.
Poll(d) ==
    Claim(d) \/ Publish(d) \/ SkipPoison(d) \/ Commit(d) \/ Wake(d)

Next ==
    \/ \E e \in Event : Insert(e)
    \/ \E d \in Drain : Poll(d) \/ PublishFails(d) \/ DbError(d) \/ Restart(d)

Spec == Init /\ [][Next]_vars

\* Tasks that are alive are scheduled; nothing restarts a dead one, since
\* /health goes on answering "ok", though it names the dead task.
FairSpec == Spec /\ \A d \in Drain : WF_vars(Poll(d))

-----------------------------------------------------------------------------
(* Properties. *)

\* Types of the variables.  No row is committed as CLAIMED or as DEAD, though
\* the column's enum has both: a row is pending until it is done.
TypeOK ==
    /\ state \in [Event -> {"absent", "pending", "done"}]
    /\ copies \in [Event -> Nat]
    /\ pc \in [Drain -> {"polling", "publishing", "waiting", "dead"}]
    /\ locked \in [Drain -> SUBSET Event]
    /\ todo \in [Drain -> SUBSET Event]
    /\ sent \in [Drain -> SUBSET Event]
    /\ faults \in Nat

\* However many replicas poll at once, an event is only on the stream a
\* second time if something failed: every copy but the first costs a fault.
DuplicatesNeedFaults == \A e \in Event : copies[e] <= 1 + faults

\* The rows and the polls of all replicas together deliver at least once: an
\* event goes out only after its row is committed, and a row is DONE only
\* when its event is on the stream, whatever crashes or is rolled back.
Stream == INSTANCE AtLeastOnce
            WITH owed <- {e \in Event : state[e] = "pending"}
DeliversAtLeastOnce == Stream!Spec

\* A poll holds no more rows than a batch has.
BatchesFit == \A d \in Drain : Cardinality(locked[d]) <= BatchSize

\* The rows a poll can use, without those that are of no use to anyone.
Useful(d) == Available(d) \ Poison

\* If the SELECT of d comes next, the oldest of them is in its batch.
ServesOldest(d) ==
    Claim(d) => \A e \in Useful(d) : (\A f \in Useful(d) : e <= f) => e \in todo'[d]

\* Rows that can never be published stay at the head of the queue for good, but
\* they do not starve those behind them, as long as a batch has room for one more.
OldestServed == [][\A d \in Drain : ServesOldest(d)]_vars

\* A row that d lets go of is DONE, if nothing has failed so far.
PutsNothingBack(d) ==
    faults' = 0 => \A e \in locked[d] \ Poison : e \in locked'[d] \/ state'[e] = "done"

\* A poll makes every useful row of its batch DONE: none is passed over, or
\* returned to the queue by the end of a transaction, unless something failed.
BatchesDone == [][\A d \in Drain : PutsNothingBack(d)]_vars

\* Every committed event that can be published is DONE in the end, as long as
\* one drain is alive: failed publications are retried, what a dead or a
\* restarted drain held is taken over, and rows of no use never block others.
PublishedWhileAlive ==
    \A e \in Event \ Poison :
        state[e] = "pending" ~> state[e] = "done" \/ \A d \in Drain : pc[d] = "dead"
=============================================================================
