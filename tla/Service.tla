------------------------------ MODULE Service ------------------------------
(***************************************************************************)
(* The life of a service process: lifespan makes the clients and starts    *)
(* the two background drains, uvicorn runs the requests, and on SIGTERM     *)
(* waits for those it has before lifespan cancels the drains, one after the *)
(* other, and closes the clients in a fixed order.                         *)
(*                                                                         *)
(* What requests and polls do is left to the other modules: here it counts  *)
(* which client they are at, and how a drain ends.                          *)
(***************************************************************************)
EXTENDS Naturals, Sequences

CONSTANTS
    Request,      \* requests the process can have at once
    Limited,      \* RATE_LIMIT_ENABLED
    LockRefused,  \* the database locks no outer join (PostgreSQL does not)
    MaxFaults     \* bound: failures of any kind in a behaviour

ASSUME ServiceAssumption ==
    /\ Limited \in BOOLEAN
    /\ LockRefused \in BOOLEAN
    /\ MaxFaults \in Nat

VARIABLES
    phase,   \* where the process is
    left,    \* what lifespan has still to end, in order
    task,    \* where each drain is
    req,     \* the client each request is at
    open,    \* clients that hold connections
    closed,  \* clients that lifespan has closed
    raised,  \* history: whether a close has raised
    faults   \* failures so far

vars == <<phase, left, task, req, open, closed, raised, faults>>

-----------------------------------------------------------------------------
Task == {"outbox", "events"}
Client == {"redis", "medici", "notaio", "database"}
Order == <<"outbox", "events", "redis", "medici", "notaio", "database">>

\* These two connect when they are used; the others raise once they are closed.
Lazy == {"redis", "database"}

Uses(t) == IF t = "events" THEN {"database", "redis"} ELSE {"database"}

Alive == {"created", "polling", "waiting"}
Ended == {"over", "failed"}

SetTask(t, s) == task' = [task EXCEPT ![t] = s]

Fault == faults < MaxFaults /\ faults' = faults + 1

-----------------------------------------------------------------------------
(* Start, and the two drains. *)

Start ==
    /\ phase = "down"
    /\ phase' = "serving"
    /\ task' = [t \in Task |-> "created"]
    /\ open' = {"medici", "notaio"} \cup IF Limited THEN {"redis"} ELSE {}
    /\ closed' = {}
    /\ raised' = FALSE
    /\ UNCHANGED <<left, req, faults>>

\* A drain polls: its first time, or when its interval is over.
Poll(t) ==
    /\ phase # "down"
    /\ task[t] \in {"created", "waiting"}
    /\ SetTask(t, "polling")
    /\ open' = open \cup Uses(t)
    /\ UNCHANGED <<phase, left, req, closed, raised, faults>>

\* The poll is over.  That of the outbox locks rows over an outer join.
Polled(t) ==
    /\ task[t] = "polling"
    /\ SetTask(t, IF t = "outbox" /\ LockRefused THEN "failed" ELSE "waiting")
    /\ UNCHANGED <<phase, left, req, open, closed, raised, faults>>

\* The database fails: nothing in either run catches it.
PollFails(t) ==
    /\ task[t] = "polling"
    /\ Fault
    /\ SetTask(t, "failed")
    /\ UNCHANGED <<phase, left, req, open, closed, raised>>

-----------------------------------------------------------------------------
(* Requests, /health among them. *)

Arrive(r) ==
    /\ phase = "serving"
    /\ req[r] = "none"
    /\ req' = [req EXCEPT ![r] = "running"]
    /\ UNCHANGED <<phase, left, task, open, closed, raised, faults>>

Use(r, c) ==
    /\ req[r] = "running"
    /\ c \in open \cup Lazy
    /\ req' = [req EXCEPT ![r] = c]
    /\ open' = open \cup {c}
    /\ UNCHANGED <<phase, left, task, closed, raised, faults>>

\* The client answers, or fails.
Leave(r) ==
    /\ req[r] \in Client
    /\ req' = [req EXCEPT ![r] = "running"]
    /\ UNCHANGED <<phase, left, task, open, closed, raised, faults>>

Respond(r) ==
    /\ req[r] = "running"
    /\ req' = [req EXCEPT ![r] = "none"]
    /\ UNCHANGED <<phase, left, task, open, closed, raised, faults>>

-----------------------------------------------------------------------------
(* The end. *)

\* SIGTERM: uvicorn takes no more requests.
Terminate ==
    /\ phase = "serving"
    /\ phase' = "draining"
    /\ UNCHANGED <<left, task, req, open, closed, raised, faults>>

\* The last request is over: lifespan goes on behind its yield.
Drained ==
    /\ phase = "draining"
    /\ \A r \in Request : req[r] = "none"
    /\ phase' = "ending"
    /\ left' = Order
    /\ UNCHANGED <<task, req, open, closed, raised, faults>>

At(x) == phase = "ending" /\ left # <<>> /\ Head(left) = x

Cancel(t) ==
    /\ At(t)
    /\ task[t] \in Alive
    /\ SetTask(t, "cancelled")
    /\ UNCHANGED <<phase, left, req, open, closed, raised, faults>>

\* Mutant: the poll takes the cancellation for a failed row.
UnwindGoesOn(t) ==
    /\ task[t] = "cancelled"
    /\ SetTask(t, "waiting")
    /\ UNCHANGED <<phase, left, req, open, closed, raised, faults>>

\* The cancelled drain leaves its await, rolls its transaction back and ends;
\* what the rollback raises takes the place of the cancellation.
Unwind(t) ==
    /\ task[t] = "cancelled"
    /\ \/ SetTask(t, "over") /\ UNCHANGED faults
       \/ SetTask(t, "failed") /\ Fault
    /\ UNCHANGED <<phase, left, req, open, closed, raised>>

\* Mutant: only the cancellation is suppressed.
AwaitRaises(t) ==
    /\ At(t)
    /\ task[t] \in Ended
    /\ left' = IF task[t] = "failed" THEN <<>> ELSE Tail(left)
    /\ UNCHANGED <<phase, task, req, open, closed, raised, faults>>

\* Mutant: the drain is cancelled and not awaited.
AwaitNot(t) ==
    /\ At(t)
    /\ task[t] \notin Alive
    /\ left' = Tail(left)
    /\ UNCHANGED <<phase, task, req, open, closed, raised, faults>>

\* The drain has ended, now or long ago: whatever it raised is suppressed.
Await(t) ==
    /\ At(t)
    /\ task[t] \in Ended
    /\ left' = Tail(left)
    /\ UNCHANGED <<phase, task, req, open, closed, raised, faults>>

Close(c) ==
    /\ At(c)
    /\ open' = open \ {c}
    /\ closed' = closed \cup {c}
    /\ left' = Tail(left)
    /\ UNCHANGED <<phase, task, req, raised, faults>>

\* A close that raises skips those behind it.
CloseFails(c) ==
    /\ At(c)
    /\ Fault
    /\ left' = <<>>
    /\ raised' = TRUE
    /\ UNCHANGED <<phase, task, req, open, closed>>

Exit ==
    /\ phase = "ending"
    /\ left = <<>>
    /\ phase' = "down"
    /\ task' = [t \in Task |-> "over"]
    /\ UNCHANGED <<left, req, open, closed, raised, faults>>

Crash ==
    /\ phase # "down"
    /\ Fault
    /\ phase' = "down"
    /\ left' = <<>>
    /\ task' = [t \in Task |-> "over"]
    /\ req' = [r \in Request |-> "none"]
    /\ open' = {}
    /\ UNCHANGED <<closed, raised>>

-----------------------------------------------------------------------------
Init ==
    /\ phase = "down"
    /\ left = <<>>
    /\ task = [t \in Task |-> "over"]
    /\ req = [r \in Request |-> "none"]
    /\ open = {}
    /\ closed = {}
    /\ raised = FALSE
    /\ faults = 0

\* What lifespan runs behind its yield.
Finally ==
    \/ Drained
    \/ \E t \in Task : Cancel(t) \/ Unwind(t) \/ Await(t)
    \/ \E c \in Client : Close(c)
    \/ Exit

Next ==
    \/ Start \/ Terminate \/ Finally \/ Crash
    \/ \E t \in Task : Poll(t) \/ Polled(t) \/ PollFails(t)
    \/ \E r \in Request : Arrive(r) \/ Leave(r) \/ Respond(r) \/ \E c \in Client : Use(r, c)
    \/ \E c \in Client : CloseFails(c)

Spec == Init /\ [][Next]_vars

\* Coroutines are resumed, calls have timeouts, and a handler makes a few of
\* them: it gets to its answer.  Nothing says that the process is started again.
FairSpec ==
    /\ Spec
    /\ WF_vars(Finally)
    /\ \A r \in Request : WF_vars(Leave(r)) /\ SF_vars(Respond(r))

-----------------------------------------------------------------------------
(* Properties. *)

\* Nobody is at a client that lifespan has closed, and none is opened behind
\* its back: requests end before the drains do, and both before the clients.
ClientsOutliveUsers ==
    /\ open \cap closed = {}
    /\ \A r \in Request : req[r] \notin closed
    /\ \A t \in Task : task[t] \in {"polling", "cancelled"} => Uses(t) \cap closed = {}

\* When lifespan is through, no drain runs and all clients are closed, unless
\* a close failed: a drain that has died, be it at its first poll, does not
\* spoil the end.
CleanStop ==
    phase = "ending" /\ left = <<>> =>
        /\ \A t \in Task : task[t] \in Ended
        /\ open = {} \/ raised

\* Steps that lifespan has still to take to the end of the process.
DrainLeft(t) ==
    CASE task[t] \in Alive       -> 2
      [] task[t] = "cancelled"   -> 1
      [] OTHER                   -> 0

ToDo ==
    CASE phase = "draining" -> Len(Order) + 2 + DrainLeft("outbox") + DrainLeft("events")
      [] phase = "ending"   -> Len(left) + 1 + DrainLeft("outbox") + DrainLeft("events")
      [] OTHER              -> 0

\* Nothing adds to them, and each step of lifespan is one of them.
Advances ==
    phase \in {"draining", "ending"} => ToDo' <= ToDo /\ (Finally => ToDo' < ToDo)

\* A shutdown takes lifespan at most Len(Order) + 6 steps: no drain comes back
\* to life behind it, and no poll, request or failure makes it start over.
ShutdownNears == [][Advances]_vars

\* A stop ends, whatever await the cancellation of a drain finds it at.
StopEnds == phase = "draining" ~> phase = "down"
=============================================================================
