--------------------------- MODULE DeliveryStatus ---------------------------
(***************************************************************************)
(* The status webhooks: POST /webhook/{postmark, signalwire}/status and    *)
(* /webhook/meta/status/{provider}.  A notice carries one status (Postmark,*)
(* SignalWire) or several (Meta); each is looked up, written to the message*)
(* the session has loaded, queued as an event and audited.                 *)
(*                                                                         *)
(* The session does not flush before it commits (autoflush=False), and     *)
(* then updates, of each message it has loaded, only the columns whose     *)
(* value is no longer the one it loaded.  Nothing is locked in between, so *)
(* what a rival has committed meanwhile is overwritten column by column.   *)
(***************************************************************************)
EXTENDS Naturals, Sequences, FiniteSets

CONSTANTS
    Notice,        \* webhook calls of the providers
    Message,       \* messages of one thread, numbered in order of creation
    Batch,         \* Batch[n]: the items of n, see Item
    NoNotice,      \* a column no notice has written
    LosesCommits,  \* whether a COMMIT can fail, or the process die before it
    MaxFaults      \* bound: failures of any kind in a behaviour

\* What a provider can say of a message.  "other" is nothing known; "read"
\* (Meta) is of the whole thread.
Kind == {"sent", "delivered", "open", "bounced", "failed", "read", "other"}

\* One status: the message it names, the kind, whether it has a description.
Item == [msg : Message, kind : Kind, text : BOOLEAN]

ASSUME DeliveryStatusAssumption ==
    /\ Message \subseteq Nat
    /\ Batch \in [Notice -> Seq(Item)]
    /\ NoNotice \notin Notice
    /\ LosesCommits \in BOOLEAN
    /\ MaxFaults \in Nat

VARIABLES
    rows,    \* committed messages
    log,     \* committed status events, in commit order
    audit,   \* delivery_status records: triples <<message, status, notice>>
    pc,      \* where each notice's coroutine is
    item,    \* index of the status it is at
    loaded,  \* rows as the session loaded them
    dirty,   \* rows as the session would have them
    queued,  \* events the session will insert
    answer,  \* whether the provider was told success or an error
    faults   \* failures so far

vars == <<rows, log, audit, pc, item, loaded, dirty, queued, answer, faults>>

-----------------------------------------------------------------------------
Status == {"queued", "dispatched", "delivered", "bounced", "failed"}
Row == [status : Status, detail : Notice \cup {NoNotice}, at : Notice \cup {NoNotice}]

\* No row, in the table or in a session.
Absent == [status |-> "absent", detail |-> NoNotice, at |-> NoNotice]
Empty == [m \in Message |-> Absent]

Event == [msg : Message, status : Status, by : Notice]

\* The status each kind of notice stands for.
StatusOf == [sent |-> "dispatched", delivered |-> "delivered", open |-> "delivered",
             bounced |-> "bounced", failed |-> "failed"]

Working == {"find", "audit"}

Now(n) == Batch[n][item[n]]
Goto(n, p) == pc' = [pc EXCEPT ![n] = p]

\* The most recent message of the thread, if there is one: no status is asked for.
Latest ==
    {m \in Message : rows[m] # Absent /\ \A l \in Message : rows[l] # Absent => l <= m}

\* The message the current status is about, if there is a row for it.
Target(n) ==
    IF Now(n).kind = "read" THEN Latest ELSE {m \in {Now(n).msg} : rows[m] # Absent}

\* The session's object of message m: loaded now, or the one it has already.
Object(n, m) == IF dirty[n][m] = Absent THEN rows[m] ELSE dirty[n][m]

\* Mutant: what the provider calls the status is stored as it is.
WrittenRaw(n, row) == [row EXCEPT !.status = Now(n).kind]

\* What the status makes of the object.  A read only leaves its watermark; any
\* other status leaves its description, if it has one, and a delivery its time.
Written(n, row) ==
    IF Now(n).kind = "read"
      THEN [row EXCEPT !.detail = n]
      ELSE [status |-> StatusOf[Now(n).kind],
            detail |-> IF Now(n).text THEN n ELSE NoNotice,
            at     |-> IF Now(n).kind = "delivered" THEN n ELSE row.at]

\* The status its event announces.
Announced(n) == IF Now(n).kind = "read" THEN "delivered" ELSE StatusOf[Now(n).kind]

Forget(n) ==
    /\ loaded' = [loaded EXCEPT ![n] = Empty]
    /\ dirty' = [dirty EXCEPT ![n] = Empty]
    /\ queued' = [queued EXCEPT ![n] = <<>>]

\* Mutant: events are inserted in a transaction of their own.
RaiseKeepsEvents(n) ==
    /\ Goto(n, "done")
    /\ answer' = [answer EXCEPT ![n] = "error"]
    /\ Forget(n)
    /\ log' = log \o queued[n]

\* session_dep on an exception: nothing was flushed, all is forgotten.
Raise(n) ==
    /\ Goto(n, "done")
    /\ answer' = [answer EXCEPT ![n] = "error"]
    /\ Forget(n)
    /\ UNCHANGED log

Fault == faults < MaxFaults /\ faults' = faults + 1

\* On to the next status of the batch, or to the answer.
Proceed(n) ==
    IF item[n] = Len(Batch[n])
      THEN /\ Goto(n, "responded")
           /\ answer' = [answer EXCEPT ![n] = "ok"]
           /\ UNCHANGED item
      ELSE /\ Goto(n, "find")
           /\ item' = [item EXCEPT ![n] = @ + 1]
           /\ UNCHANGED answer

-----------------------------------------------------------------------------
\* A message is committed by POST /outbound.
Send(m) ==
    /\ rows[m] = Absent
    /\ rows' = [rows EXCEPT ![m] = [status |-> "queued", detail |-> NoNotice, at |-> NoNotice]]
    /\ UNCHANGED <<log, audit, pc, item, loaded, dirty, queued, answer, faults>>

\* A signed notice comes in.  One that carries nothing is answered at once.
Deliver(n) ==
    /\ pc[n] = "new"
    /\ IF Batch[n] = <<>>
         THEN /\ Goto(n, "responded")
              /\ answer' = [answer EXCEPT ![n] = "ok"]
              /\ UNCHANGED item
         ELSE Goto(n, "find") /\ item' = [item EXCEPT ![n] = 1] /\ UNCHANGED answer
    /\ UNCHANGED <<rows, log, audit, loaded, dirty, queued, faults>>

\* Mutant: no event is queued for a status that only confirms the one loaded.
FindQuiet(n) ==
    /\ pc[n] = "find"
    /\ IF Now(n).kind = "other" \/ Target(n) = {}
         THEN Proceed(n) /\ UNCHANGED <<loaded, dirty, queued>>
         ELSE \E m \in Target(n) :
                /\ loaded' = [loaded EXCEPT ![n][m] = IF @ = Absent THEN rows[m] ELSE @]
                /\ dirty' = [dirty EXCEPT ![n][m] = Written(n, Object(n, m))]
                /\ queued' = IF Announced(n) = "delivered" THEN queued
                             ELSE [queued EXCEPT ![n] =
                               Append(@, [msg |-> m, status |-> Announced(n), by |-> n])]
                /\ IF Now(n).kind = "read"
                     THEN Proceed(n)
                     ELSE Goto(n, "audit") /\ UNCHANGED <<item, answer>>
    /\ UNCHANGED <<rows, log, audit, faults>>

\* The message is looked up.  Statuses nobody knows and messages that are not
\* there are passed over with success; a message that is found is written and
\* its event queued.  A read is not audited.
Find(n) ==
    /\ pc[n] = "find"
    /\ IF Now(n).kind = "other" \/ Target(n) = {}
         THEN Proceed(n) /\ UNCHANGED <<loaded, dirty, queued>>
         ELSE \E m \in Target(n) :
                /\ loaded' = [loaded EXCEPT ![n][m] = IF @ = Absent THEN rows[m] ELSE @]
                /\ dirty' = [dirty EXCEPT ![n][m] = Written(n, Object(n, m))]
                /\ queued' = [queued EXCEPT ![n] =
                     Append(@, [msg |-> m, status |-> Announced(n), by |-> n])]
                /\ IF Now(n).kind = "read"
                     THEN Proceed(n)
                     ELSE Goto(n, "audit") /\ UNCHANGED <<item, answer>>
    /\ UNCHANGED <<rows, log, audit, faults>>

\* Mutant: a status is only audited when the loaded row had another one.
AuditChanges(n) ==
    /\ pc[n] = "audit"
    /\ audit' = IF loaded[n][Now(n).msg].status = "queued" THEN audit
                ELSE audit \cup {<<Now(n).msg, Announced(n), n>>}
    /\ Proceed(n)
    /\ UNCHANGED <<rows, log, loaded, dirty, queued, faults>>

\* The status is audited, and the batch goes on.
Audit(n) ==
    /\ pc[n] = "audit"
    /\ audit' = audit \cup {<<Now(n).msg, Announced(n), n>>}
    /\ Proceed(n)
    /\ UNCHANGED <<rows, log, loaded, dirty, queued, faults>>

\* The UPDATE of row m: columns the session changed, others as they are now.
Merged(n, m) ==
    [c \in DOMAIN rows[m] |->
        IF dirty[n][m][c] # loaded[n][m][c] THEN dirty[n][m][c] ELSE rows[m][c]]

\* session_dep after the answer: the session flushes and commits.
Commit(n) ==
    /\ pc[n] = "responded"
    /\ rows' = [m \in Message |-> IF loaded[n][m] = Absent THEN rows[m] ELSE Merged(n, m)]
    /\ log' = log \o queued[n]
    /\ Forget(n)
    /\ Goto(n, "done")
    /\ UNCHANGED <<audit, item, answer, faults>>

\* An await raises.  A failing notaio call may have been recorded.
Fail(n) ==
    /\ pc[n] \in Working
    /\ Fault
    /\ Raise(n)
    /\ \/ UNCHANGED audit
       \/ pc[n] = "audit" /\ audit' = audit \cup {<<Now(n).msg, Announced(n), n>>}
    /\ UNCHANGED <<rows, item>>

\* The COMMIT fails, or the process dies before it, when the answer is out.
CommitFails(n) ==
    /\ LosesCommits
    /\ pc[n] = "responded"
    /\ Fault
    /\ Forget(n)
    /\ Goto(n, "done")
    /\ UNCHANGED <<rows, log, audit, item, answer>>

\* The provider sends the notice again, but only after an error.
Redeliver(n) ==
    /\ pc[n] = "done"
    /\ answer[n] = "error"
    /\ Goto(n, "new")
    /\ answer' = [answer EXCEPT ![n] = "none"]
    /\ UNCHANGED <<rows, log, audit, item, loaded, dirty, queued, faults>>

Init ==
    /\ rows = Empty
    /\ log = <<>>
    /\ audit = {}
    /\ pc = [n \in Notice |-> "new"]
    /\ item = [n \in Notice |-> 1]
    /\ loaded = [n \in Notice |-> Empty]
    /\ dirty = [n \in Notice |-> Empty]
    /\ queued = [n \in Notice |-> <<>>]
    /\ answer = [n \in Notice |-> "none"]
    /\ faults = 0

Next ==
    \/ \E m \in Message : Send(m)
    \/ \E n \in Notice :
         \/ Deliver(n) \/ Find(n) \/ Audit(n) \/ Commit(n)
         \/ Fail(n) \/ CommitFails(n) \/ Redeliver(n)

Spec == Init /\ [][Next]_vars

-----------------------------------------------------------------------------
(* Properties. *)

\* Types of the variables.
TypeOK ==
    /\ rows \in [Message -> Row \cup {Absent}]
    /\ log \in Seq(Event)
    /\ audit \subseteq Message \X Status \X Notice
    /\ pc \in [Notice -> Working \cup {"new", "responded", "done"}]
    /\ item \in [Notice -> Nat]
    /\ loaded \in [Notice -> [Message -> Row \cup {Absent}]]
    /\ dirty \in [Notice -> [Message -> Row \cup {Absent}]]
    /\ queued \in [Notice -> Seq(Event)]
    /\ answer \in [Notice -> {"none", "ok", "error"}]
    /\ faults \in Nat

\* Whatever notices overwrite of each other, the status a message has was
\* announced by an event that was committed with it or before it.
StatusAnnounced ==
    \A m \in Message : rows[m].status \in Status \ {"queued"} =>
        \E i \in DOMAIN log : log[i].msg = m /\ log[i].status = rows[m].status

\* A step that changes the status of a row appends an event that announces it.
Announces(m) ==
    rows[m] # Absent /\ rows'[m].status # rows[m].status =>
        \E i \in DOMAIN log' :
            /\ i > Len(log)
            /\ log'[i].msg = m
            /\ log'[i].status = rows'[m].status

\* A status never changes in silence: whatever columns rivals have overwritten,
\* the commit that changes a status also announces it (the UPDATE of the row
\* and the INSERT of the event are in one transaction).
NoSilentChange == [][\A m \in Message : Announces(m)]_vars

\* A status that reached a message is in the audit chain, as the notice's that
\* announced it.
StatusAudited ==
    \A i \in DOMAIN log :
        (\E j \in DOMAIN Batch[log[i].by] : Batch[log[i].by][j].kind = "read")
        \/ <<log[i].msg, log[i].status, log[i].by>> \in audit

\* A notice that fails half-way and is sent again announces nothing twice: its
\* events are committed together with its last attempt, or not at all.
AnnouncedOnce ==
    \A n \in Notice :
        Cardinality({i \in DOMAIN log : log[i].by = n}) <= Len(Batch[n])

\* When no notice is being handled, the status of a message is the one that
\* the last event about it announced ("status changes on the original Message
\* row + a CloudEvent", delivery_status.py:5-6).
LastEventIsStatus ==
    (\A n \in Notice : pc[n] \in {"new", "done"}) =>
        \A m \in Message : \A i \in DOMAIN log :
            log[i].msg = m /\ (\A j \in DOMAIN log : log[j].msg = m => j <= i)
              => rows[m].status = log[i].status
=============================================================================
