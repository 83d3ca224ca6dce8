------------------------------ MODULE Outbound ------------------------------
(***************************************************************************)
(* POST /outbound: enqueue_outbound, the idempotency-key claim it makes,   *)
(* and the database session that wraps it.                                 *)
(*                                                                         *)
(* A request is handled by one coroutine.  Each action below is the code   *)
(* between two awaits.  The database is PostgreSQL at READ COMMITTED: a    *)
(* SELECT sees committed rows and the transaction's own writes; an INSERT  *)
(* into a unique index waits for any other transaction with an undecided   *)
(* write of the same index entry; a DELETE waits for the row's lock.       *)
(* FastAPI runs the code after the session's "yield" once the response     *)
(* has been sent, so answering and committing are two steps.               *)
(*                                                                         *)
(* A request inserts at most one key row and one message, so a row and a   *)
(* message are named by the request that inserted them.  A message stands  *)
(* for the Message, OutboxItem and EventOutbox rows that one transaction   *)
(* inserts together.                                                       *)
(***************************************************************************)

CONSTANTS
    Request,      \* calls of POST /outbound, retries included
    Key,          \* pairs (actor id, Idempotency-Key header)
    NoKey,        \* the header is absent
    Body,         \* request bodies (equal bodies have equal fingerprints)
    Malformed,    \* bodies with a bad type or direction, or no X-Purpose
    Unaddressed,  \* bodies none of whose recipients has a person id
    MsgId,        \* MsgId[b]: (provider, provider_message_id or event id) of b
    NoRequest     \* no row, no message

ASSUME OutboundAssumption ==
    /\ NoKey \notin Key
    /\ NoRequest \notin Request
    /\ Body # {}
    /\ Malformed \subseteq Body
    /\ Unaddressed \subseteq Body

VARIABLES
    pc,        \* where each request's coroutine is
    req,       \* the key and the body of each request
    keys,      \* committed idempotency_keys rows
    messages,  \* committed messages, with their outbox item and queued event
    tx,        \* undecided writes of each request's transaction
    stale,     \* the expired row the request found and goes on to delete
    answer,    \* what the client was told
    audit,     \* events notaio has recorded
    window     \* history: messages stored under a key since it last expired

vars == <<pc, req, keys, messages, tx, stale, answer, audit, window>>

-----------------------------------------------------------------------------
(* Rows, transactions, answers. *)

NoRow == [by |-> NoRequest, msg |-> NoRequest, expired |-> FALSE]

\* What an entry of the idempotency_keys index can hold; NoRow is no row.
Row == [by : Request \cup {NoRequest}, msg : Request \cup {NoRequest},
        expired : BOOLEAN]

\* del: the expired row is deleted; ins: a key row is inserted; msg: the
\* message, outbox item and event are inserted (and the key row points to it).
Tx == [del : BOOLEAN, ins : BOOLEAN, msg : BOOLEAN]
NoTx == [del |-> FALSE, ins |-> FALSE, msg |-> FALSE]

Code == {"none", "202", "200", "400", "409", "422", "429", "500"}
Answer == [code : Code, msg : Request \cup {NoRequest}]
NoAnswer == [code |-> "none", msg |-> NoRequest]

\* The calls of notaio.record, by the point of the handler that makes them.
AuditAction == [skip    |-> "message.consent.skip",
                denied  |-> "message.send.denied",
                limited |-> "outbound.rate_limited",
                audit   |-> "message.send"]

\* Points at which the handler runs and an await may raise.
Handling == {"select", "insert", "reselect", "delete", "consent", "skip", "denied",
             "actor", "provider", "limited", "store", "audit"}
Running == Handling \cup {"responded"}
PC == Running \cup {"idle", "done"}

KeyOf(r) == req[r].key
IdOf(r) == MsgId[req[r].body]

\* The key row a SELECT of r's transaction returns.
Visible(r) == IF tx[r].del THEN NoRow ELSE keys[KeyOf(r)]

\* Another transaction has an undecided write of r's (actor_id, key) entry.
KeyLocked(r) ==
    \E q \in Request \ {r} : KeyOf(q) = KeyOf(r) /\ (tx[q].ins \/ tx[q].del)

\* Another transaction has deleted the row that r is about to delete.
RowLocked(r) == \E q \in Request \ {r} : KeyOf(q) = KeyOf(r) /\ tx[q].del

\* Another transaction has an undecided message with r's provider id.
IdLocked(r) == \E q \in Request \ {r} : tx[q].msg /\ IdOf(q) = IdOf(r)

Goto(r, p) == pc' = [pc EXCEPT ![r] = p]
Reply(r, code, m) == answer' = [answer EXCEPT ![r] = [code |-> code, msg |-> m]]
EndTx(r) == tx' = [tx EXCEPT ![r] = NoTx]
Record(r) == audit' = audit \cup {<<AuditAction[pc[r]], r>>}

\* Mutant: the error response is sent and the transaction is left open.
RaiseLeaksTx(r, code) ==
    /\ Goto(r, "done")
    /\ UNCHANGED tx
    /\ Reply(r, code, NoRequest)

\* session_dep on an exception: roll back, then send the error response.
Raise(r, code) ==
    /\ Goto(r, "done")
    /\ EndTx(r)
    /\ Reply(r, code, NoRequest)

-----------------------------------------------------------------------------
(* The handler. *)

\* The call comes in.  Envelope, direction and purpose are checked before
\* the database is touched.
Arrive(r) ==
    /\ pc[r] = "idle"
    /\ \E k \in Key \cup {NoKey}, b \in Body :
        /\ req' = [req EXCEPT ![r] = [key |-> k, body |-> b]]
        /\ IF b \in Malformed
             THEN Goto(r, "done") /\ Reply(r, "400", NoRequest)
             ELSE /\ Goto(r, IF k = NoKey THEN "consent" ELSE "select")
                  /\ UNCHANGED answer
    /\ UNCHANGED <<keys, messages, tx, stale, audit, window>>

\* Mutant: the fingerprint is not compared.
FoundAnyBody(r, row) ==
    /\ IF stale[r] # NoRequest
         THEN Goto(r, "consent") /\ UNCHANGED <<answer, stale>>
       ELSE IF row.expired
         THEN /\ Goto(r, "delete")
              /\ stale' = [stale EXCEPT ![r] = row.by]
              /\ UNCHANGED answer
       ELSE Goto(r, "responded") /\ Reply(r, "200", row.msg) /\ UNCHANGED stale
    /\ UNCHANGED tx

\* Mutant: expires_at is not looked at.
FoundForever(r, row) ==
    /\ IF stale[r] # NoRequest
         THEN Goto(r, "consent") /\ UNCHANGED answer
         ELSE /\ Goto(r, "responded")
              /\ IF req[row.by].body # req[r].body
                   THEN Reply(r, "422", NoRequest)
                   ELSE Reply(r, "200", row.msg)
    /\ UNCHANGED <<stale, tx>>

\* claim_key returned (row, False): what the handler makes of the row.  The
\* first time it deletes an expired row, refuses another body or replays;
\* after the second claim it looks at nothing and goes on without a claim.
Found(r, row) ==
    /\ IF stale[r] # NoRequest
         THEN Goto(r, "consent") /\ UNCHANGED <<answer, stale>>
       ELSE IF row.expired
         THEN /\ Goto(r, "delete")
              /\ stale' = [stale EXCEPT ![r] = row.by]
              /\ UNCHANGED answer
       ELSE /\ Goto(r, "responded")
            /\ IF req[row.by].body # req[r].body
                 THEN Reply(r, "422", NoRequest)
                 ELSE Reply(r, "200", row.msg)
            /\ UNCHANGED stale
    /\ UNCHANGED tx

\* claim_key, the first SELECT.
SelectKey(r) ==
    /\ pc[r] = "select"
    /\ IF Visible(r) = NoRow
         THEN Goto(r, "insert") /\ UNCHANGED <<answer, stale, tx>>
         ELSE Found(r, Visible(r))
    /\ UNCHANGED <<req, keys, messages, audit, window>>

\* Mutant: the IntegrityError is swallowed and the row is not read again.
InsertKeySwallows(r) ==
    /\ pc[r] = "insert"
    /\ ~KeyLocked(r)
    /\ IF Visible(r) = NoRow THEN tx' = [tx EXCEPT ![r].ins = TRUE] ELSE EndTx(r)
    /\ Goto(r, "consent")
    /\ UNCHANGED <<req, keys, messages, stale, answer, audit, window>>

\* claim_key, the INSERT: it waits for a rival's undecided write, then either
\* holds the key or meets the rival's row, and then the session rolls back.
InsertKey(r) ==
    /\ pc[r] = "insert"
    /\ ~KeyLocked(r)
    /\ IF Visible(r) = NoRow
         THEN tx' = [tx EXCEPT ![r].ins = TRUE] /\ Goto(r, "consent")
         ELSE EndTx(r) /\ Goto(r, "reselect")
    /\ UNCHANGED <<req, keys, messages, stale, answer, audit, window>>

\* claim_key, the SELECT after the rollback.  Should the rival's row be gone
\* again, the handler goes on without a claim.
Reselect(r) ==
    /\ pc[r] = "reselect"
    /\ IF Visible(r) = NoRow
         THEN Goto(r, "consent") /\ UNCHANGED <<answer, stale, tx>>
         ELSE Found(r, Visible(r))
    /\ UNCHANGED <<req, keys, messages, audit, window>>

\* Mutant: the row is deleted by actor and key, whichever row that is now.
DeleteByKey(r) ==
    /\ pc[r] = "delete"
    /\ ~KeyLocked(r)
    /\ tx' = [tx EXCEPT ![r].del = (keys[KeyOf(r)] # NoRow)]
    /\ Goto(r, "select")
    /\ UNCHANGED <<req, keys, messages, stale, answer, audit, window>>

\* The expired row is deleted by primary key.  A rival that deleted it first
\* leaves this DELETE without a row to match, which the ORM only warns about.
DeleteExpired(r) ==
    /\ pc[r] = "delete"
    /\ ~RowLocked(r)
    /\ tx' = [tx EXCEPT ![r].del = (keys[KeyOf(r)].by = stale[r])]
    /\ Goto(r, "select")
    /\ UNCHANGED <<req, keys, messages, stale, answer, audit, window>>

\* The recipient's person id, then consent: a service may skip it, else
\* medici decides.
Consent(r) ==
    /\ pc[r] = "consent"
    /\ IF req[r].body \in Unaddressed
         THEN Raise(r, "400")
         ELSE /\ \E p \in {"skip", "denied", "actor"} : Goto(r, p)
              /\ UNCHANGED <<tx, answer>>
    /\ UNCHANGED <<req, keys, messages, stale, audit, window>>

\* The override is audited before the message goes on.
AuditSkip(r) ==
    /\ pc[r] = "skip"
    /\ Record(r)
    /\ Goto(r, "actor")
    /\ UNCHANGED <<req, keys, messages, tx, stale, answer, window>>

\* Mutant: the 409 is returned, not raised, so the claim is committed.
AuditDeniedReturns(r) ==
    /\ pc[r] = "denied"
    /\ Record(r)
    /\ Reply(r, "409", NoRequest)
    /\ Goto(r, "responded")
    /\ UNCHANGED <<req, keys, messages, tx, stale, window>>

\* Consent refused: audited, then 409, which rolls the claim back.
AuditDenied(r) ==
    /\ pc[r] = "denied"
    /\ Record(r)
    /\ Raise(r, "409")
    /\ UNCHANGED <<req, keys, messages, stale, window>>

\* The actor's bucket, then the provider's.
TakeToken(r) ==
    /\ pc[r] \in {"actor", "provider"}
    /\ \/ Goto(r, IF pc[r] = "actor" THEN "provider" ELSE "store")
       \/ Goto(r, "limited")
    /\ UNCHANGED <<req, keys, messages, tx, stale, answer, audit, window>>

\* Mutant: the claim is left in the transaction that the 429 commits.
AuditLimitedKeepsClaim(r) ==
    /\ pc[r] = "limited"
    /\ Record(r)
    /\ Reply(r, "429", NoRequest)
    /\ Goto(r, "responded")
    /\ UNCHANGED <<req, keys, messages, tx, stale, window>>

\* A bucket is empty: audited, the claim is deleted again, and 429 is
\* returned, so the transaction goes on to commit.
AuditLimited(r) ==
    /\ pc[r] = "limited"
    /\ Record(r)
    /\ tx' = [tx EXCEPT ![r].ins = FALSE]
    /\ Reply(r, "429", NoRequest)
    /\ Goto(r, "responded")
    /\ UNCHANGED <<req, keys, messages, stale, window>>

\* Mutant: the messages table has no unique constraint on the provider id.
StoreNotUnique(r) ==
    /\ pc[r] = "store"
    /\ tx' = [tx EXCEPT ![r].msg = TRUE]
    /\ Goto(r, "audit")
    /\ UNCHANGED <<req, keys, messages, stale, answer, audit, window>>

\* The message is flushed.  Its provider id is unique: the INSERT waits for a
\* rival's undecided message, and a committed one makes it fail.
Store(r) ==
    /\ pc[r] = "store"
    /\ ~IdLocked(r)
    /\ IF \E m \in messages : IdOf(m) = IdOf(r)
         THEN Raise(r, "500")
         ELSE /\ tx' = [tx EXCEPT ![r].msg = TRUE]
              /\ Goto(r, "audit")
              /\ UNCHANGED answer
    /\ UNCHANGED <<req, keys, messages, stale, audit, window>>

\* Mutant: a notaio outage is logged and the message goes out all the same.
AuditSentBestEffort(r) ==
    /\ pc[r] = "audit"
    /\ Record(r) \/ UNCHANGED audit
    /\ Reply(r, "202", r)
    /\ Goto(r, "responded")
    /\ UNCHANGED <<req, keys, messages, tx, stale, window>>

\* The success is audited and the client gets its 202.
AuditSent(r) ==
    /\ pc[r] = "audit"
    /\ Record(r)
    /\ Reply(r, "202", r)
    /\ Goto(r, "responded")
    /\ UNCHANGED <<req, keys, messages, tx, stale, window>>

\* Mutant: the column holds whether there is a message, not its id.
OwnRowFlag(r) == [by |-> r, msg |-> tx[r].msg, expired |-> FALSE]

\* The key row of a request whose transaction inserted one.
OwnRow(r) == [by |-> r, msg |-> IF tx[r].msg THEN r ELSE NoRequest, expired |-> FALSE]

\* session_dep after the response: the transaction commits.
Commit(r) ==
    /\ pc[r] = "responded"
    /\ keys' = [k \in Key |-> IF k # KeyOf(r) THEN keys[k]
                              ELSE IF tx[r].ins THEN OwnRow(r)
                              ELSE IF tx[r].del THEN NoRow
                              ELSE keys[k]]
    /\ messages' = IF tx[r].msg THEN messages \cup {r} ELSE messages
    /\ window' = [k \in Key |-> IF k = KeyOf(r) /\ tx[r].msg
                                  THEN window[k] \cup {r} ELSE window[k]]
    /\ EndTx(r)
    /\ Goto(r, "done")
    /\ UNCHANGED <<req, stale, answer, audit>>

\* An await raises: medici answers 5xx, notaio or Redis fails, the database
\* fails.  A failing notaio call may have recorded the event all the same.
Fail(r) ==
    /\ pc[r] \in Handling
    /\ Raise(r, "500")
    /\ \/ UNCHANGED audit
       \/ pc[r] \in DOMAIN AuditAction /\ Record(r)
    /\ UNCHANGED <<req, keys, messages, stale, window>>

\* The commit fails when the response is already out.
CommitFails(r) ==
    /\ pc[r] = "responded"
    /\ tx[r] # NoTx
    /\ EndTx(r)
    /\ Goto(r, "done")
    /\ UNCHANGED <<req, keys, messages, stale, answer, audit, window>>

-----------------------------------------------------------------------------
(* The environment. *)

\* The process dies: its requests end, its transactions are rolled back.
Crash ==
    /\ \E r \in Request : pc[r] \in Running
    /\ pc' = [r \in Request |-> IF pc[r] \in Running THEN "done" ELSE pc[r]]
    /\ tx' = [r \in Request |-> NoTx]
    /\ UNCHANGED <<req, keys, messages, stale, answer, audit, window>>

\* A key's 24 hours run out.  No request lasts that long, so no request that
\* has passed its first look at the key is still running.
Expire(k) ==
    /\ keys[k] # NoRow
    /\ ~keys[k].expired
    /\ \A r \in Request : KeyOf(r) = k =>
         \/ pc[r] = "done"
         \/ pc[r] = "select" /\ stale[r] = NoRequest
    /\ keys' = [keys EXCEPT ![k].expired = TRUE]
    /\ window' = [window EXCEPT ![k] = {}]
    /\ UNCHANGED <<pc, req, messages, tx, stale, answer, audit>>

\* Every request has come and gone.
Finished ==
    /\ \A r \in Request : pc[r] = "done"
    /\ UNCHANGED vars

Init ==
    /\ pc = [r \in Request |-> "idle"]
    /\ req = [r \in Request |-> [key |-> NoKey, body |-> CHOOSE b \in Body : TRUE]]
    /\ keys = [k \in Key |-> NoRow]
    /\ messages = {}
    /\ tx = [r \in Request |-> NoTx]
    /\ stale = [r \in Request |-> NoRequest]
    /\ answer = [r \in Request |-> NoAnswer]
    /\ audit = {}
    /\ window = [k \in Key |-> {}]

\* The steps the event loop runs once their await is over.
Handle(r) ==
    \/ SelectKey(r) \/ InsertKey(r) \/ Reselect(r) \/ DeleteExpired(r)
    \/ Consent(r) \/ AuditSkip(r) \/ AuditDenied(r)
    \/ TakeToken(r) \/ AuditLimited(r)
    \/ Store(r) \/ AuditSent(r) \/ Commit(r)

Next ==
    \/ \E r \in Request : Arrive(r) \/ Handle(r) \/ Fail(r) \/ CommitFails(r)
    \/ \E k \in Key : Expire(k)
    \/ Crash
    \/ Finished

Spec == Init /\ [][Next]_vars

-----------------------------------------------------------------------------
(* Properties. *)

\* Types of the variables.
TypeOK ==
    /\ pc \in [Request -> PC]
    /\ req \in [Request -> [key : Key \cup {NoKey}, body : Body]]
    /\ keys \in [Key -> Row]
    /\ messages \subseteq Request
    /\ tx \in [Request -> Tx]
    /\ stale \in [Request -> Request \cup {NoRequest}]
    /\ answer \in [Request -> Answer]
    /\ audit \subseteq ({AuditAction[p] : p \in DOMAIN AuditAction} \X Request)
    /\ window \in [Key -> SUBSET Request]

\* No idempotency key row without its message: a committed row points to a
\* committed message of the request that claimed the key, so a replay never
\* answers with a null id (outbound.py:222-225 on the rejected request).
KeyHasItsMessage ==
    \A k \in Key : keys[k] # NoRow =>
        /\ keys[k].msg = keys[k].by
        /\ keys[k].by \in messages
        /\ KeyOf(keys[k].by) = k

\* A replay names a message that is committed and that was sent under the
\* same key with the same body, however the two requests were interleaved.
ReplayFaithful ==
    \A r \in Request : answer[r].code = "200" =>
        /\ answer[r].msg \in messages
        /\ req[answer[r].msg] = req[r]

\* Only an accepted request leaves anything behind: whatever a 4xx or a 5xx
\* interrupted, no message and no key row of that request is committed.
RejectedLeavesNothing ==
    \A r \in Request : answer[r].code # "202" =>
        /\ r \notin messages
        /\ \A k \in Key : keys[k].by # r

\* The audit chain is ahead of the database: every committed message has its
\* message.send record (notaio_client.py: "If the audit chain cannot be
\* written, the operation must fail"), and none was audited as refused.
AuditedBeforeCommit ==
    \A r \in messages :
        /\ <<"message.send", r>> \in audit
        /\ <<"message.send.denied", r>> \notin audit
        /\ <<"outbound.rate_limited", r>> \notin audit

\* However the callers retry, with a key or without, a provider message id is
\* queued for sending at most once.
OneMessagePerId ==
    \A q, r \in messages : IdOf(q) = IdOf(r) => q = r

\* r's statement waits for an undecided write of q: of the index entry of its
\* key, of the row it deletes, or of its message's provider id.
WaitsFor(r, q) ==
    /\ q # r
    /\ \/ /\ pc[r] = "insert"
          /\ KeyOf(q) = KeyOf(r)
          /\ tx[q].ins \/ tx[q].del
       \/ pc[r] = "delete" /\ KeyOf(q) = KeyOf(r) /\ tx[q].del
       \/ pc[r] = "store" /\ tx[q].msg /\ IdOf(q) = IdOf(r)

\* Waits end.  A key is held through calls to medici, notaio and Redis and a
\* provider id is taken after it; still, whoever is waited for is running and,
\* if it waits as well, then for one that does not.
WaitsEnd ==
    \A q, r \in Request : WaitsFor(r, q) =>
        /\ pc[q] \in Running
        /\ \A p \in Request : WaitsFor(q, p) => \A s \in Request : ~WaitsFor(p, s)

\* As long as a key has not expired, at most one message is stored under it.
OneMessagePerKey ==
    \A k \in Key : \A q, r \in window[k] : q = r

\* r found its key expired, and went on to delete the row.
Late(r) == stale[r] # NoRequest

\* What is left of that where keys do expire: the messages stored since a key
\* last expired have a live row, which names one of them, and every other one
\* comes from a call that itself found the key expired (outbound.py:124-127
\* looks at nothing after the second claim).
OnlyLateTwins ==
    \A k \in Key : \A m \in window[k] :
        /\ keys[k].by \in window[k] /\ ~keys[k].expired
        /\ m # keys[k].by => Late(m)

\* A committed key row stays with its request, its message and its key until
\* it expires: no rival, rollback or refused request takes a live key away.
LiveKeyKept ==
    [][\A k \in Key : keys[k] # NoRow /\ ~keys[k].expired =>
          /\ keys'[k].by = keys[k].by
          /\ keys'[k].msg = keys[k].msg]_vars

\* The handler, its session and its rivals together do what a retrying caller
\* is promised ("safely retry POST /outbound", outbound.py:3), as far as the
\* calls around the end of a key's 24 hours let them.
Promise == INSTANCE IdempotentSend
             WITH asked <- req, told <- answer, stored <- messages,
                  live <- window, late <- {r \in Request : Late(r)}
KeepsPromise == Promise!Spec
=============================================================================
