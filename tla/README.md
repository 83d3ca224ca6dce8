# multichannel in TLA+

TLA+ models of the messaging service in this repository (`src/src/multichannel`),
TLC configurations that check them on small instances, and TLAPS proofs of what
holds for any number of requests, keys, rows, deliveries, events and replicas.

multichannel is sequential Python on one event loop per process, but it is not
a sequential program: every handler gives up control at each `await`, several
replicas share one PostgreSQL and one Redis, providers and callers repeat and
reorder their calls, and the session that wraps a handler commits only after
the client has its answer. The models are about what those things do to one
another. What a handler computes between two awaits is kept as its control flow
over small abstract data.

## 1. The system

| Component | State it keeps | Operations | Talks to |
|---|---|---|---|
| Outbound API and idempotency keys (`api/v1/outbound.py`, `lib/idempotency.py`) | rows of `idempotency_keys`, `messages`, `outbox_items`, `event_outbox`; the undecided writes of each request | `POST /outbound`: claim the key, ask consent, take two tokens, store, audit, answer, commit | medici, notaio, rate limiter, PostgreSQL |
| Session (`runtime.py`, `db.py`) | one transaction per request | roll back on an exception, commit after the response | every handler |
| Event outbox drain (`services/event_outbox_drain.py`) | `event_outbox.state`, the batch of a poll | claim a batch `FOR UPDATE SKIP LOCKED`, publish each row, commit, sleep | Redis stream, PostgreSQL |
| Inbound webhooks (`api/v1/webhooks.py`) | inbound rows of `messages` and their events | verify, look up, insert, audit, per message of a batch | providers, sidecar, notaio |
| Delivery-status webhooks (`api/v1/delivery_status.py`) | `messages.status`, `error`, `raw_provider_payload`; status events | find the message, write the status, queue the event, audit | providers, notaio |
| Rate limiter (`services/rate_limit.py`) | one Redis hash per bucket: tokens, time, expiry | the Lua script, a retry when the call raises | Redis, the clocks of all replicas |
| Outbox drain (`services/outbox_drain.py`) | `outbox_items` state, attempts, next attempt | claim, dispatch (not written yet), back off, give up | providers, PostgreSQL |
| SignalWire relay (`src/sidecar/signalwire-relay`) | the relay session, deliveries in flight, time last alive | translate and post an event, retry, reconnect | SignalWire, inbound webhooks |
| Consent and audit clients (`medici_client.py`, `notaio_client.py`) | none | one HTTP call each | medici, notaio |
| Lifecycle and health (`main.py`, `db.py`) | the two drain tasks, the clients and their connections | start, drain the requests, cancel and await the drains, close the clients; `/health` | drains, all clients |
| Provider adapters, queries, schemas, migrations | none, or only rows | pure functions, reads, DDL | |

What is hard, and what makes each component correct:

- **Outbound.** Callers retry, at once or later, with a key or without one, and a
  key lasts 24 hours. Rivals race between `claim_key`'s SELECT and INSERT, wait
  on the unique index, and roll back. A key must be worth one message, a replay
  must name it, and a refusal must leave neither a key nor a message behind, even
  the 429 that is *returned* (and so committed) where the 409 is *raised*.
- **Session.** Answer first, commit second: whatever is told may still be lost.
- **Event outbox.** At least once, in spite of crashes between XADD and COMMIT;
  not more often than something failed; rows that can never be published must
  not hold up the rest.
- **Inbound.** The same message in several deliveries at once; batches that
  insert in opposite orders; a failure in the middle of a batch. Stored once, all
  or nothing, stored in the end, and "duplicate" only said when it is safe.
- **Status.** Notices of one message race and arrive in any order, and the
  session writes only the columns it believes changed. What was announced must
  be what is stored, and every status of a row must have been announced.
- **Sidecar.** Each event is posted by a task nobody waits for; retries answer 5xx
  only; a stop can come during a session, a pause, a connection attempt or a failing
  close. An event must be lost for a known reason or not at all (one reason needs no
  mishap: another event has its id), and the session
  must come back until the sidecar is told to stop.
- **Lifecycle.** The drains are cancelled at whatever await they are at, or have died
  long before; requests are still at the clients. A client must outlive its users, and a
  dead drain must not keep the rest from being closed.
- **Rate limiter.** The time is read by the caller, before two awaits. The bucket
  caps every window of time; a hash may only be dropped when it would be full.

`PROJECT.json` lists the hazards one by one at their source lines, with the
properties that watch over them and, for those nothing watches over yet, why.

## 2. Modules

| Module | What it is |
|---|---|
| `Outbound` | `POST /outbound` with its claim and its session, any number of rival requests |
| `IdempotentSend` | what that handler promises a retrying caller, without transactions or locks |
| `EventOutbox` | the drains of all replicas over one table of event rows |
| `AtLeastOnce` | what they promise the consumers of the stream |
| `Inbound` | the four inbound webhooks, batches, redeliveries, database deadlocks |
| `Inbox` | what they promise a provider, without transactions or half-done batches |
| `DeliveryStatus` | the three status webhooks over sessions that flush at commit |
| `RateLimit` | one bucket, its script, its callers and their clocks |
| `Relay` | the SignalWire sidecar: its sessions, its deliveries, its end |
| `RelayedInbound` | `Relay` composed with `Inbound` over a service that dies, stops and comes back |
| `Service` | the process around the handlers: drains, requests, clients, SIGTERM |
| `OutboundProofs`, `EventOutboxProofs`, `InboundProofs`, `DeliveryStatusProofs`, `RateLimitProofs`, `RelayProofs`, `RelayedInboundProofs`, `ServiceProofs` | theorems |
| `MC...` | constants for TLC |

### Outbound

A request is one coroutine; each action is the code between two awaits.

| Action | Code |
|---|---|
| `Arrive` | the call, and the checks before the database is touched |
| `SelectKey`, `InsertKey`, `Reselect` | `claim_key`: SELECT, INSERT in a flush, SELECT after the rollback |
| `Found` | what the handler makes of an existing row: expired, other body (422), replay (200) |
| `DeleteExpired` | the ORM delete of an expired row, by primary key |
| `Consent`, `AuditSkip`, `AuditDenied` | person id, medici, and the two records that follow from it |
| `TakeToken`, `AuditLimited` | the actor's and the provider's bucket; the 429 path drops the claim |
| `Store` | the flush of the message, its unique provider id |
| `AuditSent`, `Commit`, `CommitFails` | record, answer, then the session's commit |
| `Fail`, `Crash`, `Expire` | an await raises; the process dies; the 24 hours run out |

PostgreSQL is used at READ COMMITTED. A SELECT sees committed rows and its own; an
INSERT into a unique index waits for a rival's undecided entry (`KeyLocked`,
`IdLocked`); a DELETE waits for the row lock. A message stands for the `Message`,
`OutboxItem` and `EventOutbox` rows which one transaction inserts together. A
request inserts at most one key row and one message, so the request names both.

`window` is a history variable: the messages stored under a key since it last
expired. `IdempotentSend` has the same set as `live`, and calls that are `late`: they
found their key expired, and may store a message beside the one of its new row.

### EventOutbox

A poll is one transaction: `Claim` selects and locks, `Publish`, `PublishFails` and
`SkipPoison` are the per-row body of the loop, `Commit` ends it, `Wake` is the
interval. `DbError` is an exception outside the per-row handler (SELECT or
COMMIT): it ends the task. `Restart` is a crash, or a cancellation at shutdown.
`Poison` rows are those whose event does not validate any more.

### Inbound

`Check` is `_duplicate`, `Insert` the flush, `Audit` the notaio call, repeated along
the batch; `Proceed` leads from one message to the next or to the answer. A cycle
of waits (`InCycle`) is broken by PostgreSQL with an error in one of the statements
(`BreakDeadlock`). `Unfit` deliveries are those no row or event can be made of: every
INSERT of theirs raises. `Crash` takes the process with all its requests, which are
then "cut": their provider hears nothing, which is not a 500. `Redeliver` is the
provider, which comes again after an error or, as a fault of its own, after a success.

### Relay and RelayedInbound

`link` is the main coroutine: `Connect`, `SessionEnds` (without an exception: the
process ends), `Break` and `CloseFails` (with one: a pause, then `Wake`). A stop is seen in
a session or when a pause is over. `Take` makes an event's task, `Post` one
attempt; `Accepted`, `Rejected`, `ServerError` and `NoResponse` are the four ways the
code reacts to its outcome. `Exit`, `Killed` and `Restart` are the process and
Docker's `restart: unless-stopped`. `Elsewhere` is a mishap at the service, which the sidecar
does not see. `Envelope` is what `translate_event` keeps of an event.

In `RelayedInbound` the sidecar is the provider of `Inbound`: `Send` is a post and a
delivery at once, or a post that finds nobody; `Reply` hands the webhook's answer to the
task, and lets the webhook be called again only if the sidecar does; `NoReply` and
`TimeOut` are its losses. Two translations matter for what is stored: `MessageId`
(a missing id becomes the text `"None"`, and an event of a call may bring the call's id)
and `Unfit` (attachments are URLs where the event of a stored message wants objects).

The webhook asks for the id alone, so all events of one id are one message to it. The
properties tell them apart: an event is stored (`IsStored`) if its own delivery has made a row,
and `Eclipsed` if the row of its id is another event's. Such an event is answered "duplicate"
and logged as posted, and what it says is in no row; the model does not know whether that was
the same as what the other said, and neither does the code. `Known` is what the webhook
sees, a row of the id, whoever made it.

### Service

`phase` and `left` are `lifespan`: what is behind its `yield` is a list worked off from
the front, drains first (`Cancel`, `Unwind`, `Await`), then clients (`Close`). `Polled`
ends the outbox drain's first poll with an error when the database refuses to lock
an outer join (`LockRefused`, which PostgreSQL does). A request is at one client at a
time, `/health` at Redis and the database. `Finally` is all of the shutdown.

### DeliveryStatus

`Find` looks the message up in the database or in the session's identity map,
writes the status and queues the event; `Audit` calls notaio; `Commit` flushes:
of each loaded object only the columns whose value differs from what was
*loaded*. Since `db.py` sets `autoflush=False`, nothing is written before.
A read notice (Meta) has no message id and takes the newest of the thread.

### RateLimit

Tokens are counted in grains, so that a second's refill is a whole number. `Eval`
is the script seen by a caller that gets its answer, `EvalRaises` one whose
call raises after, or without, running the script; the code then loads and
calls it again. `Skew` is the distance of a caller's clock from Redis, `MaxDelay`
the time between reading the clock and running the script. `excess` and `overdue` are
observers: leaky buckets that hold the most, over all windows of time ending now,
of what was granted less what the window is worth; `overdue` counts the
time the script moved back as passed.

## 3. Runs

`eventoutbox_polls`, `inbound_batches`, `relayed_events` and `service_stop` use a fair
specification, since they check liveness; the others need no fairness.
`CHECK_DEADLOCK FALSE` appears where the system may rightly stop: no work left, or a
bound used up.

| Run | Instance | What it shows |
|---|---|---|
| `outbound_expiry` | 3 requests, 1 key that can expire, 3 bodies (one without a person id) | Types; a key row has its message; replays are faithful; refusals leave nothing; audit before commit; one message per provider id; requests never wait in a cycle or for one that is gone; a live key is never taken away |
| `outbound_promise` | 3 requests, 1 key that can expire, 3 bodies (one malformed) | Under one key, since it last expired, only calls that found it expired store a message beside the one the key names; `Outbound` implements `IdempotentSend` |
| `outbound_expired_twice` | 3 requests, 1 key that can expire, 3 bodies | finding, section 4 |
| `eventoutbox_polls` | 2 replicas, 3 rows (the oldest is poison), batches of 2, 2 faults | Types; a copy too many costs a fault; implements `AtLeastOnce`; everything publishable is published while one drain is alive |
| `inbound_batches` | 2 Meta batches in opposite orders, one with an id twice, 1 single message, 1 forged delivery, 2 faults | Types; stored once; audited, and never forged; batches are whole; "duplicate" means stored; only a lost commit loses what was answered; `Inbound` implements `Inbox`; every genuine delivery is stored in the end |
| `inbound_lost` | the two batches and a single message, 1 fault | finding |
| `status_notices` | a Meta batch on both messages, a bounce, a read, an unknown kind, an empty notice, 1 fault | Types; no commit changes a status without an event that announces it; announced is audited; no notice announces anything twice |
| `status_lost_update` | a delivery, an open and a bounce of one message | finding |
| `ratelimit_apart` | 2 callers, a bucket of 2, half a token a second, 11 s, one clock ahead by 1 s, calls up to 1 s late | Types and range; what Redis drops was full; any window is capped but for the time the bucket was moved back |
| `ratelimit_late` | clocks in step, calls up to 1 s late | finding |
| `relayed_events` | 3 events: two of one call, which share its id, and a picture without an id; 2 attempts, 1 mishap around the sidecar, 1 failure in the service | Types; "received" means a row of one's own or a lost commit, "duplicate" another event's row; one request per event at a time; retries are paid for by failures; a loss has a cause, or another event its id; the session returns; a stop ends; every event settles |
| `service_stop` | 2 requests, no rate limiter, PostgreSQL, 2 failures | Clients outlive their users; a stop is clean whatever drain has died; a stop ends |

### Why these bounds

- *Three requests with one key*: one holds or leaves a row, and two rivals race
  for it: the SELECT/INSERT race, the loser's rollback and second SELECT, and two
  deletes of one expired row all need two rivals and a row. Requests of
  different keys meet only at the provider id, and the id races there are also
  made by requests without a key. Which key a request uses, or none, is chosen
  freely. The theorems below remove these bounds.
- *Three rows, batches of two, two drains*: a batch that is full and one that is
  not; rows claimed by a rival; a row left over for the next poll. Two faults let a
  duplicate be followed by a second one.
- *Two ids in opposite orders* is the shortest cycle of waits, and the delivery
  with an id twice is the only case where the check finds a row of its own.
- *Two messages and five notices* cover a batch, a race with it, a thread-wide
  read and the two ways of saying nothing. A fault leads to a redelivery of
  the whole notice.
- *Eleven seconds, a bucket of two tokens at half a token a second*: an empty bucket
  takes 4 s to fill and a hash lives for 8 s, so a run sees it expire and the bucket
  start again.
- *Three events of two ids*: the two of one call race for one row, so that one
  of them loses its INSERT and comes back for the answer "duplicate"; where the other is
  never sent, each is an event with an id of its own, which must be stored; the picture can
  never be stored and uses up its attempts. One failure in the service together with
  the race is what it takes to use the second of two attempts; one mishap outside
  gives each way of ending a session and of losing a post its turn. (The safety
  properties were also checked with 3 attempts and 2 failures, 1.45 million states.)
- *Two requests, two failures*: a drain dies of one and a close or a rollback fails
  by the other, while one request uses a client and another is about to.

Named bounds in the modules: `MaxFaults` (failures in a behaviour), `MaxMishaps` (the same
around the sidecar), `MaxPosts` (attempts per event, 5 in the code), `MaxClock` and `MaxDelay`.

### Fairness

- `Outbound`: none. That its requests end is stated without fairness, as `WaitsEnd`:
  a chain of waits leads to a running request that waits for nobody. The rest is
  up to the event loop and to the timeouts of the remote calls.
- `EventOutbox`: `WF(Poll(d))` per live task. Nothing restarts a task that has
  died: `main.py` creates the tasks once; `/health` names the dead drain but its status
  is "ok" regardless.
- `Inbound`: `WF` of the handler's steps, of deliveries and of redelivery after an error,
  which is what the providers' retries are for. (The sidecar is no such provider: it gives
  up, and `RelayedInbound` does without this fairness.) `SF` of each INSERT: it waits in the
  lock queue of its rival's transaction and is woken when that ends, while the
  rival's provider still has to come back with a new request. With `WF` alone, or
  `SF` of "some INSERT of d", two batches in opposite orders could be chosen as
  deadlock victims in turn for ever, each overtaken by the other's redelivery.
- `RelayedInbound`: `WF` of the sidecar's loop (a connection attempt ends, a pause ends,
  a stopped session ends, Docker restarts what exited) and, per event, of its
  task and its request. Nothing says that the service comes back, nor that SignalWire
  has another event: `EventsSettle` names the ways in which an event may then be dropped.
  That a broken session is noticed is taken from the client: `SessionReturns` is about one that has
  one of the four methods the sidecar waits with. With any other it would
  only wait for the stop (`main.py:295-296` of the sidecar), and never make a new session.
- `Service`: `WF(Finally)`; each call to a client ends (`WF(Leave)`), and a handler makes a
  few of them only, so a request that is again and again between two calls gets to its
  answer (`SF(Respond)`). Nothing says that the process is started again. Calls to medici and
  notaio end by a timeout of 5 s; for Redis and PostgreSQL the code sets none, and that their
  calls end is an assumption on them: without it a shutdown can hang.

## 4. Findings

Runs that are expected to be violated. Each checks one statement of the
repository against what the code does.

1. `outbound_expired_twice`. After deleting an expired row the handler claims again
   and ignores whether it won. A rival's fresh row is then neither replayed nor
   refused, and a second message is stored under one live key.
2. `inbound_lost`. `session_dep` commits behind its `yield`, which FastAPI runs after
   the response. A failing commit, or a crash in between, loses an inbound message
   which the provider will not send again. The same goes for a `POST /outbound`
   that has its 202 (in `IdempotentSend`: an `Accept` no `Store` follows).
3. `status_lost_update`. A confirmation and a bounce that race: the session of the
   later commit sees no change in the column it set and does not write it, but its
   event goes out last.
4. `ratelimit_late`. A script call overtaken by a later one sets the bucket's time
   back, and the next refills the same seconds again. With replicas whose clocks
   differ by a constant, alternating calls do this without end. `RefillIsPaid` says
   that this is all that is exceeded: second for second what was moved back.

Other disagreements take one or two steps to see, so no run is spent on them. The models
have those marked with the name of a definition, and their properties make room for them.

- One database error outside the row handler ends the event drain for good
  (`event_outbox_drain.py:39`; `DbError`, the exception in `PublishedWhileAlive`).
- The outbox drain's SELECT locks rows over an outer join, which PostgreSQL refuses: its
  first poll ends it, while `docker-compose.yaml:54-55` says the drains "no-op on empty
  tables" (`LockRefused`). Its dispatch is a TODO: rows would go to DONE unsent.
- An open or click writes DELIVERED over anything, though a comment says "we just
  confirm" (`delivery_status.py:131`; `StatusOf`). A read is booked on the newest message of the
  thread, dispatched or not, though a comment says "most recent dispatched"
  (`:316-317`; `Latest`).
- Of the SignalWire events of one id only one is stored, and the others are dropped as
  duplicates and logged as posted, with nothing gone wrong (`webhooks.py:60-61`; `Eclipsed`). Events share an
  id if they have none, which becomes `"None"` (`webhooks.py:179`; `MessageId`), or if they
  are of one call and have only its id (`translate.py:18`): the sidecar subscribes to the
  states of a call, and its `README.md:55-56` says that "Voice and call events are forwarded".
- Attachments make an event that can never be stored (`translate.py:60`; `Unfit`).
- A client whose close raises keeps those behind it from being closed (`main.py:82-85`; `CloseFails` of
  `Service`, the exception in `CleanStop`).
- The sidecar posts to `/webhook/signalwire`, the service mounts the route under
  `/api/v1` (`main.py:202` of the sidecar; `Refused`).
- The sidecar's health answer turns bad 30 s after the last event of a quiet session.
- A limit of 0 makes the bucket script fail at its EXPIRE, and every call a 500
  (`RateLimitAssumption` excludes it).

## 5. Proofs

`OutboundProofs` proves, for any sets of requests, keys and bodies, every safety
property of `outbound_expiry` and `outbound_promise`. The assumptions are
`OutboundAssumption` (the sentinels are not members, bad bodies are bodies).

None of those properties is inductive. "A replay names a committed message of the
same key and body" needs to know that the committed row points to a message of
its key; this needs the transaction that commits a row to hold its message; and
that needs to know which writes a transaction can hold at each point of the
handler. `IInv` collects that:

- `Shape`: which writes a request holds, and whether it is answered, by its place;
- `Exclusive`: two transactions never hold undecided writes of one key;
- `Undecided`: only expired rows are being deleted, rows are inserted only where none
  is, and a row found expired stays so;
- `Audited`, `Committed`: records, answers and committed messages agree;
- `DistinctIds`: no two messages, committed or undecided, share a provider id.

`WaitsEnd` follows from `Shape` and `Exclusive`: whoever holds a key waits at most for
a provider id, and whoever holds a provider id waits for nobody.

There is one lemma per part (`TypeStep`, `ShapeStep`, `LockStep`, ...) with a step per
action. What happens around the expiry of a key needs one part more, `ExpiryInv`: by the
place of a request, what it may count on about the row of its key (`Standing`: whoever is
past its claim and not late holds the key itself), and that the messages of a
window have a live row which names one of them (`Windowed`). From it follow

- `OnlyLateCallsRepeat`: `OnlyLateTwins`, without an assumption. It is the exact extent of
  finding 1: a second message comes only from a call that found the key expired;
- `KeysAreWorthOneMessage`: in a behaviour in which no key expires (`[]NothingExpired`) a key
  is worth one message. Without that hypothesis it is false, by finding 1;
- `PromiseKept`: every step maps to a step of `IdempotentSend` or a stutter, expiry
  included. A 202 is mapped to `Accept` and the commit behind it to `Store`, so the abstract
  specification says what the code can keep: a promise may come to nothing, and a
  twin of a stored message is stored only by a late call.

`EventOutboxProofs` proves, for any number of replicas and rows and any batch size:
types, `DuplicatesNeedFaults` and the refinement of `AtLeastOnce`. The invariant says
that locked rows are pending and held by one drain (`Held`), that a row marked DONE in
a transaction or in the table has a copy on the stream (`Delivered`), and what
every copy is paid with (`Paid`): a row still to be published has at most as many
copies as there were faults; one already marked may have one more, and undoing the mark is
itself a fault.

Three more theorems are about what `PublishedWhileAlive` rests on. `PollsAreBounded`: a
poll of a finite outbox never holds more rows than a batch has. `PoisonStarvesNobody`: if fewer
rows are poison than a batch has room for, each SELECT takes the oldest row of those it
could publish, since all that is older than it fits into the batch beside it (`OldestServed`).
`EveryBatchIsDone`: until something fails, a poll lets go of a row that can be published
only when it is DONE (`BatchesDone`); its invariant `NonePassedOver` says that what a poll has
locked is still to be published, or has been.

`InboundProofs` proves every safety property of `inbound_batches` and that `Inbound`
implements `Inbox`, for any deliveries, batches, forged and unfit ones. "Batches are
whole" needs to know that what lies behind `item` is stored or in the transaction
(`Progress`); "stored once" that no id is in two transactions, or in one and stored
(`Exclusive`); "audited" that only the current message of a transaction may lack its
record (`Audited`); `Shape` ties transactions and answers to places. In the refinement, a
COMMIT maps to `Keep`: it adds what the batch brings that is not known, because a
message in the transaction cannot be known yet.

`NoStandstill` says that the waits of any finite number of deliveries leave one of them that
waits for nobody, or a cycle, which PostgreSQL breaks (`NeverAllStuck`). If all of them waited, the smallest
set of deliveries that all wait for members of the set would be a cycle: a member nobody
waits for could be left out of it. This is what makes `BreakDeadlock`, and the fairness of the
handler's steps, enough for progress.

`RelayedInboundProofs` takes the webhook's invariant as it is: `ImplementsWebhooks` shows
that every step of sidecar and service is a step of `Inbound` or a stutter, so its theorems
and the promise of `Inbox` hold of the composition. `Journey` adds what the two sides know
of each other: by the place of the task, what the request can be at and what was
answered; how many posts the failures so far pay for; that a loss, a stopped link or a
service that is down has a cause. `Ownership` adds whose rows there are: a row has the id of the
event that made it, only an event answered "received" has one, and one answered so has
it, holds it or has lost it. From the two follow, for any number of events, ids, attempts and
failures, `AnswersAreTrue`, `OneRequestEach`, `RetriesArePaid` and `LossIsCaused`. That events of
one id are taken for one is stated in them (`Eclipsed`), not assumed away: an event whose id no
other has is stored unless something goes wrong, and of the events of one id one is.

`RelayProofs` is about the sidecar by itself, in front of a service that may answer anything.
Ranks show that it comes to an end: once told to stop, its loop has at most four steps left and
none of them opens a session (`StopNears`), and a delivery has at most `2 * MaxPosts + 2` steps
whatever is retried, killed or restarted (`DeliveriesEnd`). `ImplementsSidecar` shows that the
composition implements `RelaySpec`, so both hold there too (`SidecarPromises`).

`DeliveryStatusProofs` proves all four properties of `status_notices`, and that the status of
a row was announced by some event (`StatusAnnounced`). The latter looks
false at first: an UPDATE can leave a column alone because its value is the one the session loaded, which by then is no longer the row's. The invariant `Caused` is what saves
it: a session writes a status only if it differs from the loaded one, and then it has
an event of that status queued, which the same COMMIT inserts; what it does not write
was announced before. `Recorded` ties queued events to records, `Finished` says that only
notices which are answered with success and done have events; together with the bound
on the queue in `Shape` this gives `AnnouncedOnce`, counted over intervals of the log. `NoSilentChange`, of each commit,
rests on `Caused` too. `ApartNothingIsLost` is the other side of finding 3: if the sessions of a message
follow one another (`OneAtATime`) and no notice is a read, its status is what its last event announced. Its
invariant `Agreed` says so of the log, of what a session loaded and of what it queued.

`RateLimitProofs` is about arithmetic over any capacity, rate, clocks and delays. Its invariant
says that what is overdue is missing in the bucket, but for what late or slow callers
have still to fill in (`Worth`), and what times the hash can hold (`Written`). There must be
finitely many callers, so that one clock is fastest and one slowest (`TopCaller`), and
`Spread * Rate <= Full`: the times of two calls are no further apart than an empty bucket takes
to fill, a minute with the code's `capacity / 60`. `RefillIsPaid` does need this: with clocks
4, 2 and 0 s ahead, two tokens and one a second, the slow clocks move the bucket
back by more than a full bucket, and TLC finds a window that gets more than was moved back.
`DroppedWhenFull` also assumes that no clock is ahead of Redis by more than that. `CappedInStep` has no run of
its own: it proves `RateIsCapped` when all clocks agree and no call is late, the
very condition whose absence `ratelimit_late` shows to break it.

`ServiceProofs` proves `ClientsOutliveUsers` and `CleanStop`: the invariant `Shutdown` says by
how far the list of `lifespan` has been worked off which drains have ended and
which clients may still be open. `ShutdownAdvances` counts what lifespan has still to do
(`ToDo`): at most `Len(Order) + 6` steps, which nothing adds to, neither a drain that dies or a close
that fails nor a request (`ShutdownNears`).

*Only model-checked* are the liveness properties (`PublishedWhileAlive`, `EventuallyStored`,
`SessionReturns`, both `StopEnds`, `EventsSettle`), since fairness and ENABLED are out of the
prover's reach here. What each of them rests on besides fairness is proved where it is a matter of
safety: the bounds on the steps that are left (`StopNears`, `DeliveriesEnd`, `ShutdownNears`), that
nobody is passed over (`OldestServed`, `BatchesDone`) and that somebody can always go on
(`WaitsEnd`, `NeverAllStuck`). These, but for `WaitsEnd`, have no run of their own, as they add nothing to
what the liveness runs show of their instances; they were checked with TLC on those instances
before they were proved. What remains is the step from "at most n steps are left and one
can be taken" to "they are taken".

Every safety property and every refinement which a passing run checks is also
proved. `Head` of a poll uses `CHOOSE`; the proofs need of it only that it picks a member
(`HeadIsNext`). Assumptions on constants are those named in the modules, which TLC evaluates,
and the hypotheses of `PollsAreBounded`, `PoisonStarvesNobody`, `NoStandstill`, `ApartNothingIsLost` and
`RateLimitProofs` stated above.

## 6. Not modelled, and why

- **Outbox rows**: `Service` has the outbox drain's task and its polls. Its rows are left
  out: on PostgreSQL no poll gets to them, dispatch is a TODO, and `_mark_retry`, with
  attempts, back-off and DEAD, handles an exception that nothing in its `try` can raise.
- **Sidecar**: its health server, the lengths of its pauses, and the wording of what
  translation keeps. How SignalWire treats events nobody took is unknown to the code.
- **Consent and audit clients**: only as calls that succeed, refuse or raise. A
  raising notaio call may have recorded the event (`Fail`).
- **Provider adapters**: pure mapping onto HTTP calls, and not called yet.
- **Queries, schemas, identifiers, settings, migrations**: reads, validation,
  formatting and DDL without state of their own.
- **Signatures** are an input of the model (`Forged`), and **fingerprints** are the
  bodies themselves. **Row contents** other than status, description and read time are left out.

## 7. Plan

What is left, in this order:

1. Proofs: what a first poll of a drain, or a second attempt of a delivery, is worth in steps
   (a rank for `PublishedWhileAlive` and `EventuallyStored` like those of the sidecar), and how many of a
   caller's messages a window of time can hold in `Outbound` once keys expire.
2. `Pipeline`: `Outbound` feeding `EventOutbox` and `DeliveryStatus`: a status notice that
   overtakes the commit of its message, events in the order of their commits, and what a
   consumer that drops repeated ids would see.
3. `OutboxDrain`: `claim`, attempts, back-off and DEAD over a clock, next to `EventOutbox`,
   once the code dispatches and its claim runs on PostgreSQL.
4. Pure functions against reference definitions: the choice of the recipient, what
   an answer of medici becomes, the status mappings, back-off.
