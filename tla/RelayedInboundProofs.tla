------------------------ MODULE RelayedInboundProofs ------------------------
(***************************************************************************)
(* Proofs about RelayedInbound, for any events, attempts and failures.     *)
(* The webhook's own invariant is WP!IInv, from InboundProofs: what holds   *)
(* for any provider holds for the sidecar.  Journey adds what the two sides *)
(* know of each other, Ownership which events have made the rows there are. *)
(***************************************************************************)
EXTENDS RelayedInbound, RelayProofs, TLAPS

WP == INSTANCE InboundProofs WITH
        Delivery <- Event, Id <- Id \cup {None}, Forged <- Refused,
        Batch <- Messages

-----------------------------------------------------------------------------
(* The webhook's theorems apply. *)

\* Every event brings one message, whose id is a text.
LEMMA MessageType ==
    ASSUME NEW e \in Event
    PROVE  /\ MessageId(e) \in Id \cup {None}
           /\ Messages[e] = <<MessageId(e)>>
           /\ Len(Messages[e]) = 1
           /\ Messages[e] # <<>>
<1>1. Raw[e] \in RawEvent
  BY RelayAssumption
<1>2. MessageId(e) \in Id \cup {None}
  BY <1>1 DEF MessageId, Envelope, RawEvent
<1>3. Messages[e] = <<MessageId(e)>>
  BY DEF Messages
<1> QED
  BY <1>2, <1>3

\* What Inbound assumes of its constants holds here.
LEMMA WebhookAssumption == WP!InboundAssumption
<1>1. ASSUME NEW e \in Event PROVE Messages[e] \in Seq(Id \cup {None})
  <2>1. MessageId(e) \in Id \cup {None} /\ Messages[e] = <<MessageId(e)>>
    BY MessageType
  <2> QED
    BY <2>1
<1>2. Messages \in [Event -> Seq(Id \cup {None})]
  BY <1>1 DEF Messages
<1>3. Unfit \subseteq Event
  BY DEF Unfit
<1> QED
  BY <1>2, <1>3, RelayedAssumption DEF WP!InboundAssumption

\* The ids of an event.
LEMMA OneId ==
    ASSUME NEW e \in Event
    PROVE  WP!Ids(e) = {MessageId(e)}
<1>1. DOMAIN Messages[e] = {1} /\ Messages[e][1] = MessageId(e)
  BY MessageType
<1> QED
  BY <1>1 DEF WP!Ids

\* The webhook's steps, as InboundProofs names them.
LEMMA DeliverIs ==
    ASSUME NEW e \in Event, W!Deliver(e)
    PROVE  WP!Deliver(e)
BY DEF W!Deliver, WP!Deliver, W!Goto, WP!Goto, W!Proceed, WP!Proceed, W!Respond, WP!Respond

\* The same for what the event loop and the database run.
LEMMA HandleIs ==
    ASSUME NEW e \in Event, W!Handle(e)
    PROVE  WP!Handle(e)
<1>1. CASE W!Check(e)
  BY <1>1 DEF W!Check, WP!Check, WP!Handle, W!Goto, WP!Goto, W!Proceed, WP!Proceed,
     W!Respond, WP!Respond, W!Now, WP!Now, W!Committed, WP!Committed
<1>2. CASE W!Insert(e)
  BY <1>2 DEF W!Insert, WP!Insert, WP!Handle, W!Goto, WP!Goto, W!Raise, WP!Raise,
     W!WaitsFor, WP!WaitsFor, W!Now, WP!Now, W!Committed, WP!Committed
<1>3. CASE W!Audit(e)
  BY <1>3 DEF W!Audit, WP!Audit, WP!Handle, W!Goto, WP!Goto, W!Proceed, WP!Proceed,
     W!Respond, WP!Respond, W!Now, WP!Now
<1>4. CASE W!Commit(e)
  BY <1>4 DEF W!Commit, WP!Commit, WP!Handle, W!Goto, WP!Goto
<1>5. CASE W!BreakDeadlock(e)
  BY <1>5 DEF W!BreakDeadlock, WP!BreakDeadlock, WP!Handle, W!InCycle, WP!InCycle, W!Goto,
     WP!Goto, W!Raise, WP!Raise, W!WaitsFor, WP!WaitsFor, W!Now, WP!Now
<1> QED
  BY <1>1, <1>2, <1>3, <1>4, <1>5 DEF W!Handle

\* The same for the faults.
LEMMA FaultsAre ==
    ASSUME NEW e \in Event
    PROVE  /\ W!Fail(e) => WP!Fail(e)
           /\ W!CommitFails(e) => WP!CommitFails(e)
           /\ W!Redeliver(e) => WP!Redeliver(e)
<1>1. W!Fail(e) => WP!Fail(e)
  BY DEF W!Fail, WP!Fail, W!Working, WP!Working, W!Fault, WP!Fault, W!Raise, WP!Raise,
     W!Goto, WP!Goto, W!Now, WP!Now
<1>2. W!CommitFails(e) => WP!CommitFails(e)
  BY DEF W!CommitFails, WP!CommitFails, W!Fault, WP!Fault, W!Goto, WP!Goto
<1>3. W!Redeliver(e) => WP!Redeliver(e)
  BY DEF W!Redeliver, WP!Redeliver, W!Failure, WP!Failure, W!Success, WP!Success, W!Fault,
     WP!Fault, W!Goto, WP!Goto
<1> QED
  BY <1>1, <1>2, <1>3

\* The same for a crash.
LEMMA CrashIs == W!Crash => WP!Crash
BY DEF W!Crash, WP!Crash, W!Working, WP!Working, W!Fault, WP!Fault

\* The two have the same variables and initial states.
LEMMA StartIs == Init => WP!Init
BY DEF Init, W!Init, WP!Init

\* Every step is one of the webhook, or leaves it alone.
LEMMA StepIs == [Next]_vars => [WP!Next]_(WP!vars)
<1> SUFFICES ASSUME [Next]_vars PROVE [WP!Next]_(WP!vars)
  OBVIOUS
<1>1. CASE UNCHANGED webhookVars
  BY <1>1 DEF webhookVars, WP!vars
<1>2. CASE ServiceDies
  BY <1>2, CrashIs DEF ServiceDies, WP!Next
<1>3. ASSUME NEW e \in Event, Send(e) PROVE [WP!Next]_(WP!vars)
  <2>1. CASE up
    BY <1>3, <2>1, DeliverIs DEF Send, WP!Next
  <2>2. CASE ~up
    BY <1>1, <1>3, <2>2 DEF Send
  <2> QED
    BY <2>1, <2>2
<1>4. ASSUME NEW e \in Event, Reply(e) PROVE [WP!Next]_(WP!vars)
  <2>1. UNCHANGED webhookVars \/ W!Redeliver(e)
    BY <1>4 DEF Reply
  <2>2. CASE W!Redeliver(e)
    BY <2>2, FaultsAre DEF WP!Next
  <2> QED
    BY <1>1, <2>1, <2>2
<1>5. ASSUME NEW e \in Event, Serve(e) PROVE [WP!Next]_(WP!vars)
  BY <1>5, HandleIs DEF Serve, WP!Next
<1>6. ASSUME NEW e \in Event, ServiceFails(e) PROVE [WP!Next]_(WP!vars)
  BY <1>6, FaultsAre DEF ServiceFails, WP!Next
<1>7. \/ UNCHANGED webhookVars \/ ServiceDies
      \/ \E e \in Event : Send(e) \/ Reply(e) \/ Serve(e) \/ ServiceFails(e)
  BY DEF Next, vars, Sidecar, Arrive, NoReply, TimeOut, ServiceStops, ServiceStarts
<1> QED
  BY <1>1, <1>2, <1>3, <1>4, <1>5, <1>6, <1>7

\* The webhook keeps its own invariant.
LEMMA WebhookInvariance == WP!IInv /\ [Next]_vars => WP!IInv'
BY StepIs, WebhookAssumption, WP!NextIInv

\* Its invariant holds at the start.
LEMMA WebhookInit == Init => WP!IInv
BY StartIs, WebhookAssumption, WP!InitIInv

-----------------------------------------------------------------------------
(* What the two sides know of each other. *)

Trouble == faults + mishaps > 0

Acked(e) == pc[e] \in {"responded", "done"} /\ answer[e] \in W!Success

\* The posts of e so far are worth their failures.
Paid(e) == e \in Unfit \/ Known(e) \/ posts[e] <= faults

\* By what the sidecar has come to with the event.
SidecarKnows(e) ==
    /\ ev[e] \in {"unsent", "taken", "waiting"} => pc[e] = "new"
    /\ ev[e] \in {"unsent", "taken"} => posts[e] = 0
    /\ ev[e] = "waiting" => posts[e] \in 1 .. MaxPosts - 1 /\ Paid(e)
    /\ ev[e] = "posting" => posts[e] \in 1 .. MaxPosts /\ (pc[e] = "new" => Trouble)
    /\ ev[e] = "posted" => Acked(e)
    /\ ev[e] = "rejected" => e \in Refused
    /\ ev[e] = "given up" => posts[e] >= 1 /\ Paid(e)
    /\ ev[e] = "unreachable" => Trouble
    /\ ev[e] = "cancelled" => stop \/ Trouble

\* By what the webhook has come to with it.
WebhookKnows(e) ==
    /\ answer[e] = "500" => Paid(e)
    /\ answer[e] = "401" => e \in Refused
    /\ answer[e] = "cut" => faults > 0
    /\ pc[e] \in {"check", "insert"} => tx[e] = {}
    /\ e \in Unfit \/ Known(e) \/ posts[e] <= faults + 1

Journey ==
    /\ RelayTypeOK
    /\ up \in BOOLEAN
    /\ \A e \in Event : SidecarKnows(e) /\ WebhookKnows(e)
    /\ link \in {"over", "exited"} => stop \/ Trouble
    /\ ~up => Trouble
    /\ lost # {} => faults > 0

RInv == WP!IInv /\ Journey

\* The initial state satisfies it.
LEMMA InitRInv == Init => RInv
<1> SUFFICES ASSUME Init PROVE Journey
  BY WebhookInit DEF RInv
<1>1. RelayTypeOK
  <2>1. posts \in [Event -> 0 .. MaxPosts]
    BY RelayAssumption DEF Init, RelayInit
  <2>2. mishaps \in 0 .. MaxMishaps
    BY RelayAssumption DEF Init, RelayInit
  <2> QED
    BY <2>1, <2>2 DEF Init, RelayInit, RelayTypeOK
<1>2. ASSUME NEW e \in Event PROVE SidecarKnows(e) /\ WebhookKnows(e)
  BY DEF Init, RelayInit, W!Init, SidecarKnows, WebhookKnows
<1>3. link = "connecting" /\ lost = {} /\ up
  BY DEF Init, RelayInit, W!Init
<1>4. up \in BOOLEAN
  BY DEF Init
<1> QED
  BY <1>1, <1>2, <1>3, <1>4 DEF Journey

-----------------------------------------------------------------------------
(* Steps of the webhook alone. *)

\* What such a step may do to an event.
Quiet(e) ==
    /\ pc'[e] = "new" <=> pc[e] = "new"
    /\ Acked(e) => Acked(e)'
    /\ answer'[e] = "500" =>
         answer[e] = "500" \/ e \in Unfit \/ Known(e) \/ faults' = faults + 1
    /\ answer'[e] = "401" => answer[e] = "401"
    /\ answer'[e] = "cut" => answer[e] = "cut" \/ faults' = faults + 1
    /\ pc'[e] \in {"check", "insert"} => tx'[e] = {}

Grows ==
    /\ faults' = faults \/ faults' = faults + 1
    /\ stored \subseteq stored'
    /\ lost' # lost => faults' = faults + 1

\* An event that its step leaves alone.
LEMMA QuietElsewhere ==
    ASSUME RInv, NEW e \in Event,
           pc'[e] = pc[e], answer'[e] = answer[e], tx'[e] = tx[e]
    PROVE  Quiet(e)
BY DEF RInv, Journey, WebhookKnows, Quiet, Acked

\* A handler that has a single message never goes back to its check.
LEMMA QuietProceed ==
    ASSUME RInv, NEW d \in Event, WP!Proceed(d, item[d] + 1, tx[d]),
           pc[d] \in {"check", "audit"}, UNCHANGED <<tx, stored, lost, faults>>
    PROVE  \A e \in Event : Quiet(e)
<1>0. WP!TypeOK /\ WP!Shape
  BY DEF RInv, WP!IInv
<1>1. item[d] + 1 > Len(Messages[d])
  <2>1. Len(Messages[d]) = 1
    BY MessageType
  <2>2. item[d] \in 1 .. Len(Messages[d])
    BY <1>0 DEF WP!Shape, WP!Working
  <2> QED
    BY <2>1, <2>2
<1>2. /\ pc' = [pc EXCEPT ![d] = "responded"]
      /\ answer' = [answer EXCEPT ![d] = IF tx[d] = {} /\ Messages[d] # <<>>
                                           THEN "duplicate" ELSE "received"]
  BY <1>1 DEF WP!Proceed, WP!Goto, WP!Respond
<1>3. /\ \A c \in Event : c # d => pc'[c] = pc[c] /\ answer'[c] = answer[c]
      /\ pc'[d] = "responded"
      /\ answer'[d] \in {"duplicate", "received"}
  BY <1>0, <1>2 DEF WP!TypeOK
<1>4. Quiet(d)
  BY <1>3 DEF Quiet, Acked
<1> QED
  BY <1>3, <1>4, QuietElsewhere

\* A handler that raises, when there is a reason.
LEMMA QuietRaise ==
    ASSUME RInv, NEW d \in Event, WP!Raise(d), pc[d] \in WP!Working,
           d \in Unfit \/ Known(d) \/ faults' = faults + 1
    PROVE  \A e \in Event : Quiet(e)
<1>0. WP!TypeOK
  BY DEF RInv, WP!IInv
<1>1. /\ pc' = [pc EXCEPT ![d] = "done"]
      /\ tx' = [tx EXCEPT ![d] = {}]
      /\ answer' = [answer EXCEPT ![d] = "500"]
  BY DEF WP!Raise, WP!Goto
<1>2. \A c \in Event : c # d => pc'[c] = pc[c] /\ answer'[c] = answer[c] /\ tx'[c] = tx[c]
  BY <1>0, <1>1 DEF WP!TypeOK
<1>3. pc'[d] = "done" /\ answer'[d] = "500" /\ tx'[d] = {}
  BY <1>0, <1>1 DEF WP!TypeOK
<1>4. Quiet(d)
  BY <1>3 DEF Quiet, Acked, WP!Working
<1> QED
  BY <1>2, <1>4, QuietElsewhere

\* A delivery of one message that waits holds nothing: there are no cycles.
LEMMA NoCycle ==
    ASSUME RInv, NEW d \in Event
    PROVE  ~WP!InCycle(d)
<1> SUFFICES ASSUME WP!InCycle(d) PROVE FALSE
  OBVIOUS
<1>1. PICK S \in SUBSET Event :
        /\ d \in S
        /\ \A c \in S : (\E e \in S : WP!WaitsFor(c, e)) /\ (\E e \in S : WP!WaitsFor(e, c))
  BY DEF WP!InCycle
<1>2. PICK e \in S : WP!WaitsFor(e, d)
  BY <1>1
<1>3. pc[d] = "insert"
  BY <1>1 DEF WP!WaitsFor
<1>4. tx[d] # {}
  BY <1>2 DEF WP!WaitsFor
<1> QED
  BY <1>3, <1>4 DEF RInv, Journey, WebhookKnows

\* What the event loop and the database run.
LEMMA QuietHandle ==
    ASSUME RInv, NEW d \in Event, WP!Handle(d)
    PROVE  Grows /\ \A e \in Event : Quiet(e)
<1>0. WP!TypeOK /\ WP!Shape /\ WP!Progress /\ faults \in Nat
  BY DEF RInv, WP!IInv, WP!TypeOK
<1>1. CASE WP!Check(d)
  <2>1. pc[d] = "check" /\ UNCHANGED <<tx, stored, lost, faults>>
    BY <1>1 DEF WP!Check
  <2>2. CASE WP!Proceed(d, item[d] + 1, tx[d])
    BY <2>1, <2>2, QuietProceed DEF Grows
  <2>3. CASE pc' = [pc EXCEPT ![d] = "insert"] /\ UNCHANGED answer
    <3>1. \A c \in Event : c # d => pc'[c] = pc[c] /\ answer'[c] = answer[c] /\ tx'[c] = tx[c]
      BY <1>0, <2>1, <2>3 DEF WP!TypeOK
    <3>2. Quiet(d)
      BY <1>0, <2>1, <2>3 DEF Quiet, Acked, WP!TypeOK, RInv, Journey, WebhookKnows
    <3> QED
      BY <2>1, <3>1, <3>2, QuietElsewhere DEF Grows
  <2> QED
    BY <1>1, <2>2, <2>3 DEF WP!Check, WP!Goto
<1>2. CASE WP!Insert(d)
  <2>1. pc[d] = "insert" /\ UNCHANGED <<stored, lost, faults>>
    BY <1>2 DEF WP!Insert, WP!Raise
  <2>2. CASE WP!Now(d) \in WP!Committed \/ d \in Unfit
    <3>1. WP!Now(d) = MessageId(d)
      BY <1>0, <2>1, MessageType DEF WP!Now, WP!Shape, WP!Working
    <3>2. Known(d) \/ d \in Unfit
      BY <2>2, <3>1 DEF Known, W!Committed, WP!Committed
    <3>3. WP!Raise(d)
      BY <1>2, <2>2 DEF WP!Insert
    <3> QED
      BY <2>1, <3>2, <3>3, QuietRaise DEF Grows, WP!Working
  <2>3. CASE ~(WP!Now(d) \in WP!Committed \/ d \in Unfit)
    <3>1. /\ pc' = [pc EXCEPT ![d] = "audit"]
          /\ tx' = [tx EXCEPT ![d] = @ \cup {WP!Now(d)}]
          /\ UNCHANGED answer
      BY <1>2, <2>3 DEF WP!Insert, WP!Goto
    <3>2. \A c \in Event : c # d => pc'[c] = pc[c] /\ answer'[c] = answer[c] /\ tx'[c] = tx[c]
      BY <1>0, <3>1 DEF WP!TypeOK
    <3>3. Quiet(d)
      BY <1>0, <2>1, <3>1 DEF Quiet, Acked, WP!TypeOK
    <3> QED
      BY <2>1, <3>2, <3>3, QuietElsewhere DEF Grows
  <2> QED
    BY <2>2, <2>3
<1>3. CASE WP!Audit(d)
  <2>1. /\ pc[d] = "audit"
        /\ UNCHANGED <<tx, stored, lost, faults>>
        /\ WP!Proceed(d, item[d] + 1, tx[d])
    BY <1>3 DEF WP!Audit
  <2> QED
    BY <2>1, QuietProceed DEF Grows
<1>4. CASE WP!Commit(d)
  <2>1. /\ pc[d] = "responded"
        /\ pc' = [pc EXCEPT ![d] = "done"]
        /\ tx' = [tx EXCEPT ![d] = {}]
        /\ stored \subseteq stored'
        /\ UNCHANGED <<answer, lost, faults>>
    BY <1>4 DEF WP!Commit, WP!Goto
  <2>2. \A c \in Event : c # d => pc'[c] = pc[c] /\ answer'[c] = answer[c] /\ tx'[c] = tx[c]
    BY <1>0, <2>1 DEF WP!TypeOK
  <2>3. Quiet(d)
    BY <1>0, <2>1 DEF Quiet, Acked, WP!TypeOK
  <2> QED
    BY <2>1, <2>2, <2>3, QuietElsewhere DEF Grows
<1>5. CASE WP!BreakDeadlock(d)
  BY <1>5, NoCycle DEF WP!BreakDeadlock
<1> QED
  BY <1>1, <1>2, <1>3, <1>4, <1>5 DEF WP!Handle

\* Faults inside the service.
LEMMA QuietFault ==
    ASSUME RInv, NEW d \in Event, WP!Fail(d) \/ WP!CommitFails(d)
    PROVE  Grows /\ \A e \in Event : Quiet(e)
<1>0. WP!TypeOK
  BY DEF RInv, WP!IInv
<1>1. CASE WP!Fail(d)
  <2>1. /\ faults' = faults + 1
        /\ pc[d] \in WP!Working
        /\ WP!Raise(d)
    BY <1>1 DEF WP!Fail, WP!Fault
  <2> QED
    BY <2>1, QuietRaise DEF Grows, WP!Raise
<1>2. CASE WP!CommitFails(d)
  <2>1. /\ faults' = faults + 1
        /\ pc[d] = "responded"
        /\ pc' = [pc EXCEPT ![d] = "done"]
        /\ tx' = [tx EXCEPT ![d] = {}]
        /\ UNCHANGED <<answer, stored>>
    BY <1>2 DEF WP!CommitFails, WP!Fault, WP!Goto
  <2>2. \A c \in Event : c # d => pc'[c] = pc[c] /\ answer'[c] = answer[c] /\ tx'[c] = tx[c]
    BY <1>0, <2>1 DEF WP!TypeOK
  <2>3. Quiet(d)
    BY <1>0, <2>1 DEF Quiet, Acked, WP!TypeOK
  <2> QED
    BY <2>1, <2>2, <2>3, QuietElsewhere DEF Grows
<1> QED
  BY <1>1, <1>2

\* The service dies.
LEMMA QuietCrash ==
    ASSUME RInv, WP!Crash
    PROVE  Grows /\ \A e \in Event : Quiet(e)
<1>0. WP!TypeOK
  BY DEF RInv, WP!IInv
<1>1. /\ faults' = faults + 1
      /\ pc' = [d \in Event |-> IF pc[d] = "new" THEN "new" ELSE "done"]
      /\ tx' = [d \in Event |-> {}]
      /\ answer' = [d \in Event |-> IF pc[d] \in WP!Working THEN "cut" ELSE answer[d]]
      /\ UNCHANGED stored
  BY DEF WP!Crash, WP!Fault
<1>2. ASSUME NEW e \in Event PROVE Quiet(e)
  BY <1>1 DEF Quiet, Acked, WP!Working
<1> QED
  BY <1>1, <1>2 DEF Grows

-----------------------------------------------------------------------------
(* All steps. *)

\* The counters and the history only grow.
Later ==
    /\ faults' \in Nat /\ faults <= faults'
    /\ mishaps' \in 0 .. MaxMishaps /\ mishaps <= mishaps'
    /\ stop' \in BOOLEAN /\ (stop => stop')
    /\ stored \subseteq stored'

\* Sums grow with their terms.
LEMMA SumGrows ==
    ASSUME NEW a \in Nat, NEW b \in Nat, NEW c \in Nat, NEW d \in Nat, a <= c, b <= d
    PROVE  a + b > 0 => c + d > 0
OBVIOUS

\* What has gone wrong, and what is stored, remains so.
LEMMA LaterKeeps ==
    ASSUME RInv, Later
    PROVE  /\ Trouble => Trouble'
           /\ \A e \in Event : Known(e) => Known(e)'
           /\ \A e \in Event : Paid(e) /\ posts'[e] = posts[e] => Paid(e)'
<1>1. faults \in Nat /\ mishaps \in Nat /\ faults' \in Nat /\ mishaps' \in Nat
  BY DEF RInv, WP!IInv, WP!TypeOK, Later, Journey, RelayTypeOK
<1>2. Trouble => Trouble'
  <2>1. faults <= faults' /\ mishaps <= mishaps'
    BY DEF Later
  <2>2. faults + mishaps > 0 => faults' + mishaps' > 0
    BY <1>1, <2>1, SumGrows
  <2> QED
    BY <2>2 DEF Trouble
<1>3. ASSUME NEW e \in Event, Known(e) PROVE Known(e)'
  BY <1>3 DEF Later, Known, W!Committed, MessageId, Envelope
<1>4. ASSUME NEW e \in Event, Paid(e), posts'[e] = posts[e] PROVE Paid(e)'
  <2>1. posts[e] \in Nat
    BY DEF RInv, Journey, RelayTypeOK
  <2>2. CASE posts[e] <= faults
    BY <1>1, <1>4, <2>1, <2>2 DEF Later, Paid
  <2>3. CASE e \in Unfit
    BY <2>3 DEF Paid, Unfit, Envelope
  <2>4. CASE Known(e)
    BY <1>3, <2>4 DEF Paid
  <2> QED
    BY <1>4, <2>2, <2>3, <2>4 DEF Paid
<1> QED
  BY <1>2, <1>3, <1>4

\* An event that the step does not touch.
LEMMA KnownElsewhere ==
    ASSUME RInv, Later, NEW e \in Event,
           ev'[e] = ev[e], posts'[e] = posts[e],
           pc'[e] = pc[e], answer'[e] = answer[e], tx'[e] = tx[e]
    PROVE  SidecarKnows(e)' /\ WebhookKnows(e)'
<1>0. SidecarKnows(e) /\ WebhookKnows(e)
  BY DEF RInv, Journey
<1>1. /\ faults \in Nat /\ faults' \in Nat /\ faults <= faults'
      /\ posts[e] \in Nat
      /\ stop => stop'
  BY DEF RInv, WP!IInv, WP!TypeOK, Later, Journey, RelayTypeOK
<1>2. /\ Trouble => Trouble'
      /\ Known(e) => Known(e)'
      /\ Paid(e) => Paid(e)'
  BY LaterKeeps
<1>3. SidecarKnows(e)'
  BY <1>0, <1>1, <1>2 DEF SidecarKnows, Acked
<1>4. (e \in Unfit \/ Known(e) \/ posts[e] <= faults + 1)'
  BY <1>0, <1>1, <1>2 DEF WebhookKnows, Unfit, Envelope
<1> QED
  BY <1>0, <1>1, <1>2, <1>3, <1>4 DEF WebhookKnows

\* A step of the webhook alone.
LEMMA WebhookStep ==
    ASSUME RInv, Grows, \A e \in Event : Quiet(e), UNCHANGED relayVars,
           up' = up \/ (up' = FALSE /\ faults' = faults + 1)
    PROVE  Journey'
<1>0. /\ faults \in Nat /\ faults' \in Nat /\ faults <= faults'
      /\ mishaps \in 0 .. MaxMishaps /\ mishaps \in Nat
      /\ RelayTypeOK
      /\ UNCHANGED <<link, stop, ev, posts, mishaps>>
  BY DEF RInv, WP!IInv, WP!TypeOK, Journey, RelayTypeOK, Grows, relayVars
<1>1. Later
  BY <1>0 DEF Later, Grows, RelayTypeOK
<1>2. /\ Trouble => Trouble'
      /\ \A e \in Event : Known(e) => Known(e)'
      /\ \A e \in Event : Paid(e) => Paid(e)'
  BY <1>0, <1>1, LaterKeeps
<1>3. RelayTypeOK'
  BY <1>0 DEF RelayTypeOK
<1>4. up' \in BOOLEAN /\ (~up' => Trouble')
  <2>1. up' \in BOOLEAN
    BY DEF RInv, Journey
  <2>2. faults' = faults + 1 => Trouble'
    BY <1>0 DEF Trouble
  <2>3. ~up' => Trouble'
    BY <1>2, <2>2 DEF RInv, Journey
  <2> QED
    BY <2>1, <2>3
<1>5. ASSUME NEW e \in Event PROVE SidecarKnows(e)' /\ WebhookKnows(e)'
  <2>0. SidecarKnows(e) /\ WebhookKnows(e) /\ Quiet(e) /\ posts[e] \in Nat
    BY <1>0 DEF RInv, Journey, RelayTypeOK
  <2>1. SidecarKnows(e)'
    BY <1>0, <1>2, <2>0 DEF SidecarKnows, Quiet
  <2>2. Unfit' = Unfit
    BY DEF Unfit, Envelope
  <2>3. (answer[e] = "500" => Paid(e))'
    <3>1. CASE answer'[e] = "500" /\ faults' = faults + 1
      BY <1>0, <1>2, <2>0, <2>2, <3>1 DEF WebhookKnows, Paid
    <3>2. CASE answer'[e] = "500" /\ faults' # faults + 1
      BY <1>2, <2>0, <2>2, <3>2 DEF WebhookKnows, Paid, Quiet
    <3> QED
      BY <3>1, <3>2
  <2>4. (answer[e] = "401" => e \in Refused)'
    BY <2>0 DEF WebhookKnows, Quiet
  <2>5. (answer[e] = "cut" => faults > 0)'
    BY <1>0, <2>0 DEF WebhookKnows, Quiet
  <2>6. (pc[e] \in {"check", "insert"} => tx[e] = {})'
    BY <2>0 DEF Quiet
  <2>7. (e \in Unfit \/ Known(e) \/ posts[e] <= faults + 1)'
    BY <1>0, <1>2, <2>0, <2>2 DEF WebhookKnows
  <2> QED
    BY <2>1, <2>3, <2>4, <2>5, <2>6, <2>7 DEF WebhookKnows
<1>6. (link \in {"over", "exited"} => stop \/ Trouble)'
  BY <1>0, <1>2 DEF RInv, Journey
<1>7. (lost # {} => faults > 0)'
  BY <1>0 DEF RInv, Journey, Grows
<1> QED
  BY <1>3, <1>4, <1>5, <1>6, <1>7 DEF Journey

\* A step of the sidecar's main coroutine.
LEMMA SidecarStep ==
    ASSUME RInv, Sidecar
    PROVE  Journey'
<1>0. /\ UNCHANGED <<up, webhookVars, posts>>
      /\ UNCHANGED <<pc, item, tx, stored, answer, audit, lost, faults>>
  BY DEF Sidecar, webhookVars, Main, Connect, Break, CloseFails, SessionEnds, Wake, Signal, Exit,
     Killed, Restart, Meanwhile
<1>1. /\ mishaps' = mishaps \/ (mishaps < MaxMishaps /\ mishaps' = mishaps + 1)
      /\ stop' = stop \/ stop' = TRUE
  BY DEF Sidecar, Main, Connect, Break, CloseFails, SessionEnds, Wake, Signal, Exit, Killed,
     Restart, Meanwhile, Mishap
<1>2. /\ faults \in Nat
      /\ mishaps \in 0 .. MaxMishaps /\ MaxMishaps \in Nat
      /\ stop \in BOOLEAN
      /\ RelayTypeOK
  BY RelayAssumption DEF RInv, WP!IInv, WP!TypeOK, Journey, RelayTypeOK
<1>3. mishaps' \in 0 .. MaxMishaps /\ mishaps <= mishaps'
  BY <1>1, <1>2
<1>4. Later
  <2>1. stop' \in BOOLEAN /\ (stop => stop')
    BY <1>1, <1>2
  <2> QED
    BY <1>0, <1>2, <1>3, <2>1 DEF Later
<1>5. Trouble => Trouble'
  BY <1>4, LaterKeeps
<1>6. mishaps' = mishaps + 1 => Trouble'
  BY <1>0, <1>2 DEF Trouble
<1>7. (link \in {"over", "exited"} => stop \/ Trouble)'
  <2>1. CASE Connect \/ CloseFails \/ Restart
    BY <2>1 DEF Connect, CloseFails, Restart
  <2>2. CASE Break \/ SessionEnds
    BY <1>6, <2>2 DEF Break, SessionEnds, AfterException, Mishap, Meanwhile
  <2>3. CASE Wake
    BY <2>3 DEF Wake, Meanwhile
  <2>4. CASE Signal
    BY <2>4 DEF Signal
  <2>5. CASE Exit
    BY <1>5, <2>5 DEF Exit, RInv, Journey
  <2>6. CASE Killed
    BY <1>6, <2>6 DEF Killed, Mishap
  <2> QED
    BY <2>1, <2>2, <2>3, <2>4, <2>5, <2>6 DEF Sidecar, Main
<1>8. link' \in {"connecting", "open", "paused", "over", "exited"}
  BY <1>2 DEF Sidecar, Main, Connect, Break, CloseFails, SessionEnds, Wake, Signal, Exit, Killed,
     Restart, AfterException, RelayTypeOK
<1>9. UNCHANGED ev \/ (ev' = Cancelled /\ link' = "exited")
  BY DEF Sidecar, Main, Connect, Break, CloseFails, SessionEnds, Wake, Signal, Exit, Killed,
     Restart, Meanwhile
<1>10. RelayTypeOK'
  <2>1. ev' \in [Event -> {"unsent"} \cup Active \cup Final]
    BY <1>2, <1>9 DEF RelayTypeOK, Cancelled, Final
  <2>2. stop' \in BOOLEAN
    BY <1>4 DEF Later
  <2> QED
    BY <1>0, <1>2, <1>3, <1>8, <2>1, <2>2 DEF RelayTypeOK
<1>11. ASSUME NEW e \in Event PROVE SidecarKnows(e)' /\ WebhookKnows(e)'
  <2>1. CASE ev'[e] = ev[e]
    BY <1>0, <1>4, <2>1, KnownElsewhere
  <2>2. CASE ev'[e] # ev[e]
    <3>1. ev'[e] = "cancelled" /\ (stop' \/ Trouble')
      BY <1>7, <1>9, <2>2 DEF Cancelled
    <3>2. WebhookKnows(e) /\ posts[e] \in Nat
      BY <1>2 DEF RInv, Journey, RelayTypeOK
    <3>3. (Paid(e) => Paid(e)') /\ (Known(e) => Known(e)') /\ Unfit' = Unfit
      BY <1>0, <1>4, LaterKeeps DEF Unfit, Envelope
    <3>4. WebhookKnows(e)'
      BY <1>0, <1>2, <3>2, <3>3 DEF WebhookKnows
    <3> QED
      BY <3>1, <3>4 DEF SidecarKnows
  <2> QED
    BY <2>1, <2>2
<1>12. up' \in BOOLEAN /\ (~up' => Trouble')
  BY <1>0, <1>5 DEF RInv, Journey
<1>13. (lost # {} => faults > 0)'
  BY <1>0 DEF RInv, Journey
<1> QED
  BY <1>7, <1>10, <1>11, <1>12, <1>13 DEF Journey

\* What a step that does not go through the whole system leaves alone.
LEMMA Standing ==
    ASSUME RInv
    PROVE  /\ faults \in Nat
           /\ mishaps \in 0 .. MaxMishaps /\ mishaps \in Nat
           /\ MaxMishaps \in Nat /\ MaxPosts \in Nat \ {0}
           /\ stop \in BOOLEAN
           /\ RelayTypeOK
           /\ WP!TypeOK /\ WP!Shape
           /\ \A e \in Event : SidecarKnows(e) /\ WebhookKnows(e) /\ posts[e] \in Nat
BY RelayAssumption DEF RInv, WP!IInv, WP!TypeOK, Journey, RelayTypeOK

\* A step that touches one event, the service's other state and no link keeps
\* all, if it keeps what is known of that event.
LEMMA OneEventStep ==
    ASSUME RInv, NEW e \in Event, NEW s \in {"unsent"} \cup Active \cup Final,
           ev' = [ev EXCEPT ![e] = s], Later, RelayTypeOK',
           UNCHANGED <<link, stop, up, lost>>,
           \A c \in Event : c # e => /\ posts'[c] = posts[c] /\ pc'[c] = pc[c]
                                     /\ answer'[c] = answer[c] /\ tx'[c] = tx[c],
           SidecarKnows(e)', WebhookKnows(e)'
    PROVE  Journey'
<1>1. Trouble => Trouble'
  BY LaterKeeps
<1>2. ASSUME NEW c \in Event PROVE SidecarKnows(c)' /\ WebhookKnows(c)'
  <2>1. CASE c = e
    BY <2>1
  <2>2. CASE c # e
    <3>1. ev'[c] = ev[c]
      BY <2>2, Standing DEF RelayTypeOK
    <3> QED
      BY <2>2, <3>1, KnownElsewhere
  <2> QED
    BY <2>1, <2>2
<1>3. (link \in {"over", "exited"} => stop \/ Trouble)'
  BY <1>1 DEF RInv, Journey
<1>4. up' \in BOOLEAN /\ (~up' => Trouble')
  BY <1>1 DEF RInv, Journey
<1>5. (lost # {} => faults > 0)'
  <2>1. lost # {} => faults > 0
    BY DEF RInv, Journey
  <2>2. faults <= faults' /\ faults' \in Nat
    BY DEF Later
  <2> QED
    BY <2>1, <2>2, Standing
<1> QED
  BY <1>2, <1>3, <1>4, <1>5 DEF Journey

\* The sidecar takes an event.
LEMMA ArriveStep ==
    ASSUME RInv, NEW e \in Event, Arrive(e)
    PROVE  Journey'
<1>1. /\ ev[e] = "unsent"
      /\ ev' = [ev EXCEPT ![e] = "taken"]
      /\ UNCHANGED <<link, stop, posts, mishaps, up>>
      /\ UNCHANGED <<pc, item, tx, stored, answer, audit, lost, faults>>
  BY DEF Arrive, Take, Set, webhookVars
<1>2. RelayTypeOK' /\ ev'[e] = "taken"
  BY <1>1, Standing DEF RelayTypeOK, Active
<1>3. Later
  BY <1>1, Standing DEF Later
<1>4. SidecarKnows(e)'
  BY <1>1, <1>2, Standing DEF SidecarKnows
<1>5. WebhookKnows(e)'
  BY <1>1, <1>3, Standing, LaterKeeps DEF WebhookKnows, Unfit, Envelope
<1> QED
  BY <1>1, <1>2, <1>3, <1>4, <1>5, OneEventStep DEF Active

\* A post comes to nothing: there is no service, or no answer in time.
LEMMA NoAnswerStep ==
    ASSUME RInv, NEW e \in Event, NoReply(e) \/ TimeOut(e)
    PROVE  Journey'
<1>1. /\ ev[e] = "posting"
      /\ ev' = [ev EXCEPT ![e] = "unreachable"]
      /\ UNCHANGED <<link, stop, posts, up>>
      /\ UNCHANGED <<pc, item, tx, stored, answer, audit, lost, faults>>
      /\ mishaps' = mishaps \/ (mishaps < MaxMishaps /\ mishaps' = mishaps + 1)
  BY DEF NoReply, TimeOut, NoResponse, Responded, Set, webhookVars, Mishap
<1>2. mishaps' \in 0 .. MaxMishaps /\ mishaps <= mishaps'
  BY <1>1, Standing
<1>3. RelayTypeOK' /\ ev'[e] = "unreachable"
  BY <1>1, <1>2, Standing DEF RelayTypeOK, Final
<1>4. Later
  BY <1>1, <1>2, Standing DEF Later
<1>5. Trouble'
  <2>1. CASE NoReply(e)
    <3>1. Trouble
      <4>1. answer[e] = "cut" => Trouble
        BY Standing DEF WebhookKnows, Trouble
      <4>2. pc[e] = "new" => Trouble
        BY <1>1, Standing DEF SidecarKnows
      <4> QED
        BY <2>1, <4>1, <4>2 DEF NoReply
    <3> QED
      BY <1>4, <3>1, LaterKeeps
  <2>2. CASE TimeOut(e)
    BY <1>1, <2>2, Standing DEF TimeOut, Mishap, Trouble
  <2> QED
    BY <2>1, <2>2
<1>6. SidecarKnows(e)'
  BY <1>3, <1>5 DEF SidecarKnows
<1>7. WebhookKnows(e)'
  BY <1>1, <1>4, Standing, LaterKeeps DEF WebhookKnows, Unfit, Envelope
<1> QED
  BY <1>1, <1>3, <1>4, <1>6, <1>7, OneEventStep DEF Final

\* A post is made: it starts a request, if there is a service.
LEMMA SendStep ==
    ASSUME RInv, NEW e \in Event, Send(e)
    PROVE  Journey'
<1>1. /\ ev[e] \in {"taken", "waiting"}
      /\ ev' = [ev EXCEPT ![e] = "posting"]
      /\ posts' = [posts EXCEPT ![e] = @ + 1]
      /\ UNCHANGED <<link, stop, mishaps, up>>
  BY DEF Send, Post, Set
<1>2. pc[e] = "new" /\ tx[e] = {} /\ answer[e] = "none"
  BY <1>1, Standing DEF SidecarKnows, WP!Shape, WP!Live, WP!Working
<1>3. /\ UNCHANGED <<tx, stored, lost, faults>>
      /\ \A c \in Event : c # e => pc'[c] = pc[c] /\ answer'[c] = answer[c]
      /\ pc'[e] = "new" => Trouble
      /\ answer'[e] # "none" => answer'[e] = "401" /\ e \in Refused
  <2>1. CASE ~up
    BY <1>2, <2>1 DEF Send, webhookVars, RInv, Journey
  <2>2. CASE up
    <3>1. WP!Deliver(e)
      BY <2>2, DeliverIs DEF Send
    <3>2. UNCHANGED <<tx, stored, lost, faults>>
      BY <3>1 DEF WP!Deliver
    <3>3. CASE e \in Refused
      BY <3>1, <3>2, <3>3, Standing DEF WP!Deliver, WP!Goto, WP!TypeOK
    <3>4. CASE e \notin Refused
      <4>1. WP!Proceed(e, 1, {})
        BY <3>1, <3>4 DEF WP!Deliver
      <4>2. ~(1 > Len(Messages[e]))
        BY MessageType
      <4>3. pc' = [pc EXCEPT ![e] = "check"] /\ answer' = answer
        BY <4>1, <4>2 DEF WP!Proceed, WP!Goto
      <4> QED
        BY <1>2, <3>2, <4>3, Standing DEF WP!TypeOK
    <3> QED
      BY <3>3, <3>4
  <2> QED
    BY <2>1, <2>2
<1>4. /\ ev'[e] = "posting"
      /\ posts'[e] = posts[e] + 1
      /\ posts'[e] \in 1 .. MaxPosts
      /\ \A c \in Event : c # e => posts'[c] = posts[c]
  <2>1. posts'[e] = posts[e] + 1 /\ \A c \in Event : c # e => posts'[c] = posts[c]
    BY <1>1, Standing DEF RelayTypeOK
  <2>2. posts[e] \in 0 .. MaxPosts - 1
    <3>1. SidecarKnows(e) /\ MaxPosts \in Nat \ {0}
      BY Standing
    <3>2. CASE ev[e] = "taken"
      BY <3>1, <3>2 DEF SidecarKnows
    <3>3. CASE ev[e] = "waiting"
      BY <3>1, <3>3 DEF SidecarKnows
    <3> QED
      BY <1>1, <3>2, <3>3
  <2> QED
    BY <1>1, <2>1, <2>2, Standing DEF RelayTypeOK
<1>5. RelayTypeOK'
  <2>1. ev' \in [Event -> {"unsent"} \cup Active \cup Final]
    BY <1>1, Standing DEF RelayTypeOK, Active
  <2>2. posts' \in [Event -> 0 .. MaxPosts]
    <3>1. posts[e] + 1 \in 0 .. MaxPosts
      BY <1>4, Standing
    <3> QED
      BY <1>1, <3>1, Standing DEF RelayTypeOK
  <2> QED
    BY <1>1, <2>1, <2>2, Standing DEF RelayTypeOK
<1>6. Later
  BY <1>1, <1>3, Standing DEF Later
<1>7. (Trouble => Trouble') /\ (Known(e) => Known(e)') /\ Unfit' = Unfit
  BY <1>6, LaterKeeps DEF Unfit, Envelope
<1>8. SidecarKnows(e)'
  BY <1>3, <1>4, <1>7 DEF SidecarKnows
<1>9. (e \in Unfit \/ Known(e) \/ posts[e] <= faults + 1)'
  <2>1. e \in Unfit \/ Known(e) \/ posts[e] <= faults
    <3>1. SidecarKnows(e) /\ faults \in Nat
      BY Standing
    <3>2. CASE ev[e] = "taken"
      BY <3>1, <3>2 DEF SidecarKnows
    <3>3. CASE ev[e] = "waiting"
      <4>1. Paid(e)
        BY <3>1, <3>3 DEF SidecarKnows
      <4> QED
        BY <4>1 DEF Paid
    <3> QED
      BY <1>1, <3>2, <3>3
  <2> QED
    BY <1>3, <1>4, <1>7, <2>1, Standing
<1>10. WebhookKnows(e)'
  BY <1>2, <1>3, <1>9 DEF WebhookKnows
<1> QED
  BY <1>1, <1>3, <1>4, <1>5, <1>6, <1>8, <1>10, OneEventStep DEF Active

\* The answer comes back.
LEMMA ReplyStep ==
    ASSUME RInv, NEW e \in Event, Reply(e)
    PROVE  Journey'
<1>1. /\ ev[e] = "posting"
      /\ UNCHANGED <<link, stop, posts, mishaps, up>>
  BY DEF Reply, Accepted, Rejected, ServerError, Responded
<1>2. posts[e] \in 1 .. MaxPosts /\ ev \in [Event -> {"unsent"} \cup Active \cup Final]
  BY <1>1, Standing DEF SidecarKnows, RelayTypeOK
<1>3. CASE \/ answer[e] \in W!Success /\ Accepted(e) /\ UNCHANGED webhookVars
           \/ answer[e] = "401" /\ Rejected(e) /\ UNCHANGED webhookVars
           \/ /\ answer[e] = "500"
              /\ posts[e] = MaxPosts
              /\ ServerError(e)
              /\ UNCHANGED webhookVars
  <2>1. UNCHANGED <<pc, item, tx, stored, answer, audit, lost, faults>>
    BY <1>3 DEF webhookVars
  <2>2. PICK s \in Final :
          /\ ev' = [ev EXCEPT ![e] = s]
          /\ s = "posted" => answer[e] \in W!Success
          /\ s = "rejected" => answer[e] = "401"
          /\ s = "given up" => answer[e] = "500"
          /\ s \notin {"unreachable", "cancelled"}
    BY <1>3 DEF Accepted, Rejected, ServerError, Responded, Set, Final
  <2>3. ev'[e] = s /\ RelayTypeOK'
    BY <1>1, <1>2, <2>2, Standing DEF RelayTypeOK
  <2>4. Later
    BY <1>1, <2>1, Standing DEF Later
  <2>5. (Paid(e) => Paid(e)') /\ (Known(e) => Known(e)') /\ Unfit' = Unfit
    BY <1>1, <2>4, LaterKeeps DEF Unfit, Envelope
  <2>6. WebhookKnows(e)'
    BY <1>1, <2>1, <2>5, Standing DEF WebhookKnows
  <2>7. SidecarKnows(e)'
    <3>1. s = "posted" => Acked(e)'
      <4>1. answer[e] \in W!Success => pc[e] \notin WP!Working \cup {"new"}
        BY Standing DEF WP!Shape, W!Success
      <4>2. pc[e] \in WP!Working \cup {"new", "responded", "done"}
        BY Standing DEF WP!TypeOK
      <4> QED
        BY <2>1, <2>2, <4>1, <4>2 DEF Acked
    <3>2. s = "rejected" => e \in Refused
      BY <2>2, Standing DEF WebhookKnows
    <3>3. s = "given up" => posts'[e] >= 1 /\ Paid(e)'
      <4>1. s = "given up" => Paid(e)
        BY <2>2, Standing DEF WebhookKnows
      <4>2. posts'[e] >= 1
        BY <1>1, <1>2, Standing
      <4> QED
        BY <2>5, <4>1, <4>2
    <3> QED
      BY <2>2, <2>3, <3>1, <3>2, <3>3 DEF SidecarKnows, Final
  <2> QED
    BY <1>1, <2>1, <2>2, <2>3, <2>4, <2>6, <2>7, OneEventStep
<1>4. CASE /\ answer[e] = "500"
           /\ posts[e] # MaxPosts
           /\ ServerError(e)
           /\ W!Redeliver(e)
  <2>1. WP!Redeliver(e)
    BY <1>4, FaultsAre
  <2>2. /\ pc' = [pc EXCEPT ![e] = "new"]
        /\ answer' = [answer EXCEPT ![e] = "none"]
        /\ UNCHANGED <<item, tx, stored, audit, lost, faults>>
    BY <1>4, <2>1 DEF WP!Redeliver, WP!Goto, WP!Success
  <2>3. ev' = [ev EXCEPT ![e] = "waiting"]
    BY <1>4 DEF ServerError, Responded, Set
  <2>4. ev'[e] = "waiting" /\ RelayTypeOK'
    BY <1>1, <1>2, <2>3, Standing DEF RelayTypeOK, Active
  <2>5. /\ pc'[e] = "new"
        /\ answer'[e] = "none"
        /\ \A c \in Event : c # e => pc'[c] = pc[c] /\ answer'[c] = answer[c]
    BY <2>2, Standing DEF WP!TypeOK
  <2>6. Later
    BY <1>1, <2>2, Standing DEF Later
  <2>7. (Paid(e) => Paid(e)') /\ (Known(e) => Known(e)') /\ Unfit' = Unfit
    BY <1>1, <2>6, LaterKeeps DEF Unfit, Envelope
  <2>8. posts'[e] \in 1 .. MaxPosts - 1
    BY <1>1, <1>2, <1>4, Standing
  <2>9. SidecarKnows(e)'
    BY <1>4, <2>4, <2>5, <2>7, <2>8, Standing DEF SidecarKnows, WebhookKnows
  <2>10. WebhookKnows(e)'
    BY <1>1, <2>2, <2>5, <2>7, Standing DEF WebhookKnows
  <2> QED
    BY <1>1, <2>2, <2>3, <2>4, <2>5, <2>6, <2>9, <2>10, OneEventStep DEF Active
<1>5. ASSUME answer[e] = "500", ServerError(e),
             IF ev'[e] = "waiting" THEN W!Redeliver(e) ELSE UNCHANGED webhookVars
      PROVE  Journey'
  <2>1. ev'[e] = IF posts[e] = MaxPosts THEN "given up" ELSE "waiting"
    BY <1>2, <1>5 DEF ServerError, Responded, Set
  <2>2. CASE posts[e] = MaxPosts
    BY <1>3, <1>5, <2>1, <2>2
  <2>3. CASE posts[e] # MaxPosts
    BY <1>4, <1>5, <2>1, <2>3
  <2> QED
    BY <2>2, <2>3
<1> QED
  BY <1>3, <1>5 DEF Reply

\* The service is stopped or started in peace.
LEMMA StopStartStep ==
    ASSUME RInv, ServiceStops \/ ServiceStarts
    PROVE  Journey'
<1>1. /\ UNCHANGED <<link, stop, ev, posts>>
      /\ UNCHANGED <<pc, item, tx, stored, answer, audit, lost, faults>>
      /\ \/ up' /\ up' \in BOOLEAN /\ mishaps' = mishaps
         \/ up' \in BOOLEAN /\ mishaps < MaxMishaps /\ mishaps' = mishaps + 1
  BY DEF ServiceStops, ServiceStarts, Elsewhere, Mishap, webhookVars, relayVars
<1>2. mishaps' \in 0 .. MaxMishaps /\ mishaps <= mishaps'
  BY <1>1, Standing
<1>3. Later
  BY <1>1, <1>2, Standing DEF Later
<1>4. RelayTypeOK'
  BY <1>1, <1>2, Standing DEF RelayTypeOK
<1>5. Trouble => Trouble'
  BY <1>3, LaterKeeps
<1>6. up' \in BOOLEAN /\ (~up' => Trouble')
  <2>1. mishaps' = mishaps + 1 => Trouble'
    BY <1>1, Standing DEF Trouble
  <2> QED
    BY <1>1, <2>1
<1>7. \A e \in Event : SidecarKnows(e)' /\ WebhookKnows(e)'
  BY <1>1, <1>3, KnownElsewhere
<1>8. (link \in {"over", "exited"} => stop \/ Trouble)'
  BY <1>1, <1>5 DEF RInv, Journey
<1>9. (lost # {} => faults > 0)'
  BY <1>1 DEF RInv, Journey
<1> QED
  BY <1>4, <1>6, <1>7, <1>8, <1>9 DEF Journey

\* Every step keeps the invariant.
LEMMA NextRInv == RInv /\ [Next]_vars => RInv'
<1> SUFFICES ASSUME RInv, [Next]_vars PROVE Journey'
  BY WebhookInvariance DEF RInv
<1>1. CASE UNCHANGED vars
  <2>1. /\ UNCHANGED <<link, stop, ev, posts, mishaps, up>>
        /\ UNCHANGED <<pc, item, tx, stored, answer, audit, lost, faults>>
    BY <1>1 DEF vars, relayVars, webhookVars
  <2>2. Later
    BY <2>1, Standing DEF Later
  <2>3. \A e \in Event : SidecarKnows(e)' /\ WebhookKnows(e)'
    BY <2>1, <2>2, KnownElsewhere
  <2>4. Trouble => Trouble'
    BY <2>2, LaterKeeps
  <2>5. RelayTypeOK'
    BY <2>1, Standing DEF RelayTypeOK
  <2> QED
    BY <2>1, <2>3, <2>4, <2>5 DEF RInv, Journey
<1>2. ASSUME NEW e \in Event, Serve(e) PROVE Journey'
  <2>1. WP!Handle(e) /\ UNCHANGED <<up, relayVars>>
    BY <1>2, HandleIs DEF Serve
  <2> QED
    BY <2>1, QuietHandle, WebhookStep
<1>3. ASSUME NEW e \in Event, ServiceFails(e) PROVE Journey'
  <2>1. (WP!Fail(e) \/ WP!CommitFails(e)) /\ UNCHANGED <<up, relayVars>>
    BY <1>3, FaultsAre DEF ServiceFails
  <2> QED
    BY <2>1, QuietFault, WebhookStep
<1>4. CASE ServiceDies
  <2>1. WP!Crash /\ up' = FALSE /\ UNCHANGED relayVars
    BY <1>4, CrashIs DEF ServiceDies
  <2>2. faults' = faults + 1
    BY <2>1 DEF WP!Crash, WP!Fault
  <2> QED
    BY <2>1, <2>2, QuietCrash, WebhookStep
<1> QED
  BY <1>1, <1>2, <1>3, <1>4, SidecarStep, StopStartStep, ArriveStep, SendStep, ReplyStep,
     NoAnswerStep DEF Next

\* The invariant holds of the specification.
LEMMA Invariance == Spec => []RInv
BY InitRInv, NextRInv, PTL DEF Spec

-----------------------------------------------------------------------------
(* Whose row it is. *)

\* A row has the id of the event that made it; this event has been answered
\* "received", and no other answer goes with a row.
Owned(e) ==
    /\ IsStored(e) => pc[e] = "done" /\ answer[e] = "received"
    /\ pc[e] = "responded" /\ answer[e] = "received" => MessageId(e) \in tx[e]
    /\ pc[e] = "done" /\ answer[e] = "received" => IsStored(e) \/ e \in lost

Ownership ==
    /\ \A row \in stored : row[1] = MessageId(row[2])
    /\ \A e \in Event : Owned(e)

\* An event that a step leaves alone keeps what it owns.
LEMMA OwnedElsewhere ==
    ASSUME Ownership, NEW e \in Event,
           pc'[e] = pc[e], answer'[e] = answer[e], tx'[e] = tx[e],
           <<MessageId(e), e>> \in stored' <=> <<MessageId(e), e>> \in stored,
           lost \subseteq lost'
    PROVE  Owned(e)'
<1>1. IsStored(e)' = IsStored(e)
  BY DEF IsStored, MessageId, Envelope
<1>2. MessageId(e)' = MessageId(e)
  BY DEF MessageId, Envelope
<1> QED
  BY <1>1, <1>2 DEF Ownership, Owned

\* A step that touches no row keeps all, if it keeps what its own event owns.
LEMMA OwnStep ==
    ASSUME RInv, Ownership, NEW d \in Event, stored' = stored, lost \subseteq lost',
           \A c \in Event : c # d => pc'[c] = pc[c] /\ answer'[c] = answer[c] /\ tx'[c] = tx[c],
           Owned(d)'
    PROVE  Ownership'
<1>1. \A c \in Event : c # d => Owned(c)'
  BY OwnedElsewhere
<1> QED
  BY <1>1 DEF Ownership, MessageId, Envelope

\* A request that is over without having stored anything.
LEMMA OwnNothing ==
    ASSUME Ownership, NEW d \in Event, ~IsStored(d), stored' = stored,
           pc'[d] \in {"new", "check", "insert", "audit"} \/ answer'[d] # "received"
    PROVE  Owned(d)'
<1>1. ~IsStored(d)'
  BY DEF IsStored, MessageId, Envelope
<1> QED
  BY <1>1 DEF Owned

\* Only a request that is done can have a row.
LEMMA RowIsDone ==
    ASSUME Ownership, NEW d \in Event, pc[d] # "done" \/ answer[d] # "received"
    PROVE  ~IsStored(d)
BY DEF Ownership, Owned

\* The answer that follows the check or the record of the one message.
LEMMA OwnProceed ==
    ASSUME RInv, Ownership, NEW d \in Event, WP!Proceed(d, item[d] + 1, tx[d]),
           pc[d] \in {"check", "audit"}, UNCHANGED <<tx, stored, lost>>
    PROVE  Ownership'
<1>0. WP!TypeOK /\ WP!Shape /\ WP!Progress /\ WebhookKnows(d)
  BY Standing DEF RInv, WP!IInv
<1>1. item[d] = 1
  <2>1. Len(Messages[d]) = 1
    BY MessageType
  <2>2. item[d] \in 1 .. Len(Messages[d])
    BY <1>0 DEF WP!Shape, WP!Working
  <2> QED
    BY <2>1, <2>2
<1>2. item[d] + 1 > Len(Messages[d])
  <2>1. Len(Messages[d]) = 1
    BY MessageType
  <2> QED
    BY <1>1, <2>1
<1>3. /\ pc' = [pc EXCEPT ![d] = "responded"]
      /\ answer' = [answer EXCEPT ![d] = IF tx[d] = {} /\ Messages[d] # <<>>
                                           THEN "duplicate" ELSE "received"]
  BY <1>2 DEF WP!Proceed, WP!Goto, WP!Respond
<1>4. /\ \A c \in Event : c # d => pc'[c] = pc[c] /\ answer'[c] = answer[c]
      /\ pc'[d] = "responded"
      /\ answer'[d] = IF tx[d] = {} /\ Messages[d] # <<>> THEN "duplicate" ELSE "received"
  BY <1>0, <1>3 DEF WP!TypeOK
<1>5. pc[d] = "audit" => MessageId(d) \in tx[d]
  BY <1>0, <1>1, MessageType DEF WP!Progress, WP!Now
<1>6. answer'[d] = "received" => MessageId(d) \in tx[d]
  BY <1>0, <1>4, <1>5, MessageType DEF WebhookKnows
<1>7. ~IsStored(d)'
  <2>1. ~IsStored(d)
    BY RowIsDone
  <2> QED
    BY <2>1 DEF IsStored, MessageId, Envelope
<1>8. Owned(d)'
  BY <1>4, <1>6, <1>7 DEF Owned, MessageId, Envelope
<1> QED
  BY <1>4, <1>8, OwnStep

\* A COMMIT adds the row of the event that has been answered "received".
LEMMA OwnCommit ==
    ASSUME RInv, Ownership, NEW d \in Event, WP!Commit(d)
    PROVE  Ownership'
<1>0. WP!TypeOK /\ WP!Progress /\ WP!Shape
  BY DEF RInv, WP!IInv
<1>1. /\ pc[d] = "responded"
      /\ stored' = stored \cup {<<i, d>> : i \in tx[d]}
      /\ pc' = [pc EXCEPT ![d] = "done"]
      /\ tx' = [tx EXCEPT ![d] = {}]
      /\ UNCHANGED <<answer, lost>>
  BY DEF WP!Commit, WP!Goto
<1>2. tx[d] \subseteq {MessageId(d)}
  BY <1>0, OneId DEF WP!Progress
<1>3. ASSUME NEW c \in Event, c # d PROVE Owned(c)'
  <2>1. pc'[c] = pc[c] /\ tx'[c] = tx[c]
    BY <1>0, <1>1, <1>3 DEF WP!TypeOK
  <2>2. <<MessageId(c), c>> \in stored' <=> <<MessageId(c), c>> \in stored
    BY <1>1, <1>3
  <2> QED
    BY <1>1, <2>1, <2>2, OwnedElsewhere
<1>4. Owned(d)'
  <2>1. pc'[d] = "done" /\ answer'[d] = answer[d] /\ answer[d] \in WP!Success
    BY <1>0, <1>1 DEF WP!TypeOK, WP!Shape
  <2>2. MessageId(d)' = MessageId(d)
    BY DEF MessageId, Envelope
  <2>3. CASE answer[d] = "received"
    <3>1. MessageId(d) \in tx[d]
      BY <1>1, <2>3 DEF Ownership, Owned
    <3>2. <<MessageId(d), d>> \in stored'
      BY <1>1, <3>1
    <3>3. IsStored(d)'
      BY <2>2, <3>2 DEF IsStored
    <3> QED
      BY <2>1, <2>3, <3>3 DEF Owned
  <2>4. CASE answer[d] = "duplicate"
    <3>1. stored' = stored
      BY <1>0, <1>1, <2>4 DEF WP!Progress
    <3> QED
      BY <1>1, <2>1, <2>4, <3>1, RowIsDone, OwnNothing
  <2> QED
    BY <2>1, <2>3, <2>4 DEF WP!Success
<1>5. \A row \in stored' : row[1] = MessageId(row[2])
  BY <1>1, <1>2 DEF Ownership
<1> QED
  BY <1>3, <1>4, <1>5 DEF Ownership, MessageId, Envelope

\* What the event loop and the database run.
LEMMA OwnHandle ==
    ASSUME RInv, Ownership, NEW d \in Event, WP!Handle(d)
    PROVE  Ownership'
<1>0. WP!TypeOK /\ WP!Shape /\ WP!Progress
  BY DEF RInv, WP!IInv
<1>1. ASSUME pc[d] \in {"check", "insert"}, UNCHANGED <<stored, lost>>,
             NEW p \in {"insert", "audit", "done"}, pc' = [pc EXCEPT ![d] = p],
             NEW t, tx' = [tx EXCEPT ![d] = t],
             NEW a, answer' = [answer EXCEPT ![d] = a], p = "done" => a = "500"
      PROVE  Ownership'
  <2>1. /\ \A c \in Event : c # d => pc'[c] = pc[c] /\ answer'[c] = answer[c] /\ tx'[c] = tx[c]
        /\ pc'[d] = p /\ answer'[d] = a
    BY <1>0, <1>1 DEF WP!TypeOK
  <2>2. Owned(d)'
    BY <1>1, <2>1, RowIsDone, OwnNothing
  <2> QED
    BY <1>1, <2>1, <2>2, OwnStep
<1>2. CASE WP!Check(d)
  <2>1. pc[d] = "check" /\ UNCHANGED <<tx, stored, lost>>
    BY <1>2 DEF WP!Check
  <2>2. CASE WP!Proceed(d, item[d] + 1, tx[d])
    BY <2>1, <2>2, OwnProceed
  <2>3. CASE pc' = [pc EXCEPT ![d] = "insert"] /\ UNCHANGED answer
    <3>1. tx' = [tx EXCEPT ![d] = tx[d]] /\ answer' = [answer EXCEPT ![d] = answer[d]]
      BY <1>0, <2>1, <2>3 DEF WP!TypeOK
    <3> QED
      BY <1>1, <2>1, <2>3, <3>1
  <2> QED
    BY <1>2, <2>2, <2>3 DEF WP!Check, WP!Goto
<1>3. CASE WP!Insert(d)
  <2>1. pc[d] = "insert" /\ UNCHANGED <<stored, lost>>
    BY <1>3 DEF WP!Insert, WP!Raise
  <2>2. CASE WP!Now(d) \in WP!Committed \/ d \in Unfit
    <3>1. /\ pc' = [pc EXCEPT ![d] = "done"]
          /\ tx' = [tx EXCEPT ![d] = {}]
          /\ answer' = [answer EXCEPT ![d] = "500"]
      BY <1>3, <2>2 DEF WP!Insert, WP!Raise, WP!Goto
    <3> QED
      BY <1>1, <2>1, <3>1
  <2>3. CASE ~(WP!Now(d) \in WP!Committed \/ d \in Unfit)
    <3>1. /\ pc' = [pc EXCEPT ![d] = "audit"]
          /\ tx' = [tx EXCEPT ![d] = tx[d] \cup {WP!Now(d)}]
          /\ answer' = [answer EXCEPT ![d] = answer[d]]
      BY <1>0, <1>3, <2>3 DEF WP!Insert, WP!Goto, WP!TypeOK
    <3> QED
      BY <1>1, <2>1, <3>1
  <2> QED
    BY <2>2, <2>3
<1>4. CASE WP!Audit(d)
  <2>1. /\ pc[d] = "audit"
        /\ UNCHANGED <<tx, stored, lost>>
        /\ WP!Proceed(d, item[d] + 1, tx[d])
    BY <1>4 DEF WP!Audit
  <2> QED
    BY <2>1, OwnProceed
<1>5. CASE WP!Commit(d)
  BY <1>5, OwnCommit
<1>6. CASE WP!BreakDeadlock(d)
  BY <1>6, NoCycle DEF WP!BreakDeadlock
<1> QED
  BY <1>2, <1>3, <1>4, <1>5, <1>6 DEF WP!Handle

\* A failing await, a failing COMMIT.
LEMMA OwnFault ==
    ASSUME RInv, Ownership, NEW d \in Event, WP!Fail(d) \/ WP!CommitFails(d)
    PROVE  Ownership'
<1>0. WP!TypeOK
  BY DEF RInv, WP!IInv
<1>1. CASE WP!Fail(d)
  <2>1. /\ pc[d] \in WP!Working
        /\ pc' = [pc EXCEPT ![d] = "done"]
        /\ tx' = [tx EXCEPT ![d] = {}]
        /\ answer' = [answer EXCEPT ![d] = "500"]
        /\ UNCHANGED <<stored, lost>>
    BY <1>1 DEF WP!Fail, WP!Raise, WP!Goto
  <2>2. /\ \A c \in Event : c # d => pc'[c] = pc[c] /\ answer'[c] = answer[c] /\ tx'[c] = tx[c]
        /\ answer'[d] = "500"
    BY <1>0, <2>1 DEF WP!TypeOK
  <2>3. Owned(d)'
    BY <2>1, <2>2, RowIsDone, OwnNothing DEF WP!Working
  <2> QED
    BY <2>1, <2>2, <2>3, OwnStep
<1>2. CASE WP!CommitFails(d)
  <2>1. /\ pc[d] = "responded"
        /\ pc' = [pc EXCEPT ![d] = "done"]
        /\ tx' = [tx EXCEPT ![d] = {}]
        /\ lost' = lost \cup {d}
        /\ UNCHANGED <<answer, stored>>
    BY <1>2 DEF WP!CommitFails, WP!Goto
  <2>2. \A c \in Event : c # d => pc'[c] = pc[c] /\ answer'[c] = answer[c] /\ tx'[c] = tx[c]
    BY <1>0, <2>1 DEF WP!TypeOK
  <2>3. pc'[d] = "done"
    BY <1>0, <2>1 DEF WP!TypeOK
  <2>4. ~IsStored(d)'
    <3>1. ~IsStored(d)
      BY <2>1, RowIsDone
    <3> QED
      BY <2>1, <3>1 DEF IsStored, MessageId, Envelope
  <2>5. Owned(d)'
    BY <2>1, <2>3, <2>4 DEF Owned
  <2> QED
    BY <2>1, <2>2, <2>5, OwnStep
<1> QED
  BY <1>1, <1>2

\* The service dies: a row stays, what was not committed is lost or was not answered.
LEMMA OwnCrash ==
    ASSUME RInv, Ownership, WP!Crash
    PROVE  Ownership'
<1>0. WP!TypeOK
  BY DEF RInv, WP!IInv
<1>1. /\ pc' = [d \in Event |-> IF pc[d] = "new" THEN "new" ELSE "done"]
      /\ tx' = [d \in Event |-> {}]
      /\ lost' = lost \cup {d \in Event : pc[d] = "responded" /\ tx[d] # {}}
      /\ answer' = [d \in Event |-> IF pc[d] \in WP!Working THEN "cut" ELSE answer[d]]
      /\ UNCHANGED stored
  BY DEF WP!Crash
<1>2. ASSUME NEW e \in Event PROVE Owned(e)'
  <2>1. IsStored(e)' = IsStored(e)
    BY <1>1 DEF IsStored, MessageId, Envelope
  <2>2. /\ pc'[e] = IF pc[e] = "new" THEN "new" ELSE "done"
        /\ answer'[e] = IF pc[e] \in WP!Working THEN "cut" ELSE answer[e]
        /\ pc[e] \in WP!Working \cup {"new", "responded", "done"}
    BY <1>0, <1>1 DEF WP!TypeOK
  <2>3. Owned(e)
    BY DEF Ownership
  <2>4. CASE pc[e] \in WP!Working
    BY <2>1, <2>2, <2>3, <2>4 DEF Owned, WP!Working
  <2>5. CASE pc[e] = "new"
    BY <2>1, <2>2, <2>3, <2>5 DEF Owned
  <2>6. CASE pc[e] = "responded"
    BY <1>1, <2>1, <2>2, <2>3, <2>6 DEF Owned, WP!Working
  <2>7. CASE pc[e] = "done"
    BY <1>1, <2>1, <2>2, <2>3, <2>7 DEF Owned, WP!Working
  <2> QED
    BY <2>2, <2>4, <2>5, <2>6, <2>7
<1> QED
  BY <1>1, <1>2 DEF Ownership, MessageId, Envelope

\* Every step keeps the rows with the events that made them.
LEMMA NextOwnership == RInv /\ Ownership /\ [Next]_vars => Ownership'
<1> SUFFICES ASSUME RInv, Ownership, [Next]_vars PROVE Ownership'
  OBVIOUS
<1>0. WP!TypeOK /\ WP!Shape
  BY Standing
<1>1. CASE UNCHANGED webhookVars
  <2>1. UNCHANGED <<pc, tx, stored, answer, lost>>
    BY <1>1 DEF webhookVars
  <2>2. \A e \in Event : Owned(e)'
    BY <2>1, OwnedElsewhere
  <2> QED
    BY <2>1, <2>2 DEF Ownership, MessageId, Envelope
<1>2. CASE ServiceDies
  BY <1>2, CrashIs, OwnCrash DEF ServiceDies
<1>3. ASSUME NEW e \in Event, Send(e) PROVE Ownership'
  <2>1. CASE ~up
    BY <1>1, <1>3, <2>1 DEF Send
  <2>2. CASE up
    <3>1. WP!Deliver(e)
      BY <1>3, <2>2, DeliverIs DEF Send
    <3>2. pc[e] = "new" /\ UNCHANGED <<tx, stored, lost>>
      BY <3>1 DEF WP!Deliver
    <3>3. PICK p \in {"done", "check"}, a \in {"401", "none"} :
            /\ pc' = [pc EXCEPT ![e] = p]
            /\ answer' = [answer EXCEPT ![e] = a]
      <4>1. CASE e \in Refused
        BY <3>1, <4>1 DEF WP!Deliver, WP!Goto
      <4>2. CASE e \notin Refused
        <5>1. WP!Proceed(e, 1, {})
          BY <3>1, <4>2 DEF WP!Deliver
        <5>2. ~(1 > Len(Messages[e]))
          BY MessageType
        <5>3. pc' = [pc EXCEPT ![e] = "check"] /\ answer' = answer
          BY <5>1, <5>2 DEF WP!Proceed, WP!Goto
        <5>4. answer[e] = "none" /\ answer = [answer EXCEPT ![e] = "none"]
          BY <1>0, <3>2 DEF WP!Shape, WP!TypeOK
        <5> QED
          BY <5>3, <5>4
      <4> QED
        BY <4>1, <4>2
    <3>4. /\ \A c \in Event : c # e => pc'[c] = pc[c] /\ answer'[c] = answer[c]
          /\ answer'[e] = a
      BY <1>0, <3>3 DEF WP!TypeOK
    <3>5. Owned(e)'
      BY <3>2, <3>4, RowIsDone, OwnNothing
    <3> QED
      BY <3>2, <3>4, <3>5, OwnStep
  <2> QED
    BY <2>1, <2>2
<1>4. ASSUME NEW e \in Event, Reply(e) PROVE Ownership'
  <2>1. UNCHANGED webhookVars \/ (answer[e] = "500" /\ W!Redeliver(e))
    BY <1>4 DEF Reply
  <2>2. CASE answer[e] = "500" /\ W!Redeliver(e)
    <3>1. /\ pc' = [pc EXCEPT ![e] = "new"]
          /\ answer' = [answer EXCEPT ![e] = "none"]
          /\ UNCHANGED <<tx, stored, lost>>
      BY <2>2, FaultsAre DEF WP!Redeliver, WP!Goto
    <3>2. /\ \A c \in Event : c # e => pc'[c] = pc[c] /\ answer'[c] = answer[c]
          /\ answer'[e] = "none"
      BY <1>0, <3>1 DEF WP!TypeOK
    <3>3. Owned(e)'
      BY <2>2, <3>1, <3>2, RowIsDone, OwnNothing
    <3> QED
      BY <3>1, <3>2, <3>3, OwnStep
  <2> QED
    BY <1>1, <2>1, <2>2
<1>5. ASSUME NEW e \in Event, Serve(e) PROVE Ownership'
  BY <1>5, HandleIs, OwnHandle DEF Serve
<1>6. ASSUME NEW e \in Event, ServiceFails(e) PROVE Ownership'
  BY <1>6, FaultsAre, OwnFault DEF ServiceFails
<1>7. \/ UNCHANGED webhookVars \/ ServiceDies
      \/ \E e \in Event : Send(e) \/ Reply(e) \/ Serve(e) \/ ServiceFails(e)
  BY DEF Next, vars, Sidecar, Arrive, NoReply, TimeOut, ServiceStops, ServiceStarts
<1> QED
  BY <1>1, <1>2, <1>3, <1>4, <1>5, <1>6, <1>7

\* Rows belong to events throughout.
LEMMA OwnershipInvariance == Spec => []Ownership
<1>1. Init => Ownership
  BY DEF Init, W!Init, Ownership, Owned, IsStored
<1> QED
  BY <1>1, NextOwnership, Invariance, PTL DEF Spec

\* An id that is known is that of a row which its event has made, or another one.
LEMMA KnownIsStored ==
    ASSUME Ownership, WP!TypeOK, NEW e \in Event, Known(e)
    PROVE  IsStored(e) \/ Eclipsed(e)
<1>1. PICK row \in stored : row[1] = MessageId(e)
  BY DEF Known, W!Committed
<1>2. row \in (Id \cup {None}) \X Event
  BY DEF WP!TypeOK
<1>3. row[2] \in Event /\ row = <<MessageId(e), row[2]>> /\ MessageId(row[2]) = MessageId(e)
  BY <1>1, <1>2 DEF Ownership
<1>4. IsStored(row[2])
  BY <1>1, <1>3 DEF IsStored
<1> QED
  BY <1>3, <1>4 DEF Eclipsed

-----------------------------------------------------------------------------
(* The theorems. *)

\* The variables of both sides keep their types.
THEOREM TypeCorrect == Spec => []TypeOK
<1>1. RInv => TypeOK
  BY DEF RInv, WP!IInv, Journey, TypeOK, WP!TypeOK, W!TypeOK, WP!Working, W!Working,
     WP!Success, W!Success, WP!Failure, W!Failure
<1> QED
  BY <1>1, Invariance, PTL

\* The sidecar and the service together implement the webhooks with an open
\* provider: what is proved of Inbound holds with the sidecar in front of it.
THEOREM ImplementsWebhooks == Spec => WP!Spec
BY StartIs, StepIs, PTL DEF Spec, WP!Spec

\* And so they keep the promise of the abstract inbox.
THEOREM PromiseKept == Spec => WP!KeepsPromise
BY ImplementsWebhooks, WebhookAssumption, WP!Refinement, PTL

\* They also implement the sidecar with an open service: to it the webhook is one
\* of the services that can answer.
THEOREM ImplementsSidecar == Spec => RelaySpec
<1>1. Init => RelayInit
  BY DEF Init
<1>2. [Next]_vars => [RelayNext]_relayVars
  <2> SUFFICES ASSUME [Next]_vars PROVE [RelayNext]_relayVars
    OBVIOUS
  <2>1. CASE UNCHANGED relayVars
    BY <2>1
  <2>2. CASE Sidecar \/ ServiceStops
    BY <2>2 DEF Sidecar, ServiceStops, RelayNext
  <2>3. ASSUME NEW e \in Event, Arrive(e) \/ Send(e) \/ Reply(e) \/ NoReply(e) \/ TimeOut(e)
        PROVE  RelayNext
    <3>1. \/ Take(e) \/ Post(e) \/ Accepted(e) \/ Rejected(e) \/ ServerError(e)
          \/ NoResponse(e) /\ (UNCHANGED mishaps \/ Mishap)
      BY <2>3 DEF Arrive, Send, Reply, NoReply, TimeOut
    <3> QED
      BY <3>1 DEF RelayNext
  <2>4. \/ UNCHANGED relayVars \/ Sidecar \/ ServiceStops
        \/ \E e \in Event :
             Arrive(e) \/ Send(e) \/ Reply(e) \/ NoReply(e) \/ TimeOut(e)
    BY DEF Next, vars, Serve, ServiceFails, ServiceDies, ServiceStarts
  <2> QED
    BY <2>1, <2>2, <2>3, <2>4
<1> QED
  BY <1>1, <1>2, PTL DEF Spec, RelaySpec

\* What is proved of the sidecar with any service holds with the webhook behind
\* it: a stop only nears its end, and every delivery has an end.
THEOREM SidecarPromises == Spec => StopNears /\ DeliveriesEnd
BY ImplementsSidecar, StopOnlyNears, EveryDeliveryEnds, PTL

\* Of the events logged as posted, a "received" one has a row of its own or its
\* commit was lost, and a "duplicate" one has been dropped for another of its id.
THEOREM PostedIsTrue == Spec => []AnswersAreTrue
<1>1. RInv /\ Ownership => AnswersAreTrue
  <2> SUFFICES ASSUME RInv, Ownership, NEW e \in Event, ev[e] = "posted", pc[e] = "done"
               PROVE  \/ answer[e] = "received" /\ (IsStored(e) \/ e \in lost)
                      \/ answer[e] = "duplicate" /\ Eclipsed(e)
    BY DEF AnswersAreTrue
  <2>1. answer[e] \in {"received", "duplicate"}
    BY DEF RInv, Journey, SidecarKnows, Acked, W!Success
  <2>2. CASE answer[e] = "received"
    BY <2>2 DEF Ownership, Owned
  <2>3. CASE answer[e] = "duplicate"
    <3>1. WP!Ids(e) \subseteq WP!Committed
      BY <2>3 DEF RInv, WP!IInv, WP!DuplicateMeansStored
    <3>2. Known(e)
      BY <3>1, OneId DEF Known, WP!Committed, W!Committed
    <3>3. ~IsStored(e)
      BY <2>3, RowIsDone
    <3> QED
      BY <2>3, <3>2, <3>3, KnownIsStored, Standing
  <2> QED
    BY <2>1, <2>2, <2>3
<1> QED
  BY <1>1, Invariance, OwnershipInvariance, PTL

\* There is never more than one request for an event.
THEOREM OneRequestPerEvent == Spec => []OneRequestEach
<1>1. RInv => OneRequestEach
  BY DEF RInv, Journey, SidecarKnows, OneRequestEach
<1> QED
  BY <1>1, Invariance, PTL

\* Every post after the first is paid for by a failure of the service, unless the
\* message is stored already.
THEOREM RetriesCostFailures == Spec => []RetriesArePaid
<1>1. RInv => RetriesArePaid
  BY DEF RInv, Journey, WebhookKnows, RetriesArePaid
<1> QED
  BY <1>1, Invariance, PTL

\* When nothing goes wrong, an event that is taken and can be stored is stored, but
\* for the row of another event of its id.
THEOREM NoLossWithoutCause == Spec => []LossIsCaused
<1>1. RInv /\ Ownership /\ AnswersAreTrue => LossIsCaused
  <2> SUFFICES ASSUME RInv, Ownership, AnswersAreTrue, faults + mishaps = 0, ~stop,
                      NEW e \in Event, e \notin Unfit, e \notin Refused,
                      ev[e] \in Final, pc[e] = "done"
               PROVE  IsStored(e) \/ Eclipsed(e)
    BY DEF LossIsCaused
  <2>1. ~Trouble /\ faults = 0 /\ lost = {}
    BY Standing DEF Trouble, RInv, Journey
  <2>2. SidecarKnows(e)
    BY Standing
  <2>3. ev[e] \in {"posted", "given up"}
    BY <2>1, <2>2 DEF SidecarKnows, Final
  <2>4. CASE ev[e] = "posted"
    BY <2>1, <2>4 DEF AnswersAreTrue
  <2>5. CASE ev[e] = "given up"
    <3>1. posts[e] >= 1 /\ Paid(e)
      BY <2>2, <2>5 DEF SidecarKnows
    <3>2. Known(e)
      BY <2>1, <3>1, Standing DEF Paid
    <3> QED
      BY <3>2, KnownIsStored, Standing
  <2> QED
    BY <2>3, <2>4, <2>5
<1> QED
  BY <1>1, Invariance, OwnershipInvariance, PostedIsTrue, PTL
=============================================================================
