-------------------------- MODULE RelayedInbound ---------------------------
(***************************************************************************)
(* The way of a SignalWire event: the relay sidecar posts it to the inbound *)
(* webhook.  The provider that Inbound leaves open is Relay here: an event  *)
(* is a delivery of one message, and a delivery comes again only when the   *)
(* sidecar posts it again, which it does after a 500 and for nothing else.  *)
(***************************************************************************)
EXTENDS Relay, Sequences, FiniteSets

CONSTANTS
    None,      \* the text "None" where an id should be
    Refused,   \* events whose post is turned away: 401, or 404 for a wrong URL
    MaxFaults  \* bound: failures inside the service

ASSUME RelayedAssumption ==
    /\ None \notin Id
    /\ Refused \subseteq Event
    /\ MaxFaults \in Nat

VARIABLES
    up,  \* whether the service runs
    pc, item, tx, stored, answer, audit, lost, faults   \* see Inbound

webhookVars == <<pc, item, tx, stored, answer, audit, lost, faults>>
vars == <<relayVars, up, webhookVars>>

-----------------------------------------------------------------------------
\* What the webhook takes for the id of the message: str() of a missing one.
MessageId(e) == IF Envelope(e).id = Empty THEN None ELSE Envelope(e).id

\* No row or event can be made of these: the webhook takes the "from" object for
\* a missing thread, and the event wants objects where the sidecar puts URLs.
Unfit == {e \in Event : Envelope(e).thread = Empty \/ Envelope(e).media}

\* Every post brings one message.
Messages == [e \in Event |-> <<MessageId(e)>>]

W == INSTANCE Inbound WITH
       Delivery <- Event, Id <- Id \cup {None}, Forged <- Refused,
       Batch <- Messages

-----------------------------------------------------------------------------
\* A step of the sidecar's main coroutine.
Sidecar == Main /\ UNCHANGED <<up, webhookVars>>

Arrive(e) == Take(e) /\ UNCHANGED <<up, webhookVars>>

\* A post reaches the webhook if the service runs.
Send(e) ==
    /\ Post(e)
    /\ IF up THEN W!Deliver(e) ELSE UNCHANGED webhookVars
    /\ UNCHANGED up

\* The answer comes back.  After a 500 the request is over, and there will be
\* another one unless the sidecar gives up.
Reply(e) ==
    /\ \/ answer[e] \in W!Success /\ Accepted(e) /\ UNCHANGED webhookVars
       \/ answer[e] = "401" /\ Rejected(e) /\ UNCHANGED webhookVars
       \/ /\ answer[e] = "500"
          /\ ServerError(e)
          /\ IF ev'[e] = "waiting" THEN W!Redeliver(e) ELSE UNCHANGED webhookVars
    /\ UNCHANGED up

\* The post never got there, or the service died over it.
NoReply(e) ==
    /\ pc[e] = "new" \/ answer[e] = "cut"
    /\ NoResponse(e)
    /\ UNCHANGED <<mishaps, up, webhookVars>>

\* The answer takes too long or gets lost: the service goes on by itself.
TimeOut(e) ==
    /\ NoResponse(e)
    /\ Mishap
    /\ UNCHANGED <<up, webhookVars>>

Serve(e) == up /\ W!Handle(e) /\ UNCHANGED <<up, relayVars>>

ServiceFails(e) == up /\ (W!Fail(e) \/ W!CommitFails(e)) /\ UNCHANGED <<up, relayVars>>

ServiceDies == up /\ up' = FALSE /\ W!Crash /\ UNCHANGED relayVars

\* The service is stopped, which waits for the requests it has.
ServiceStops ==
    /\ up
    /\ \A e \in Event : pc[e] \in {"new", "done"}
    /\ Elsewhere
    /\ up' = FALSE
    /\ UNCHANGED webhookVars

ServiceStarts == ~up /\ up' = TRUE /\ UNCHANGED <<relayVars, webhookVars>>

Init == RelayInit /\ W!Init /\ up = TRUE

Next ==
    \/ Sidecar
    \/ ServiceDies \/ ServiceStops \/ ServiceStarts
    \/ \E e \in Event :
         \/ Arrive(e) \/ Send(e) \/ Reply(e) \/ NoReply(e) \/ TimeOut(e)
         \/ Serve(e) \/ ServiceFails(e)

Spec == Init /\ [][Next]_vars

\* The sidecar's loop is resumed, a connection attempt ends and Docker restarts
\* the container; the tasks of an event are resumed on either side.  Nothing
\* says that the service comes back.
FairSpec ==
    /\ Spec
    /\ WF_vars(/\ Connect \/ (stop /\ SessionEnds) \/ Wake \/ Exit \/ Restart
               /\ UNCHANGED <<up, webhookVars>>)
    /\ \A e \in Event : WF_vars(Send(e) \/ Reply(e) \/ NoReply(e) \/ Serve(e))

-----------------------------------------------------------------------------
(* Properties. *)

\* Types of the variables of both sides.
TypeOK == RelayTypeOK /\ up \in BOOLEAN /\ W!TypeOK

\* The webhook has made a row of e itself.
IsStored(e) == <<MessageId(e), e>> \in stored

\* Another event of the same id has the row: what e says is in none.
Eclipsed(e) == \E d \in Event \ {e} : MessageId(d) = MessageId(e) /\ IsStored(d)

\* The webhook takes e for known.
Known(e) == MessageId(e) \in W!Committed

\* The sidecar logs both answers of the webhook as posted, but they differ: once
\* the request is over, a "received" event has a row of its own, unless its COMMIT
\* was lost, and a "duplicate" one has been dropped for another event of its id.
\* No retry, race or restart drops an event in a third way that looks the same.
AnswersAreTrue ==
    \A e \in Event :
        ev[e] = "posted" /\ pc[e] = "done" =>
            \/ answer[e] = "received" /\ (IsStored(e) \/ e \in lost)
            \/ answer[e] = "duplicate" /\ Eclipsed(e)

\* The sidecar never has two requests for one event at the service: it only
\* posts again when the webhook is done with the last attempt.
OneRequestEach ==
    \A e \in Event : ev[e] \in {"unsent", "taken", "waiting"} => pc[e] = "new"

\* Every post after the first follows a failure of the service, or there is a row
\* of the event's id already: an event that can be stored is not given up for the
\* races with others of its id, however often they are lost.
RetriesArePaid ==
    \A e \in Event \ Unfit : Known(e) \/ posts[e] <= faults + 1

\* When nothing goes wrong and nobody stops the sidecar, an event that it has taken
\* and that a row can be made of is stored in the end.  The one exception needs no
\* mishap: the row of another event of its id (webhooks.py:60 asks for the id
\* alone).  So an event whose id no other has is stored, and one of each id is.
LossIsCaused ==
    faults + mishaps = 0 /\ ~stop =>
        \A e \in Event \ (Unfit \cup Refused) :
            ev[e] \in Final /\ pc[e] = "done" => IsStored(e) \/ Eclipsed(e)

\* The sidecar gets over broken connections, sessions that just end, failing
\* closes and being killed: until it is told to stop, it always has a session
\* again.
SessionReturns == []<>(link = "open" \/ stop)

\* Told to stop, the sidecar does, whatever its loop is at.
StopEnds == stop ~> link = "exited"

\* In the end every event the sidecar has taken is stored, or its commit lost, or
\* the webhook has dropped it for another event of its id, or the sidecar in one
\* of the four ways it knows.
EventsSettle ==
    <>[](\A e \in Event :
           \/ ev[e] = "unsent"
           \/ IsStored(e) \/ e \in lost
           \/ answer[e] = "duplicate" /\ Eclipsed(e)
           \/ ev[e] \in Final \ {"posted"})
=============================================================================
