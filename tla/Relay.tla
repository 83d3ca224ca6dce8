------------------------------- MODULE Relay -------------------------------
(***************************************************************************)
(* The SignalWire relay sidecar.  Its main coroutine holds a session with  *)
(* SignalWire, and makes a new one after a pause whenever an exception ends *)
(* it; a session that ends without one ends the process, which Docker      *)
(* starts again unless it was told to stop.  Each event of a session gets a *)
(* task of its own, which nobody waits for: it translates the event and     *)
(* posts it to the service, up to MaxPosts times while the answer is 5xx.   *)
(*                                                                         *)
(* The service is the environment here; RelayedInbound puts the inbound     *)
(* webhooks in its place.  How long the pauses are is left out.             *)
(***************************************************************************)
EXTENDS Naturals

CONSTANTS
    Event,       \* what SignalWire has for us
    Id, Thread,  \* message or call ids, conversations or phone numbers
    Empty,       \* a field that is missing or ""
    Raw,         \* Raw[e]: event e as it comes from SignalWire
    MaxPosts,    \* attempts to post an event (5 in the code)
    MaxMishaps   \* bound: things that go wrong around the sidecar

RawEvent == [id : Id \cup {Empty}, thread : Thread \cup {Empty}, media : BOOLEAN]

ASSUME RelayAssumption ==
    /\ Raw \in [Event -> RawEvent]
    /\ Empty \notin Id \cup Thread
    /\ MaxPosts \in Nat \ {0}
    /\ MaxMishaps \in Nat

VARIABLES
    link,     \* where the main coroutine is
    stop,     \* the stop event: SIGTERM or SIGINT came
    ev,       \* what has become of each event
    posts,    \* how often it was posted
    mishaps   \* mishaps so far

relayVars == <<link, stop, ev, posts, mishaps>>

-----------------------------------------------------------------------------
\* Where a delivery task can be, and how it can end.
Active == {"taken", "posting", "waiting"}
Final == {"posted", "rejected", "given up", "unreachable", "cancelled"}

Envelope(e) ==
    [id     |-> Raw[e].id,
     thread |-> IF Raw[e].thread # Empty THEN Raw[e].thread ELSE Raw[e].id,
     media  |-> Raw[e].media]

Set(e, s) == ev' = [ev EXCEPT ![e] = s]

Mishap == mishaps < MaxMishaps /\ mishaps' = mishaps + 1

\* What goes on while the main coroutine takes a step.
Meanwhile == UNCHANGED <<stop, ev, posts>>

\* An exception ends the attempt: another one after a pause, but for a stop.
AfterException == link' = IF stop THEN "over" ELSE "paused"

\* Leaving asyncio.run cancels the tasks that are left.
Cancelled == [e \in Event |-> IF ev[e] \in Active THEN "cancelled" ELSE ev[e]]

-----------------------------------------------------------------------------
(* The reconnect loop. *)

Connect == link = "connecting" /\ link' = "open" /\ Meanwhile /\ UNCHANGED mishaps

\* The connection cannot be made, or it breaks.
Break ==
    /\ link \in {"connecting", "open"}
    /\ Mishap
    /\ AfterException
    /\ Meanwhile

\* Closing the client raises, however the session ended: the loop goes on,
\* and sees a stop only after its pause.
CloseFails ==
    /\ link \in {"connecting", "open"}
    /\ Mishap
    /\ link' = "paused"
    /\ Meanwhile

\* Mutant: only the client is waited for.
SessionEndsDeaf ==
    /\ link = "open"
    /\ Mishap
    /\ link' = "over"
    /\ Meanwhile

\* The session ends without an exception: on a stop, or because the client does.
SessionEnds ==
    /\ link = "open"
    /\ \/ stop /\ UNCHANGED mishaps
       \/ ~stop /\ Mishap
    /\ link' = "over"
    /\ Meanwhile

\* The pause is over: it is only now that a stop is noticed.
Wake ==
    /\ link = "paused"
    /\ link' = IF stop THEN "over" ELSE "connecting"
    /\ Meanwhile
    /\ UNCHANGED mishaps

Signal ==
    /\ link # "exited"
    /\ ~stop
    /\ stop' = TRUE
    /\ UNCHANGED <<link, ev, posts, mishaps>>

\* The loop has returned, the HTTP client is closed and the process ends.
Exit ==
    /\ link = "over"
    /\ link' = "exited"
    /\ ev' = Cancelled
    /\ UNCHANGED <<stop, posts, mishaps>>

Killed ==
    /\ link # "exited"
    /\ Mishap
    /\ link' = "exited"
    /\ ev' = Cancelled
    /\ UNCHANGED <<stop, posts>>

\* Mutant: no restart policy, as for the service next to it.
RestartNever == FALSE

\* restart: unless-stopped.
Restart ==
    /\ link = "exited"
    /\ ~stop
    /\ link' = "connecting"
    /\ Meanwhile
    /\ UNCHANGED mishaps

-----------------------------------------------------------------------------
(* Deliveries. *)

\* The client calls the handler, which makes a task.
Take(e) ==
    /\ link = "open"
    /\ ev[e] = "unsent"
    /\ Set(e, "taken")
    /\ UNCHANGED <<link, stop, posts, mishaps>>

\* Mutant: the task is not resumed after a pause.
PostOnce(e) ==
    /\ ev[e] = "taken"
    /\ Set(e, "posting")
    /\ posts' = [posts EXCEPT ![e] = @ + 1]
    /\ UNCHANGED <<link, stop, mishaps>>

\* The task translates and posts the event, or posts it again.
Post(e) ==
    /\ ev[e] \in {"taken", "waiting"}
    /\ Set(e, "posting")
    /\ posts' = [posts EXCEPT ![e] = @ + 1]
    /\ UNCHANGED <<link, stop, mishaps>>

Responded(e, s) == ev[e] = "posting" /\ Set(e, s) /\ UNCHANGED <<link, stop, posts>>

\* 2xx and 4xx are logged, and that is that.
Accepted(e) == Responded(e, "posted") /\ UNCHANGED mishaps
Rejected(e) == Responded(e, "rejected") /\ UNCHANGED mishaps

\* Mutant: there is no end to the attempts.
ServerErrorForever(e) == Responded(e, "waiting") /\ UNCHANGED mishaps

\* Mutant: the last failure is taken for a success.
ServerErrorForgiven(e) ==
    /\ Responded(e, IF posts[e] = MaxPosts THEN "posted" ELSE "waiting")
    /\ UNCHANGED mishaps

\* 5xx raises HTTPStatusError, which is the one thing that is tried again.
ServerError(e) ==
    /\ Responded(e, IF posts[e] = MaxPosts THEN "given up" ELSE "waiting")
    /\ UNCHANGED mishaps

\* Mutant: whatever goes wrong is tried again.
NoResponseRetried(e) == Responded(e, IF posts[e] = MaxPosts THEN "unreachable" ELSE "waiting")

\* No connection, no answer, or none within 10 s: any other exception is logged.
NoResponse(e) == Responded(e, "unreachable")

\* Something goes wrong at the service: the sidecar does not notice.
Elsewhere == Mishap /\ UNCHANGED <<link, stop, ev, posts>>

-----------------------------------------------------------------------------
RelayInit ==
    /\ link = "connecting"
    /\ stop = FALSE
    /\ ev = [e \in Event |-> "unsent"]
    /\ posts = [e \in Event |-> 0]
    /\ mishaps = 0

Main == Connect \/ Break \/ CloseFails \/ SessionEnds \/ Wake \/ Signal \/ Exit \/ Killed \/ Restart

RelayNext ==
    \/ Main
    \/ Elsewhere
    \/ \E e \in Event :
         \/ Take(e) \/ Post(e)
         \/ Accepted(e) \/ Rejected(e) \/ ServerError(e)
         \/ NoResponse(e) /\ (UNCHANGED mishaps \/ Mishap)

RelaySpec == RelayInit /\ [][RelayNext]_relayVars

\* Types of the variables.
RelayTypeOK ==
    /\ link \in {"connecting", "open", "paused", "over", "exited"}
    /\ stop \in BOOLEAN
    /\ ev \in [Event -> {"unsent"} \cup Active \cup Final]
    /\ posts \in [Event -> 0 .. MaxPosts]
    /\ mishaps \in 0 .. MaxMishaps

\* Steps of the main coroutine from where it is to the end of the process.
StepsLeft(l) ==
    CASE l = "connecting" -> 4
      [] l = "open"       -> 3
      [] l = "paused"     -> 2
      [] l = "over"       -> 1
      [] OTHER            -> 0

\* Told to stop, the main coroutine only gets nearer to its end: whatever breaks
\* and however a session ends, it makes no new one and nothing restarts it.
StopNears == [][stop => link' = link \/ StepsLeft(link') < StepsLeft(link)]_relayVars

\* Steps that the delivery of e can still take.
StepsAhead(e) ==
    CASE ev[e] = "unsent"  -> 2 * MaxPosts + 2
      [] ev[e] = "taken"   -> 2 * MaxPosts + 1
      [] ev[e] = "posting" -> 2 * (MaxPosts - posts[e]) + 2
      [] ev[e] = "waiting" -> 2 * (MaxPosts - posts[e]) + 1
      [] OTHER             -> 0

\* A step leaves the delivery of e alone, or the delivery has fewer ahead of it.
Advances(e) ==
    \/ ev'[e] = ev[e] /\ posts'[e] = posts[e]
    \/ StepsAhead(e)' < StepsAhead(e)

\* No delivery goes on for ever or is taken up again: each has at most
\* 2 * MaxPosts + 2 steps, in spite of retries, stops, kills and restarts.
DeliveriesEnd == [][\A e \in Event : Advances(e)]_relayVars
=============================================================================
