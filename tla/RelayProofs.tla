---------------------------- MODULE RelayProofs ----------------------------
(***************************************************************************)
(* Proofs about Relay, for any events, attempts and mishaps and for any     *)
(* service that answers its posts: nothing is said of when or what.         *)
(***************************************************************************)
EXTENDS Relay, TLAPS

\* How often an event can have been posted where it is.
Tried(e) ==
    /\ ev[e] \in {"unsent", "taken"} => posts[e] = 0
    /\ ev[e] = "posting" => posts[e] >= 1
    /\ ev[e] = "waiting" => posts[e] >= 1 /\ posts[e] < MaxPosts

SidecarInv == RelayTypeOK /\ \A e \in Event : Tried(e)

-----------------------------------------------------------------------------
\* The initial state satisfies the invariant.
LEMMA InitSidecarInv == RelayInit => SidecarInv
<1> SUFFICES ASSUME RelayInit PROVE SidecarInv
  OBVIOUS
<1>1. posts \in [Event -> 0 .. MaxPosts]
  BY RelayAssumption DEF RelayInit
<1>2. mishaps \in 0 .. MaxMishaps
  BY RelayAssumption DEF RelayInit
<1> QED
  BY <1>1, <1>2 DEF RelayInit, SidecarInv, RelayTypeOK, Tried

\* What a step of the main coroutine, or a mishap elsewhere, leaves alone.
LEMMA MainStep ==
    ASSUME SidecarInv, Main \/ Elsewhere
    PROVE  /\ link' \in {"connecting", "open", "paused", "over", "exited"}
           /\ stop' \in BOOLEAN
           /\ posts' = posts
           /\ ev' = ev \/ ev' = Cancelled
           /\ mishaps' \in 0 .. MaxMishaps
           /\ stop => link' = link \/ StepsLeft(link') < StepsLeft(link)
<1>0. /\ link \in {"connecting", "open", "paused", "over", "exited"}
      /\ stop \in BOOLEAN
      /\ mishaps \in 0 .. MaxMishaps
      /\ MaxMishaps \in Nat
  BY RelayAssumption DEF SidecarInv, RelayTypeOK
<1>1. mishaps' = mishaps \/ Mishap
  BY DEF Main, Elsewhere, Connect, Break, CloseFails, SessionEnds, Wake, Signal, Exit, Killed,
     Restart
<1>2. mishaps' \in 0 .. MaxMishaps
  BY <1>0, <1>1 DEF Mishap
<1>3. posts' = posts /\ (ev' = ev \/ ev' = Cancelled)
  BY DEF Main, Elsewhere, Connect, Break, CloseFails, SessionEnds, Wake, Signal, Exit, Killed,
     Restart, Meanwhile
<1>4. stop' \in BOOLEAN
  BY <1>0 DEF Main, Elsewhere, Connect, Break, CloseFails, SessionEnds, Wake, Signal, Exit, Killed,
     Restart, Meanwhile
<1>5. \/ link' = link
      \/ link = "connecting" /\ link' \in {"open", "over", "paused", "exited"}
      \/ link = "open" /\ link' \in {"over", "paused", "exited"}
      \/ link = "paused" /\ link' \in {"over", "exited"}
      \/ link = "over" /\ link' = "exited"
      \/ ~stop /\ link' = "connecting"
  BY <1>0 DEF Main, Elsewhere, Connect, Break, CloseFails, SessionEnds, Wake, Signal, Exit, Killed,
     Restart, AfterException
<1>6. stop => link' = link \/ StepsLeft(link') < StepsLeft(link)
  BY <1>0, <1>5 DEF StepsLeft
<1>7. link' \in {"connecting", "open", "paused", "over", "exited"}
  BY <1>0, <1>5
<1> QED
  BY <1>2, <1>3, <1>4, <1>6, <1>7

\* An event whose task is cancelled, or left alone.
LEMMA CancelledStep ==
    ASSUME SidecarInv, ev' = ev \/ ev' = Cancelled, posts' = posts
    PROVE  /\ ev' \in [Event -> {"unsent"} \cup Active \cup Final]
           /\ \A e \in Event : Tried(e)' /\ Advances(e)
<1>0. /\ ev \in [Event -> {"unsent"} \cup Active \cup Final]
      /\ posts \in [Event -> 0 .. MaxPosts]
      /\ MaxPosts \in Nat
  BY RelayAssumption DEF SidecarInv, RelayTypeOK
<1>1. ev' \in [Event -> {"unsent"} \cup Active \cup Final]
  BY <1>0 DEF Cancelled, Final
<1>2. ASSUME NEW e \in Event PROVE Tried(e)' /\ Advances(e)
  <2>1. CASE ev'[e] = ev[e]
    BY <1>2, <2>1 DEF SidecarInv, Tried, Advances
  <2>2. CASE ev[e] \in Active /\ ev'[e] = "cancelled"
    <3>1. posts[e] \in 0 .. MaxPosts
      BY <1>0
    <3>2. StepsAhead(e)' = 0
      BY <2>2 DEF StepsAhead
    <3>3. StepsAhead(e) > 0
      BY <1>0, <2>2, <3>1 DEF StepsAhead, Active
    <3> QED
      BY <2>2, <3>2, <3>3 DEF Tried, Advances
  <2> QED
    BY <2>1, <2>2 DEF Cancelled
<1> QED
  BY <1>1, <1>2

\* Where the task of an event can go.
LEMMA TaskStep ==
    ASSUME SidecarInv, NEW e \in Event,
           \/ Take(e) \/ Post(e)
           \/ Accepted(e) \/ Rejected(e) \/ ServerError(e) \/ NoResponse(e)
    PROVE  /\ link' = link /\ stop' = stop
           /\ ev' \in [Event -> {"unsent"} \cup Active \cup Final]
           /\ posts' \in [Event -> 0 .. MaxPosts]
           /\ \A c \in Event : Tried(c)' /\ Advances(c)
<1>0. /\ ev \in [Event -> {"unsent"} \cup Active \cup Final]
      /\ posts \in [Event -> 0 .. MaxPosts]
      /\ posts[e] \in 0 .. MaxPosts
      /\ MaxPosts \in Nat \ {0}
      /\ Tried(e)
  BY RelayAssumption DEF SidecarInv, RelayTypeOK
<1>1. CASE Take(e)
  <2>1. /\ ev[e] = "unsent"
        /\ ev' = [ev EXCEPT ![e] = "taken"]
        /\ UNCHANGED <<link, stop, posts>>
    BY <1>1 DEF Take, Set
  <2>2. /\ ev' \in [Event -> {"unsent"} \cup Active \cup Final]
        /\ ev'[e] = "taken"
        /\ \A c \in Event : c # e => ev'[c] = ev[c]
    BY <1>0, <2>1 DEF Active
  <2>3. StepsAhead(e)' < StepsAhead(e)
    BY <1>0, <2>1, <2>2 DEF StepsAhead
  <2> QED
    BY <1>0, <2>1, <2>2, <2>3 DEF SidecarInv, Tried, Advances
<1>2. CASE Post(e)
  <2>1. /\ ev[e] \in {"taken", "waiting"}
        /\ ev' = [ev EXCEPT ![e] = "posting"]
        /\ posts' = [posts EXCEPT ![e] = posts[e] + 1]
        /\ UNCHANGED <<link, stop>>
    BY <1>2 DEF Post, Set
  <2>2. posts[e] + 1 \in 1 .. MaxPosts
    BY <1>0, <2>1 DEF Tried
  <2>3. /\ ev' \in [Event -> {"unsent"} \cup Active \cup Final]
        /\ ev'[e] = "posting"
        /\ \A c \in Event : c # e => ev'[c] = ev[c]
    BY <1>0, <2>1 DEF Active
  <2>4. /\ posts' \in [Event -> 0 .. MaxPosts]
        /\ posts'[e] = posts[e] + 1
        /\ \A c \in Event : c # e => posts'[c] = posts[c]
    <3>1. posts[e] + 1 \in 0 .. MaxPosts
      BY <1>0, <2>2
    <3> QED
      BY <1>0, <2>1, <3>1
  <2>5. StepsAhead(e)' = 2 * (MaxPosts - (posts[e] + 1)) + 2
    BY <2>3, <2>4 DEF StepsAhead
  <2>6. StepsAhead(e)' < StepsAhead(e)
    <3>1. CASE ev[e] = "taken"
      <4>1. posts[e] = 0 /\ StepsAhead(e) = 2 * MaxPosts + 1
        BY <1>0, <3>1 DEF StepsAhead, Tried
      <4> QED
        BY <1>0, <2>5, <4>1
    <3>2. CASE ev[e] = "waiting"
      <4>1. StepsAhead(e) = 2 * (MaxPosts - posts[e]) + 1
        BY <3>2 DEF StepsAhead
      <4> QED
        BY <1>0, <2>5, <4>1
    <3> QED
      BY <2>1, <3>1, <3>2
  <2>7. Tried(e)'
    BY <1>0, <2>2, <2>3, <2>4 DEF Tried
  <2> QED
    BY <2>1, <2>3, <2>4, <2>6, <2>7 DEF SidecarInv, Tried, Advances
<1>3. ASSUME NEW s \in {"waiting"} \cup Final, Responded(e, s),
             s = "waiting" => posts[e] # MaxPosts
      PROVE  /\ link' = link /\ stop' = stop
             /\ ev' \in [Event -> {"unsent"} \cup Active \cup Final]
             /\ posts' \in [Event -> 0 .. MaxPosts]
             /\ \A c \in Event : Tried(c)' /\ Advances(c)
  <2>1. /\ ev[e] = "posting"
        /\ ev' = [ev EXCEPT ![e] = s]
        /\ UNCHANGED <<link, stop, posts>>
    BY <1>3 DEF Responded, Set
  <2>2. /\ ev' \in [Event -> {"unsent"} \cup Active \cup Final]
        /\ ev'[e] = s
        /\ \A c \in Event : c # e => ev'[c] = ev[c]
    BY <1>0, <2>1 DEF Active
  <2>3. StepsAhead(e) = 2 * (MaxPosts - posts[e]) + 2
    BY <2>1 DEF StepsAhead
  <2>4. StepsAhead(e)' \in {0, 2 * (MaxPosts - posts[e]) + 1}
    BY <2>1, <2>2 DEF StepsAhead, Final
  <2>5. StepsAhead(e)' < StepsAhead(e)
    BY <1>0, <2>3, <2>4
  <2>6. Tried(e)'
    <3>1. posts'[e] = posts[e] /\ posts[e] >= 1
      BY <1>0, <2>1 DEF Tried
    <3>2. s = "waiting" => posts[e] < MaxPosts
      BY <1>0, <1>3
    <3>3. s \notin {"unsent", "taken", "posting"}
      BY DEF Final
    <3> QED
      BY <2>2, <3>1, <3>2, <3>3 DEF Tried
  <2> QED
    BY <1>0, <2>1, <2>2, <2>5, <2>6 DEF SidecarInv, Tried, Advances
<1>4. CASE Accepted(e)
  BY <1>3, <1>4 DEF Accepted, Final
<1>5. CASE Rejected(e)
  BY <1>3, <1>5 DEF Rejected, Final
<1>6. CASE ServerError(e)
  <2>1. CASE posts[e] = MaxPosts
    BY <1>3, <1>6, <2>1 DEF ServerError, Final
  <2>2. CASE posts[e] # MaxPosts
    BY <1>3, <1>6, <2>2 DEF ServerError
  <2> QED
    BY <2>1, <2>2
<1>7. CASE NoResponse(e)
  BY <1>3, <1>7 DEF NoResponse, Final
<1> QED
  BY <1>1, <1>2, <1>4, <1>5, <1>6, <1>7

\* Every step keeps the invariant, nears the end of a stop and advances what it
\* touches.
LEMMA SidecarStepIs ==
    ASSUME SidecarInv, [RelayNext]_relayVars
    PROVE  /\ SidecarInv'
           /\ stop => link' = link \/ StepsLeft(link') < StepsLeft(link)
           /\ \A e \in Event : Advances(e)
<1>1. CASE UNCHANGED relayVars
  <2>1. UNCHANGED <<link, stop, ev, posts, mishaps>>
    BY <1>1 DEF relayVars
  <2> QED
    BY <2>1 DEF SidecarInv, RelayTypeOK, Tried, Advances
<1>2. CASE Main \/ Elsewhere
  BY <1>2, MainStep, CancelledStep DEF SidecarInv, RelayTypeOK
<1>3. ASSUME NEW e \in Event,
             \/ Take(e) \/ Post(e)
             \/ Accepted(e) \/ Rejected(e) \/ ServerError(e) \/ NoResponse(e),
             mishaps' = mishaps \/ Mishap
      PROVE  /\ SidecarInv'
             /\ stop => link' = link \/ StepsLeft(link') < StepsLeft(link)
             /\ \A c \in Event : Advances(c)
  <2>1. mishaps' \in 0 .. MaxMishaps
    BY <1>3, RelayAssumption DEF Mishap, SidecarInv, RelayTypeOK
  <2> QED
    BY <1>3, <2>1, TaskStep DEF SidecarInv, RelayTypeOK
<1>4. ASSUME NEW e \in Event,
             \/ Take(e) \/ Post(e)
             \/ Accepted(e) \/ Rejected(e) \/ ServerError(e)
             \/ NoResponse(e) /\ (UNCHANGED mishaps \/ Mishap)
      PROVE  mishaps' = mishaps \/ Mishap
  BY <1>4 DEF Take, Post, Accepted, Rejected, ServerError
<1> QED
  BY <1>1, <1>2, <1>3, <1>4 DEF RelayNext

\* The invariant holds of the sidecar.
LEMMA SidecarInvariance == RelaySpec => []SidecarInv
<1>1. SidecarInv /\ [RelayNext]_relayVars => SidecarInv'
  BY SidecarStepIs
<1> QED
  BY <1>1, InitSidecarInv, PTL DEF RelaySpec

-----------------------------------------------------------------------------
(* The theorems. *)

\* The sidecar's variables keep their types: no event is posted more often than
\* MaxPosts times, whatever the service answers.
THEOREM SidecarTypes == RelaySpec => []RelayTypeOK
<1>1. SidecarInv => RelayTypeOK
  BY DEF SidecarInv
<1> QED
  BY <1>1, SidecarInvariance, PTL

\* After a stop the main coroutine only gets nearer to its end.
THEOREM StopOnlyNears == RelaySpec => StopNears
<1>1. SidecarInv /\ [RelayNext]_relayVars
        => [stop => link' = link \/ StepsLeft(link') < StepsLeft(link)]_relayVars
  BY SidecarStepIs
<1> QED
  BY <1>1, SidecarInvariance, PTL DEF RelaySpec, StopNears

\* Every step that touches a delivery brings it nearer to its end.
THEOREM EveryDeliveryEnds == RelaySpec => DeliveriesEnd
<1>1. SidecarInv /\ [RelayNext]_relayVars => [\A e \in Event : Advances(e)]_relayVars
  BY SidecarStepIs
<1> QED
  BY <1>1, SidecarInvariance, PTL DEF RelaySpec, DeliveriesEnd
=============================================================================
