--------------------------- MODULE IdempotentSend ---------------------------
(***************************************************************************)
(* What POST /outbound promises a caller that retries, with everything     *)
(* about transactions, locks and buckets left out: until it expires, a key *)
(* is worth one message, a replay names a message of the key, and only     *)
(* another body under the same key is a conflict.  Accepting is a promise  *)
(* made before the message is stored; a stored message was promised first. *)
(*                                                                         *)
(* The exception is the moment a key has expired: whoever finds it so is   *)
(* late, and the messages of late callers are not told apart by their key. *)
(***************************************************************************)

CONSTANTS Request, Key, NoKey, Body, MsgId, NoRequest

VARIABLES
    asked,   \* what each request asked for
    told,    \* what it was told
    stored,  \* the requests whose message is queued for sending
    live,    \* of those, the ones stored under a key since it last expired
    late     \* the requests that found their key expired

vars == <<asked, told, stored, live, late>>

None == [code |-> "none", msg |-> NoRequest]

KeyOf(r) == asked[r].key
IdOf(r) == MsgId[asked[r].body]

Init ==
    /\ asked = [r \in Request |-> [key |-> NoKey, body |-> CHOOSE b \in Body : TRUE]]
    /\ told = [r \in Request |-> None]
    /\ stored = {}
    /\ live = [k \in Key |-> {}]
    /\ late = {}

\* A call comes in, and may be refused on sight.
Ask(r) ==
    /\ told[r] = None
    /\ r \notin stored \cup late
    /\ \E k \in Key \cup {NoKey}, b \in Body :
         asked' = [asked EXCEPT ![r] = [key |-> k, body |-> b]]
    /\ \/ UNCHANGED told
       \/ told' = [told EXCEPT ![r] = [code |-> "400", msg |-> NoRequest]]
    /\ UNCHANGED <<stored, live, late>>

\* A live key expires.
Expire(k) ==
    /\ live[k] # {}
    /\ live' = [live EXCEPT ![k] = {}]
    /\ UNCHANGED <<asked, told, stored, late>>

\* The key had a message once, and has none since it expired.
FindExpired(r) ==
    /\ told[r] = None
    /\ KeyOf(r) \in Key
    /\ live[KeyOf(r)] = {}
    /\ \E m \in stored : KeyOf(m) = KeyOf(r)
    /\ late' = late \cup {r}
    /\ UNCHANGED <<asked, told, stored, live>>

\* The caller hears that the message is queued.
Accept(r) ==
    /\ told[r] = None
    /\ told' = [told EXCEPT ![r] = [code |-> "202", msg |-> r]]
    /\ UNCHANGED <<asked, stored, live, late>>

\* The message is stored, unless one with its provider id ever was or, but for
\* a late caller, one is that belongs to its key.
Store(r) ==
    /\ told[r] = [code |-> "202", msg |-> r]
    /\ \A m \in stored : IdOf(m) # IdOf(r)
    /\ KeyOf(r) \in Key => live[KeyOf(r)] = {} \/ r \in late
    /\ stored' = stored \cup {r}
    /\ live' = [k \in Key |-> IF k = KeyOf(r) THEN live[k] \cup {r} ELSE live[k]]
    /\ UNCHANGED <<asked, told, late>>

\* The key is known: the same body is answered with the key's message.
Replay(r) ==
    /\ told[r] = None
    /\ KeyOf(r) \in Key
    /\ r \notin late
    /\ \E m \in live[KeyOf(r)] :
        /\ asked[m] = asked[r]
        /\ told' = [told EXCEPT ![r] = [code |-> "200", msg |-> m]]
    /\ UNCHANGED <<asked, stored, live, late>>

\* The key is known with another body.
Conflict(r) ==
    /\ told[r] = None
    /\ KeyOf(r) \in Key
    /\ r \notin late
    /\ \E m \in live[KeyOf(r)] : asked[m].body # asked[r].body
    /\ told' = [told EXCEPT ![r] = [code |-> "422", msg |-> NoRequest]]
    /\ UNCHANGED <<asked, stored, live, late>>

\* The call is refused or fails, and nothing comes of it.
Refuse(r) ==
    /\ told[r] = None
    /\ \E c \in {"400", "409", "429", "500"} :
         told' = [told EXCEPT ![r] = [code |-> c, msg |-> NoRequest]]
    /\ UNCHANGED <<asked, stored, live, late>>

Next ==
    \/ \E r \in Request :
         \/ Ask(r) \/ FindExpired(r) \/ Accept(r) \/ Store(r)
         \/ Replay(r) \/ Conflict(r) \/ Refuse(r)
    \/ \E k \in Key : Expire(k)

Spec == Init /\ [][Next]_vars
=============================================================================
