----------------------------- MODULE RateLimit -----------------------------
(***************************************************************************)
(* One token bucket of the rate limiter.  Any number of callers, in any    *)
(* number of replicas, read their clock and then have Redis run the bucket *)
(* script with that time; Redis runs one script at a time.  A call that    *)
(* fails is made once more with the same time, whether or not the script   *)
(* has run.                                                                *)
(*                                                                         *)
(* Time is in seconds; tokens are counted in grains, so that a fractional  *)
(* refill rate is a whole number of grains per second.                     *)
(***************************************************************************)
EXTENDS Integers

CONSTANTS
    Caller,    \* coroutines that may be in check at the same time
    Capacity,  \* tokens of a full bucket
    Grain,     \* grains of a token
    Rate,      \* grains refilled per second
    Skew,      \* Skew[c]: how far the clock of c's replica is ahead
    MaxDelay,  \* bound: seconds between reading the clock and the script
    MaxClock   \* bound: seconds in a behaviour

ASSUME RateLimitAssumption ==
    /\ Capacity \in Nat \ {0}
    /\ Grain \in Nat \ {0}
    /\ Rate \in Nat \ {0}
    /\ Skew \in [Caller -> Int]
    /\ MaxDelay \in Nat
    /\ MaxClock \in Nat

VARIABLES
    clock,    \* the time, as Redis has it
    bucket,   \* the hash in Redis
    pc,       \* where each caller is
    began,    \* when each caller read its clock, 0 when it is idle
    excess,   \* observer: grains granted beyond the refill of the time passed
    overdue   \* observer: the same, with time the bucket took back as passed

(***************************************************************************)
(* An observer is the largest value, over all windows of time that end     *)
(* now, of what was granted in the window less what the window is worth:   *)
(* it grows with a grant, shrinks with time and is never less than the     *)
(* empty window's 0.                                                       *)
(***************************************************************************)

vars == <<clock, bucket, pc, began, excess, overdue>>

Full == Capacity * Grain

\* EXPIRE is given twice the time an empty bucket takes to fill, rounded up.
TTL == (2 * Full + Rate - 1) \div Rate

Bucket == [tokens : Int, ts : Int, expires : Int]

\* There is no hash, or Redis has dropped it.
Gone == clock >= bucket.expires

\* Mutant: a bucket is refilled past its capacity.
RefilledUncapped(t) ==
    IF Gone THEN Full
    ELSE bucket.tokens + (IF t > bucket.ts THEN t - bucket.ts ELSE 0) * Rate

\* Grains in the bucket for a caller whose time is t.
Refilled(t) ==
    LET elapsed == IF t > bucket.ts THEN t - bucket.ts ELSE 0
        tokens == bucket.tokens + elapsed * Rate
    IN IF Gone THEN Full
       ELSE IF tokens > Full THEN Full ELSE tokens

Allowed(t) == Refilled(t) >= Grain

\* Mutant: the hash is kept only for half the time it takes to fill.
ScriptForgets(t) ==
    bucket' = [tokens  |-> IF Allowed(t) THEN Refilled(t) - Grain ELSE Refilled(t),
               ts      |-> t,
               expires |-> clock + (Full \div (2 * Rate))]

\* Mutant: the time of the last refill is only written with a new hash.
ScriptKeepsTime(t) ==
    bucket' = [tokens  |-> IF Allowed(t) THEN Refilled(t) - Grain ELSE Refilled(t),
               ts      |-> IF Gone THEN t ELSE bucket.ts,
               expires |-> clock + TTL]

\* The script: a token is taken if there is one, the time is written in any
\* case, and the life of the hash starts again.
Script(t) ==
    bucket' = [tokens  |-> IF Allowed(t) THEN Refilled(t) - Grain ELSE Refilled(t),
               ts      |-> t,
               expires |-> clock + TTL]

\* Seconds by which a script with time t moves the bucket's time back.
Slip(t) == IF ~Gone /\ t < bucket.ts THEN bucket.ts - t ELSE 0

\* How far apart two times can be that scripts bring along at the same moment.
Spread ==
    LET apart == {Skew[c] - Skew[d] : c, d \in Caller}
    IN  MaxDelay + (CHOOSE n \in apart : \A m \in apart : m <= n)

\* A bucket's worth, and the refill of the time the callers are apart.
Cap == Full + Spread * Rate

\* The value of an observer after n more grains.  One that has passed the cap
\* stays where it is.
Observe(value, n) ==
    IF value > Cap THEN value ELSE IF value + n > 0 THEN value + n ELSE 0

-----------------------------------------------------------------------------
\* The time a caller read and gives to the script.
Time(c) == began[c] + Skew[c]

\* A caller has its answer or an error.
Finish(c) ==
    /\ pc' = [pc EXCEPT ![c] = "idle"]
    /\ began' = [began EXCEPT ![c] = 0]

\* A caller reads its clock.
Begin(c) ==
    /\ pc[c] = "idle"
    /\ pc' = [pc EXCEPT ![c] = "eval"]
    /\ began' = [began EXCEPT ![c] = clock]
    /\ UNCHANGED <<clock, bucket, excess, overdue>>

\* The script runs and its answer arrives, at the first or the second try.
Eval(c) ==
    /\ pc[c] \in {"eval", "again"}
    /\ Script(Time(c))
    /\ Finish(c)
    /\ LET granted == IF Allowed(Time(c)) THEN Grain ELSE 0 IN
         /\ excess' = Observe(excess, granted)
         /\ overdue' = Observe(overdue, granted - Slip(Time(c)) * Rate)
    /\ UNCHANGED clock

\* The call raises; the script may have run.  After the first try the script
\* is loaded again and called once more, after the second the error is passed on.
EvalRaises(c) ==
    /\ pc[c] \in {"eval", "again"}
    /\ \/ Script(Time(c)) /\ overdue' = Observe(overdue, -(Slip(Time(c)) * Rate))
       \/ UNCHANGED <<bucket, overdue>>
    /\ IF pc[c] = "eval"
         THEN pc' = [pc EXCEPT ![c] = "again"] /\ UNCHANGED began
         ELSE Finish(c)
    /\ UNCHANGED <<clock, excess>>

\* A second passes.  No call takes longer than MaxDelay.
Tick ==
    /\ clock < MaxClock
    /\ \A c \in Caller : pc[c] # "idle" => clock + 1 <= began[c] + MaxDelay
    /\ clock' = clock + 1
    /\ excess' = Observe(excess, -Rate)
    /\ overdue' = Observe(overdue, -Rate)
    /\ UNCHANGED <<bucket, pc, began>>

Init ==
    /\ clock = 0
    /\ bucket = [tokens |-> 0, ts |-> 0, expires |-> 0]
    /\ pc = [c \in Caller |-> "idle"]
    /\ began = [c \in Caller |-> 0]
    /\ excess = 0
    /\ overdue = 0

Next ==
    \/ \E c \in Caller : Begin(c) \/ Eval(c) \/ EvalRaises(c)
    \/ Tick

Spec == Init /\ [][Next]_vars

-----------------------------------------------------------------------------
(* Properties. *)

\* Types of the variables; a bucket holds between nothing and its capacity.
TypeOK ==
    /\ clock \in Nat
    /\ bucket \in Bucket
    /\ bucket.tokens >= 0 /\ bucket.tokens <= Full
    /\ pc \in [Caller -> {"idle", "eval", "again"}]
    /\ began \in [Caller -> Nat]
    /\ excess \in Nat
    /\ overdue \in Nat

\* In any window of time no more calls are allowed than a full bucket and the
\* refill of that time are worth ("caps a single caller's burst", "caps total
\* send rate", rate_limit.py:4-8), give or take what the callers are apart.
RateIsCapped == excess <= Cap

\* What the code keeps of that: the cap is only exceeded by the refill of the
\* time the bucket was moved back, whatever callers run at once and whichever
\* calls are made twice.
RefillIsPaid == overdue <= Cap

\* A hash that Redis drops would be full anyway: dropping it grants nothing.
DroppedWhenFull ==
    Gone => bucket.expires = 0 \/ bucket.tokens + (clock - bucket.ts) * Rate >= Full
=============================================================================
