-------------------------- MODULE RateLimitProofs --------------------------
(***************************************************************************)
(* Proofs about RateLimit, for any callers, clocks, delays, capacity and    *)
(* rate.  The bounds need a fastest and a slowest clock, which finitely     *)
(* many callers have, and a bucket that takes longer to fill than the       *)
(* clocks are apart.                                                       *)
(***************************************************************************)
EXTENDS RateLimit, TLAPS, FiniteSetTheorems, WellFoundedInduction

Fastest(c) == c \in Caller /\ \A d \in Caller : Skew[d] <= Skew[c]
Slowest(c) == c \in Caller /\ \A d \in Caller : Skew[c] <= Skew[d]
Extremes == (\E c : Fastest(c)) /\ (\E c : Slowest(c))

\* How far ahead the fastest clock is, and the slowest.
Most == Skew[CHOOSE c : Fastest(c)]
Least == Skew[CHOOSE c : Slowest(c)]

-----------------------------------------------------------------------------
(* Finitely many callers. *)

\* A set of numbers that is not empty has a least one.
LEMMA LeastNumber ==
    ASSUME NEW S \in SUBSET Nat, S # {}
    PROVE  \E m \in S : \A n \in S : m <= n
<1> DEFINE R == OpToRel(<, Nat)
<1>1. IsWellFoundedOn(R, Nat)
  BY NatLessThanWellFounded
<1>2. \A m, n \in Nat : m < n => <<m, n>> \in R
  BY DEF OpToRel
<1> HIDE DEF R
<1>3. PICK m \in S : \A n \in S : ~(<<n, m>> \in R)
  BY <1>1, WFMin
<1>4. \A n \in S : m \in Nat /\ n \in Nat /\ ~(n < m)
  BY <1>2, <1>3, Zenon
<1>5. \A n \in S : m <= n
  BY <1>4
<1> QED
  BY <1>5

\* Finitely many callers have one that is on top: a smallest set of them that has
\* none would still have none without one of its members.
LEMMA TopCaller ==
    ASSUME NEW h \in [Caller -> Int], IsFiniteSet(Caller), Caller # {}
    PROVE  \E c \in Caller : \A d \in Caller : h[d] <= h[c]
<1> DEFINE Topped(T) == \E c \in T : \A d \in T : h[d] <= h[c]
           Sizes == {Cardinality(T) : T \in {U \in SUBSET Caller : U # {} /\ ~Topped(U)}}
<1> SUFFICES ASSUME ~Topped(Caller) PROVE FALSE
  OBVIOUS
<1>1. \A T \in SUBSET Caller : IsFiniteSet(T) /\ Cardinality(T) \in Nat
  BY FS_Subset, FS_CardinalityType
<1>2. PICK k \in Sizes : \A j \in Sizes : k <= j
  <2>1. Cardinality(Caller) \in Sizes
    OBVIOUS
  <2>2. Sizes \in SUBSET Nat
    BY <1>1
  <2> HIDE DEF Sizes
  <2> QED
    BY <2>1, <2>2, LeastNumber
<1>3. PICK T \in SUBSET Caller : T # {} /\ ~Topped(T) /\ Cardinality(T) = k
  OBVIOUS
<1>4. PICK x \in T : TRUE
  BY <1>3
<1>5. Cardinality(T \ {x}) = k - 1 /\ k \in Nat
  BY <1>1, <1>3, FS_RemoveElement
<1>6. ASSUME NEW m \in T \ {x}, \A n \in T \ {x} : h[n] <= h[m]
      PROVE  Topped(T)
  <2>1. h[x] \in Int /\ h[m] \in Int /\ \A n \in T : h[n] \in Int
    OBVIOUS
  <2>2. CASE h[x] <= h[m]
    BY <1>6, <2>2
  <2>3. CASE ~(h[x] <= h[m])
    <3>1. \A n \in T : h[n] <= h[x]
      BY <1>6, <2>1, <2>3
    <3> QED
      BY <3>1
  <2> QED
    BY <2>2, <2>3
<1>7. T \ {x} # {}
  <2> SUFFICES ASSUME T = {x} PROVE FALSE
    BY <1>4
  <2>1. h[x] \in Int
    OBVIOUS
  <2>2. Topped(T)
    BY <2>1
  <2> QED
    BY <1>3, <2>2
<1>8. k - 1 \in Sizes
  BY <1>3, <1>5, <1>6, <1>7
<1>9. k <= k - 1
  BY <1>2, <1>8
<1> HIDE DEF Sizes
<1> QED
  BY <1>5, <1>9

\* So one of their clocks is ahead of all others, and one behind all others.
LEMMA FiniteExtremes ==
    ASSUME IsFiniteSet(Caller), Caller # {}
    PROVE  Extremes
<1>0. Skew \in [Caller -> Int]
  BY RateLimitAssumption
<1>1. PICK f \in Caller : \A d \in Caller : Skew[d] <= Skew[f]
  BY <1>0, TopCaller
<1> DEFINE late == [c \in Caller |-> 0 - Skew[c]]
<1>2. late \in [Caller -> Int]
  BY <1>0
<1>3. PICK s \in Caller : \A d \in Caller : late[d] <= late[s]
  <2> HIDE DEF late
  <2> QED
    BY <1>2, TopCaller
<1>4. ASSUME NEW d \in Caller PROVE Skew[s] <= Skew[d]
  <2>1. late[d] = 0 - Skew[d] /\ late[s] = 0 - Skew[s]
    OBVIOUS
  <2>2. Skew[d] \in Int /\ Skew[s] \in Int
    BY <1>0
  <2>3. late[d] <= late[s]
    BY <1>3
  <2> HIDE DEF late
  <2> QED
    BY <2>1, <2>2, <2>3
<1>5. Fastest(f) /\ Slowest(s)
  BY <1>1, <1>4 DEF Fastest, Slowest
<1> QED
  BY <1>5 DEF Extremes

-----------------------------------------------------------------------------
(* Arithmetic. *)

\* Products are monotonic.
LEMMA Monotonic ==
    ASSUME NEW a \in Int, NEW b \in Int, a <= b
    PROVE  a * Rate <= b * Rate
<1>1. Rate \in Nat
  BY RateLimitAssumption
<1>2. (b - a) * Rate >= 0
  BY <1>1
<1>3. (b - a) * Rate = b * Rate - a * Rate
  BY <1>1
<1> QED
  BY <1>1, <1>2, <1>3

\* A full bucket holds something.
LEMMA FullType == Full \in Nat /\ Full >= Grain /\ Full >= 1
<1>1. Capacity \in Nat /\ Capacity >= 1 /\ Grain \in Nat /\ Grain >= 1
  BY RateLimitAssumption
<1>2. Capacity * Grain >= Grain
  <2>1. (Capacity - 1) * Grain >= 0
    BY <1>1
  <2>2. (Capacity - 1) * Grain = Capacity * Grain - Grain
    BY <1>1
  <2> QED
    BY <1>1, <2>1, <2>2
<1> QED
  BY <1>1, <1>2 DEF Full

\* In its lifetime a hash could be filled twice.
LEMMA Lifetime == TTL \in Nat /\ TTL >= 1 /\ TTL * Rate >= 2 * Full
<1> DEFINE a == 2 * Full + Rate - 1
<1>1. Rate \in Nat /\ Rate >= 1 /\ Full \in Nat /\ Full >= 1 /\ a \in Nat /\ a >= Rate
  BY RateLimitAssumption, FullType
<1>2. a \div Rate \in Int /\ a = Rate * (a \div Rate) + (a % Rate) /\ (a % Rate) \in 0 .. Rate - 1
  BY <1>1
<1>3. Rate * (a \div Rate) >= 2 * Full
  BY <1>1, <1>2
<1>4. a \div Rate >= 1
  <2>1. SUFFICES ASSUME a \div Rate <= 0 PROVE FALSE
    BY <1>2
  <2>2. (a \div Rate) * Rate <= 0 * Rate
    BY <2>1, <1>2, Monotonic
  <2> QED
    BY <2>2, <1>1, <1>2, <1>3
<1> QED
  BY <1>1, <1>2, <1>3, <1>4 DEF TTL

\* The spread of the times is that of the extreme clocks.
LEMMA SpreadIs ==
    ASSUME Extremes
    PROVE  /\ Most \in Int /\ Least \in Int
           /\ \A c \in Caller : Skew[c] \in Int /\ Least <= Skew[c] /\ Skew[c] <= Most
           /\ Spread = MaxDelay + (Most - Least)
           /\ Spread \in Int
<1> DEFINE f == CHOOSE c : Fastest(c)
           s == CHOOSE c : Slowest(c)
           apart == {Skew[c] - Skew[d] : c, d \in Caller}
<1>1. Fastest(f) /\ Slowest(s)
  BY DEF Extremes
<1>a. Most = Skew[f] /\ Least = Skew[s]
  BY DEF Most, Least
<1> HIDE DEF f, s
<1>2. \A c \in Caller : Skew[c] \in Int /\ Skew[s] <= Skew[c] /\ Skew[c] <= Skew[f]
  BY <1>1, RateLimitAssumption DEF Fastest, Slowest
<1>3. Skew[f] - Skew[s] \in apart
  BY <1>1 DEF Fastest, Slowest
<1>4. ASSUME NEW m \in apart PROVE m \in Int /\ m <= Skew[f] - Skew[s]
  <2>1. PICK c \in Caller, d \in Caller : m = Skew[c] - Skew[d]
    OBVIOUS
  <2>2. Skew[f] \in Int /\ Skew[s] \in Int
    BY <1>1, <1>2 DEF Fastest, Slowest
  <2> QED
    BY <2>1, <2>2, <1>2
<1>5. (CHOOSE n \in apart : \A m \in apart : m <= n) = Skew[f] - Skew[s]
  <2> DEFINE top == CHOOSE n \in apart : \A m \in apart : m <= n
  <2> SUFFICES top = Skew[f] - Skew[s]
    OBVIOUS
  <2> HIDE DEF apart
  <2>1. top \in apart /\ \A m \in apart : m <= top
    BY <1>3, <1>4
  <2>2. top \in Int /\ top <= Skew[f] - Skew[s] /\ Skew[f] - Skew[s] <= top
        /\ Skew[f] - Skew[s] \in Int
    BY <2>1, <1>3, <1>4
  <2> HIDE DEF top
  <2> QED
    BY <2>2
<1>6. Skew[f] \in Int /\ Skew[s] \in Int
  BY <1>1, <1>2 DEF Fastest, Slowest
<1>7. MaxDelay \in Nat
  BY RateLimitAssumption
<1>8. Spread = MaxDelay + (Skew[f] - Skew[s])
  <2>1. Spread = MaxDelay + (CHOOSE n \in apart : \A m \in apart : m <= n)
    BY DEF Spread
  <2> HIDE DEF apart
  <2> QED
    BY <2>1, <1>5, Zenon
<1> QED
  BY <1>a, <1>2, <1>6, <1>7, <1>8

-----------------------------------------------------------------------------
(* Types. *)

\* A call in flight is recent: its time is what the bounds are about.
Timely == \A c \in Caller : pc[c] # "idle" => began[c] <= clock /\ clock <= began[c] + MaxDelay

\* The initial state has its types.
LEMMA InitTypes == Init => TypeOK /\ Timely
BY FullType DEF Init, TypeOK, Timely, Bucket

\* A script leaves the bucket within its bounds.
LEMMA ScriptType ==
    ASSUME TypeOK, NEW t \in Int, Script(t)
    PROVE  /\ Refilled(t) \in 0 .. Full
           /\ bucket' \in Bucket
           /\ bucket'.tokens = (IF Allowed(t) THEN Refilled(t) - Grain ELSE Refilled(t))
           /\ bucket'.tokens \in 0 .. Full
           /\ bucket'.ts = t
           /\ bucket'.expires = clock + TTL
<1>1. Full \in Nat /\ Grain \in Nat /\ Rate \in Nat /\ TTL \in Nat /\ clock \in Nat
  BY FullType, Lifetime, RateLimitAssumption DEF TypeOK
<1>2. bucket.tokens \in Int /\ bucket.ts \in Int /\ bucket.expires \in Int
      /\ bucket.tokens >= 0 /\ bucket.tokens <= Full
  BY DEF TypeOK, Bucket
<1>3. Refilled(t) \in 0 .. Full
  <2> DEFINE elapsed == IF t > bucket.ts THEN t - bucket.ts ELSE 0
  <2>1. elapsed \in Nat
    BY <1>2
  <2>2. elapsed * Rate \in Nat
    BY <2>1, <1>1
  <2> HIDE DEF elapsed
  <2>3. Refilled(t) = IF Gone THEN Full
                      ELSE IF bucket.tokens + elapsed * Rate > Full THEN Full
                           ELSE bucket.tokens + elapsed * Rate
    BY DEF Refilled, elapsed
  <2> QED
    BY <2>2, <2>3, <1>1, <1>2
<1>4. bucket' = [tokens  |-> IF Allowed(t) THEN Refilled(t) - Grain ELSE Refilled(t),
                 ts      |-> t,
                 expires |-> clock + TTL]
  BY DEF Script
<1>5. (IF Allowed(t) THEN Refilled(t) - Grain ELSE Refilled(t)) \in 0 .. Full
  BY <1>1, <1>3 DEF Allowed
<1> QED
  BY <1>1, <1>3, <1>4, <1>5 DEF Bucket

\* Where a caller's time comes from.
LEMMA TimeType ==
    ASSUME TypeOK, NEW c \in Caller
    PROVE  Time(c) \in Int /\ began[c] \in Nat /\ Skew[c] \in Int
BY RateLimitAssumption DEF TypeOK, Time

\* What an observer keeps.
LEMMA ObserveType ==
    ASSUME NEW v \in Nat, NEW n \in Int
    PROVE  Observe(v, n) \in Nat
BY DEF Observe

\* The time moved back is a number.
LEMMA SlipType ==
    ASSUME TypeOK, NEW t \in Int
    PROVE  Slip(t) \in Nat /\ Slip(t) * Rate \in Nat
<1>1. Slip(t) \in Nat
  BY DEF Slip, TypeOK, Bucket
<1> QED
  BY <1>1, RateLimitAssumption

\* A call that ends, or is made again, leaves the callers in their types.
LEMMA CallerType ==
    ASSUME TypeOK, Timely, NEW c \in Caller, clock' = clock,
           Finish(c) \/ (pc' = [pc EXCEPT ![c] = "again"] /\ pc[c] = "eval" /\ began' = began)
    PROVE  /\ pc' \in [Caller -> {"idle", "eval", "again"}]
           /\ began' \in [Caller -> Nat]
           /\ Timely'
BY DEF TypeOK, Timely, Finish

\* Every step keeps the types.
LEMMA NextTypes == TypeOK /\ Timely /\ [Next]_vars => TypeOK' /\ Timely'
<1> SUFFICES ASSUME TypeOK, Timely, [Next]_vars PROVE TypeOK' /\ Timely'
  OBVIOUS
<1>1. CASE UNCHANGED vars
  BY <1>1 DEF vars, TypeOK, Timely
<1>2. CASE Tick
  <2>1. clock' = clock + 1 /\ UNCHANGED <<bucket, pc, began>>
    BY <1>2 DEF Tick
  <2>2. excess' \in Nat /\ overdue' \in Nat
    BY <1>2, ObserveType, RateLimitAssumption DEF Tick, TypeOK
  <2>3. ASSUME NEW c \in Caller, pc[c] # "idle"
        PROVE  began[c] <= clock + 1 /\ clock + 1 <= began[c] + MaxDelay
    BY <2>3, <1>2 DEF Tick, TypeOK, Timely
  <2> QED
    BY <2>1, <2>2, <2>3 DEF TypeOK, Timely
<1>3. CASE \E c \in Caller : Begin(c)
  <2>1. PICK c \in Caller : Begin(c)
    BY <1>3
  <2>2. pc' = [pc EXCEPT ![c] = "eval"] /\ began' = [began EXCEPT ![c] = clock]
        /\ UNCHANGED <<clock, bucket, excess, overdue>>
    BY <2>1 DEF Begin
  <2>3. MaxDelay \in Nat
    BY RateLimitAssumption
  <2> QED
    BY <2>2, <2>3 DEF TypeOK, Timely
<1>4. CASE \E c \in Caller : Eval(c)
  <2>1. PICK c \in Caller : Eval(c)
    BY <1>4
  <2>2. Script(Time(c)) /\ Finish(c) /\ clock' = clock
    BY <2>1 DEF Eval
  <2>3. excess' \in Nat /\ overdue' \in Nat
    <3> DEFINE granted == IF Allowed(Time(c)) THEN Grain ELSE 0
               slip == Slip(Time(c)) * Rate
    <3>1. granted \in Int /\ slip \in Nat
      BY TimeType, SlipType, RateLimitAssumption
    <3>2. excess' = Observe(excess, granted) /\ overdue' = Observe(overdue, granted - slip)
      BY <2>1 DEF Eval
    <3> HIDE DEF granted, slip
    <3> QED
      BY <3>1, <3>2, ObserveType DEF TypeOK
  <2> QED
    BY <2>2, <2>3, TimeType, ScriptType, CallerType DEF TypeOK
<1>5. CASE \E c \in Caller : EvalRaises(c)
  <2>1. PICK c \in Caller : EvalRaises(c)
    BY <1>5
  <2>2. clock' = clock /\ excess' = excess
        /\ (Finish(c) \/ (pc' = [pc EXCEPT ![c] = "again"] /\ pc[c] = "eval" /\ began' = began))
    BY <2>1 DEF EvalRaises
  <2>3. CASE Script(Time(c)) /\ overdue' = Observe(overdue, -(Slip(Time(c)) * Rate))
    <3>1. overdue' \in Nat
      <4>1. -(Slip(Time(c)) * Rate) \in Int
        BY TimeType, SlipType
      <4> QED
        BY <2>3, <4>1, ObserveType DEF TypeOK
    <3> QED
      BY <2>2, <2>3, <3>1, TimeType, ScriptType, CallerType DEF TypeOK
  <2>4. CASE UNCHANGED <<bucket, overdue>>
    BY <2>2, <2>4, CallerType DEF TypeOK
  <2> QED
    BY <2>1, <2>3, <2>4 DEF EvalRaises
<1> QED
  BY <1>1, <1>2, <1>3, <1>4, <1>5 DEF Next

\* The types and the bounds of the bucket hold in every reachable state.
THEOREM TypeCorrect == Spec => []TypeOK
<1>1. Spec => [](TypeOK /\ Timely)
  BY InitTypes, NextTypes, PTL DEF Spec
<1> QED
  BY <1>1, PTL

-----------------------------------------------------------------------------
(* What a hash is worth. *)

\* The hash was written by a script some time ago, which brought a time that is
\* at most as far ahead as the fastest clock.
Written ==
    /\ bucket.expires = 0 => overdue = 0
    /\ bucket.expires # 0 => /\ bucket.expires - TTL <= clock
                             /\ bucket.ts <= bucket.expires - TTL + Most

\* What is overdue is missing in the bucket, but for what callers that are late or
\* behind have still to fill in.
Behind == MaxDelay - Least
Worth ==
    overdue = 0 \/ overdue <= Full - bucket.tokens + (bucket.ts - clock + Behind) * Rate

BInv == TypeOK /\ Timely /\ Written /\ Worth

\* The numbers of a state.
LEMMA Numbers ==
    ASSUME Extremes, TypeOK
    PROVE  /\ clock \in Nat /\ overdue \in Nat
           /\ bucket.tokens \in 0 .. Full /\ bucket.ts \in Int /\ bucket.expires \in Int
           /\ Most \in Int /\ Least \in Int /\ Behind \in Int
           /\ Rate \in Nat /\ Rate >= 1 /\ Grain \in Nat /\ Grain >= 1
           /\ Full \in Nat /\ Full >= 1
           /\ TTL \in Nat /\ TTL >= 1 /\ TTL * Rate >= 2 * Full
           /\ MaxDelay \in Nat
           /\ Spread = Most + Behind
BY SpreadIs, FullType, Lifetime, RateLimitAssumption DEF TypeOK, Bucket, Behind

\* A hash that has expired has been left alone long enough.
LEMMA LongGone ==
    ASSUME Extremes, BInv, Gone, bucket.expires # 0
    PROVE  (clock - bucket.ts) * Rate >= 2 * Full - Most * Rate
<1> USE Numbers DEF BInv
<1>1. bucket.ts - clock <= Most - TTL
  BY DEF Written, Gone
<1>2. (bucket.ts - clock) * Rate <= (Most - TTL) * Rate
  BY <1>1, Monotonic
<1>3. (Most - TTL) * Rate = Most * Rate - TTL * Rate
  OBVIOUS
<1>4. (clock - bucket.ts) * Rate = 0 - (bucket.ts - clock) * Rate
  OBVIOUS
<1>5. /\ (bucket.ts - clock) * Rate \in Int /\ (clock - bucket.ts) * Rate \in Int
      /\ Most * Rate \in Int /\ TTL * Rate \in Int /\ (Most - TTL) * Rate \in Int
  OBVIOUS
<1> QED
  BY <1>2, <1>3, <1>4, <1>5

\* What is overdue stays below the cap.
LEMMA OverdueBounded ==
    ASSUME Extremes, BInv
    PROVE  Cap \in Int /\ overdue <= Cap
<1> USE Numbers DEF BInv
<1>1. Cap \in Int /\ Cap = Full + (Most + Behind) * Rate
  BY DEF Cap
<1>2. Most + Behind >= 0
  <2>1. PICK c : Fastest(c)
    BY DEF Extremes
  <2> QED
    BY <2>1, SpreadIs DEF Fastest, Behind
<1>3. (Most + Behind) * Rate \in Int /\ (Most + Behind) * Rate >= 0
  BY <1>2
<1>4. CASE overdue = 0
  BY <1>1, <1>3, <1>4
<1>5. CASE overdue # 0
  <2>1. bucket.ts - clock + Behind <= Most + Behind
    BY <1>5 DEF Written
  <2>2. (bucket.ts - clock + Behind) * Rate <= (Most + Behind) * Rate
    BY <2>1, Monotonic
  <2>3. (bucket.ts - clock + Behind) * Rate \in Int
    OBVIOUS
  <2>4. overdue <= Full - bucket.tokens + (bucket.ts - clock + Behind) * Rate
    BY <1>5 DEF Worth
  <2> QED
    BY <1>1, <1>3, <2>2, <2>3, <2>4
<1> QED
  BY <1>1, <1>4, <1>5

\* What is overdue before a script is missing after its refill.
LEMMA Refilling ==
    ASSUME Extremes, Spread * Rate <= Full, BInv, NEW c \in Caller, pc[c] # "idle"
    PROVE  overdue - Slip(Time(c)) * Rate
             <= Full - Refilled(Time(c)) + (Time(c) - clock + Behind) * Rate
<1> DEFINE t == Time(c)
<1> USE Numbers DEF BInv
<1>1. t \in Int /\ t - clock + Behind >= 0
  BY TimeType, SpreadIs DEF Timely, Time, Behind
<1> HIDE DEF t
<1>2. (t - clock + Behind) * Rate \in Int /\ (t - clock + Behind) * Rate >= 0
  BY <1>1
<1>3. (bucket.ts - clock + Behind) * Rate \in Int
  OBVIOUS
<1>4. overdue - Slip(t) * Rate <= Full - Refilled(t) + (t - clock + Behind) * Rate
  <2>1. CASE Gone
    <3>1. Refilled(t) = Full /\ Slip(t) = 0
      BY <2>1 DEF Refilled, Slip
    <3>2. overdue <= 0
      <4>1. SUFFICES ASSUME overdue # 0, bucket.expires # 0 PROVE overdue <= 0
        BY DEF Written
      <4>2. (clock - bucket.ts) * Rate >= 2 * Full - Most * Rate
        BY <2>1, <4>1, LongGone
      <4>3. (bucket.ts - clock + Behind) * Rate
              = Behind * Rate - (clock - bucket.ts) * Rate
        OBVIOUS
      <4>4. Spread * Rate = Most * Rate + Behind * Rate
        OBVIOUS
      <4>5. Behind * Rate \in Int /\ Most * Rate \in Int /\ (clock - bucket.ts) * Rate \in Int
        OBVIOUS
      <4>6. overdue <= Full - bucket.tokens + (bucket.ts - clock + Behind) * Rate
        BY <4>1 DEF Worth
      <4> QED
        BY <4>2, <4>3, <4>4, <4>5, <4>6
    <3> QED
      BY <1>2, <3>1, <3>2
  <2>2. CASE ~Gone /\ t >= bucket.ts
    <3>1. Slip(t) = 0
      BY <2>2, <1>1 DEF Slip
    <3>2. (t - bucket.ts) * Rate \in Int /\ (t - bucket.ts) * Rate >= 0
      BY <2>2, <1>1
    <3>3. Refilled(t) = IF bucket.tokens + (t - bucket.ts) * Rate > Full
                          THEN Full ELSE bucket.tokens + (t - bucket.ts) * Rate
      <4> DEFINE elapsed == IF t > bucket.ts THEN t - bucket.ts ELSE 0
      <4>1. elapsed = t - bucket.ts
        BY <2>2, <1>1
      <4>2. Refilled(t) = IF bucket.tokens + elapsed * Rate > Full
                            THEN Full ELSE bucket.tokens + elapsed * Rate
        BY <2>2 DEF Refilled
      <4> HIDE DEF elapsed
      <4> QED
        BY <4>1, <4>2
    <3>4. (t - clock + Behind) * Rate
            = (t - bucket.ts) * Rate + (bucket.ts - clock + Behind) * Rate
      BY <1>1
    <3>5. overdue = 0
            \/ overdue <= Full - bucket.tokens + (bucket.ts - clock + Behind) * Rate
      BY DEF Worth
    <3>6. Slip(t) * Rate = 0
      BY <3>1
    <3> QED
      BY <1>2, <1>3, <3>2, <3>3, <3>4, <3>5, <3>6
  <2>3. CASE ~Gone /\ t < bucket.ts
    <3>1. Slip(t) = bucket.ts - t /\ Slip(t) * Rate \in Int /\ Slip(t) * Rate >= 0
      BY <2>3, <1>1 DEF Slip
    <3>2. Refilled(t) = bucket.tokens
      <4>1. 0 * Rate = 0
        OBVIOUS
      <4> QED
        BY <2>3, <1>1, <4>1 DEF Refilled
    <3>3. (t - clock + Behind) * Rate
            = (bucket.ts - clock + Behind) * Rate - Slip(t) * Rate
      BY <1>1, <3>1
    <3>4. overdue = 0
            \/ overdue <= Full - bucket.tokens + (bucket.ts - clock + Behind) * Rate
      BY DEF Worth
    <3> QED
      BY <1>2, <1>3, <3>1, <3>2, <3>3, <3>4
  <2> QED
    BY <1>1, <2>1, <2>2, <2>3
<1> QED
  BY <1>4 DEF t

\* A script keeps what a hash is worth, if no more is counted than it granted.
LEMMA ScriptWorth ==
    ASSUME Extremes, Spread * Rate <= Full, BInv, NEW c \in Caller, pc[c] # "idle",
           Script(Time(c)), clock' = clock,
           NEW g \in Nat, g <= (IF Allowed(Time(c)) THEN Grain ELSE 0),
           overdue' = Observe(overdue, g - Slip(Time(c)) * Rate)
    PROVE  Written' /\ Worth'
<1> DEFINE t == Time(c)
           slip == Slip(t) * Rate
           room == (t - clock + Behind) * Rate
<1>1. /\ t \in Int /\ t <= clock + Most
      /\ slip \in Nat /\ room \in Int /\ room >= 0
  <2>1. t \in Int /\ t <= clock + Most /\ t - clock + Behind >= 0
    BY TimeType, SpreadIs, Numbers DEF BInv, Timely, Time, Behind
  <2>2. slip \in Nat
    BY <2>1, SlipType DEF BInv
  <2> HIDE DEF t
  <2> QED
    BY <2>1, <2>2, Numbers DEF BInv
<1>2. overdue - slip <= Full - Refilled(t) + room
  BY Refilling
<1>3. /\ Refilled(t) \in 0 .. Full
      /\ bucket'.tokens = (IF Allowed(t) THEN Refilled(t) - Grain ELSE Refilled(t))
      /\ bucket'.tokens \in 0 .. Full
      /\ bucket'.ts = t
      /\ bucket'.expires = clock + TTL
  BY <1>1, ScriptType DEF BInv
<1>4. Written'
  BY <1>1, <1>3, Numbers DEF Written, BInv
<1>5. overdue' = 0 \/ overdue' <= Full - bucket'.tokens + room
  <2>1. overdue <= Cap /\ Cap \in Int
    BY OverdueBounded
  <2>2. ~(overdue > Cap)
    BY <2>1, Numbers DEF BInv
  <2>3. overdue' = Observe(overdue, g - slip)
    OBVIOUS
  <2>4. Allowed(t) => g <= Grain
    OBVIOUS
  <2>5. ~Allowed(t) => g <= 0
    OBVIOUS
  <2> HIDE DEF t, slip, room
  <2>6. overdue' = (IF overdue + (g - slip) > 0 THEN overdue + (g - slip) ELSE 0)
    BY <2>2, <2>3 DEF Observe
  <2> QED
    BY <1>1, <1>2, <1>3, <2>4, <2>5, <2>6, Numbers DEF BInv
<1> QED
  BY <1>3, <1>4, <1>5 DEF Worth

\* Every step keeps the invariant.
LEMMA NextBInv ==
    ASSUME Extremes, Spread * Rate <= Full, BInv, [Next]_vars
    PROVE  BInv'
<1>1. TypeOK' /\ Timely'
  BY NextTypes DEF BInv
<1>2. CASE UNCHANGED <<bucket, overdue, clock>>
  BY <1>1, <1>2 DEF BInv, Written, Worth
<1>3. CASE Tick
  <2>1. clock' = clock + 1 /\ bucket' = bucket /\ overdue' = Observe(overdue, -Rate)
    BY <1>3 DEF Tick
  <2>2. overdue' = (IF overdue + (-Rate) > 0 THEN overdue + (-Rate) ELSE 0)
    BY <2>1, OverdueBounded, Numbers DEF Observe, BInv
  <2>3. Written'
    BY <2>1, <2>2, Numbers DEF BInv, Written
  <2>4. (bucket.ts - (clock + 1) + Behind) * Rate
          = (bucket.ts - clock + Behind) * Rate - Rate
        /\ (bucket.ts - clock + Behind) * Rate \in Int
    BY Numbers DEF BInv
  <2>5. Worth'
    BY <2>1, <2>2, <2>4, Numbers DEF BInv, Worth
  <2> QED
    BY <1>1, <2>3, <2>5 DEF BInv
<1>4. CASE \E c \in Caller : Eval(c)
  <2>1. PICK c \in Caller : Eval(c)
    BY <1>4
  <2> DEFINE g == IF Allowed(Time(c)) THEN Grain ELSE 0
  <2>2. /\ pc[c] # "idle" /\ Script(Time(c)) /\ clock' = clock
        /\ overdue' = Observe(overdue, g - Slip(Time(c)) * Rate)
    BY <2>1 DEF Eval
  <2>3. g \in Nat
    BY Numbers DEF BInv
  <2>4. g <= g
    BY <2>3
  <2>5. Written' /\ Worth'
    BY <2>2, <2>3, <2>4, ScriptWorth
  <2> QED
    BY <1>1, <2>5 DEF BInv
<1>5. CASE \E c \in Caller : EvalRaises(c)
  <2>1. PICK c \in Caller : EvalRaises(c)
    BY <1>5
  <2>2. pc[c] # "idle" /\ clock' = clock
    BY <2>1 DEF EvalRaises
  <2>3. CASE Script(Time(c)) /\ overdue' = Observe(overdue, -(Slip(Time(c)) * Rate))
    <3>1. 0 - Slip(Time(c)) * Rate = -(Slip(Time(c)) * Rate)
      BY TimeType, SlipType DEF BInv
    <3>2. overdue' = Observe(overdue, 0 - Slip(Time(c)) * Rate)
      BY <2>3, <3>1
    <3>3. 0 <= (IF Allowed(Time(c)) THEN Grain ELSE 0)
      BY Numbers DEF BInv
    <3>4. Written' /\ Worth'
      BY <2>2, <2>3, <3>2, <3>3, ScriptWorth
    <3> QED
      BY <1>1, <3>4 DEF BInv
  <2>4. CASE UNCHANGED <<bucket, overdue>>
    BY <1>2, <2>2, <2>4
  <2> QED
    BY <2>1, <2>3, <2>4 DEF EvalRaises
<1> QED
  BY <1>2, <1>3, <1>4, <1>5 DEF Next, Begin, vars

\* The invariant holds in every reachable state.
LEMMA Invariance ==
    ASSUME Extremes, Spread * Rate <= Full
    PROVE  Spec => []BInv
<1>1. Init => BInv
  BY InitTypes DEF BInv, Init, Written, Worth
<1>2. BInv /\ [Next]_vars => BInv'
  BY NextBInv
<1> QED
  BY <1>1, <1>2, PTL DEF Spec

-----------------------------------------------------------------------------
(* The theorems. *)

\* Clocks apart, calls late, failing, made twice and overtaking one another: the
\* cap is exceeded by no more than the refill of the time the bucket was moved back.
THEOREM RefillPaid ==
    ASSUME IsFiniteSet(Caller), Caller # {}, Spread * Rate <= Full
    PROVE  Spec => []RefillIsPaid
<1>0. Extremes
  BY FiniteExtremes
<1>1. BInv => RefillIsPaid
  BY <1>0, OverdueBounded DEF RefillIsPaid
<1> QED
  BY <1>0, <1>1, Invariance, PTL

\* A hash that Redis drops would be full, if no clock is ahead by more than a bucket's
\* refill.
THEOREM DropGrantsNothing ==
    ASSUME IsFiniteSet(Caller), Caller # {}, Spread * Rate <= Full, Most * Rate <= Full
    PROVE  Spec => []DroppedWhenFull
<1>0. Extremes
  BY FiniteExtremes
<1>1. BInv => DroppedWhenFull
  <2> SUFFICES ASSUME BInv, Gone, bucket.expires # 0
               PROVE  bucket.tokens + (clock - bucket.ts) * Rate >= Full
    BY DEF DroppedWhenFull
  <2>1. (clock - bucket.ts) * Rate >= 2 * Full - Most * Rate
    BY <1>0, LongGone
  <2>2. (clock - bucket.ts) * Rate \in Int /\ Most * Rate \in Int
    BY <1>0, Numbers DEF BInv
  <2> QED
    BY <1>0, <2>1, <2>2, Numbers DEF BInv
<1> QED
  BY <1>0, <1>1, Invariance, PTL

-----------------------------------------------------------------------------
(* Without delays, on clocks that agree, the bucket caps what it is said to cap. *)

InStep == MaxDelay = 0 /\ \A c, d \in Caller : Skew[c] = Skew[d]

\* Then the times are no distance apart.
LEMMA NoSpread ==
    ASSUME Extremes, InStep
    PROVE  Spread * Rate <= Full /\ \A c \in Caller : Skew[c] = Most
<1>1. PICK f : Fastest(f)
  BY DEF Extremes
<1>2. \A c \in Caller : Skew[c] = Skew[f]
  BY <1>1 DEF Fastest, InStep
<1>3. Most = Skew[f] /\ Least = Skew[f]
  <2>1. Fastest(CHOOSE c : Fastest(c)) /\ Slowest(CHOOSE c : Slowest(c))
    BY DEF Extremes
  <2> QED
    BY <2>1, <1>2 DEF Most, Least, Fastest, Slowest
<1>4. Spread = 0
  BY <1>3, SpreadIs DEF InStep
<1>5. 0 * Rate = 0
  BY RateLimitAssumption
<1> QED
  BY <1>2, <1>3, <1>4, <1>5, FullType

\* And no script moves the bucket's time back.
LEMMA NoSlip ==
    ASSUME Extremes, InStep, BInv, NEW c \in Caller, pc[c] # "idle"
    PROVE  Slip(Time(c)) = 0 /\ Slip(Time(c)) * Rate = 0
<1>1. began[c] = clock /\ Skew[c] = Most /\ Most \in Int
  BY NoSpread, TimeType, Numbers DEF BInv, Timely, InStep
<1>2. Time(c) = clock + Most
  BY <1>1 DEF Time
<1>3. ~Gone => bucket.ts <= clock + Most
  BY Numbers DEF Gone, BInv, Written
<1>4. Slip(Time(c)) = 0
  BY <1>2, <1>3, Numbers DEF Slip, BInv
<1>5. 0 * Rate = 0
  BY RateLimitAssumption
<1> QED
  BY <1>4, <1>5

\* What is in excess is then what is overdue.
LEMMA ExcessStep ==
    ASSUME Extremes, InStep, BInv, excess = overdue, [Next]_vars
    PROVE  excess' = overdue'
<1>1. overdue \in Nat /\ overdue <= Cap /\ Cap \in Int
  BY OverdueBounded, Numbers DEF BInv
<1>2. Observe(overdue, 0) = overdue
  BY <1>1 DEF Observe
<1>3. CASE UNCHANGED <<excess, overdue>>
  BY <1>3
<1>4. CASE Tick
  BY <1>4 DEF Tick
<1>5. CASE \E c \in Caller : Eval(c)
  <2>1. PICK c \in Caller : Eval(c)
    BY <1>5
  <2> DEFINE granted == IF Allowed(Time(c)) THEN Grain ELSE 0
  <2>2. Slip(Time(c)) * Rate = 0
    BY <2>1, NoSlip DEF Eval
  <2>3. granted \in Int
    BY RateLimitAssumption
  <2>4. /\ excess' = Observe(excess, granted)
        /\ overdue' = Observe(overdue, granted - Slip(Time(c)) * Rate)
    BY <2>1 DEF Eval
  <2> HIDE DEF granted
  <2>5. granted - Slip(Time(c)) * Rate = granted
    BY <2>2, <2>3
  <2> QED
    BY <2>4, <2>5
<1>6. CASE \E c \in Caller : EvalRaises(c)
  <2>1. PICK c \in Caller : EvalRaises(c)
    BY <1>6
  <2>2. Slip(Time(c)) * Rate = 0
    BY <2>1, NoSlip DEF EvalRaises
  <2>3. -(Slip(Time(c)) * Rate) = 0
    BY <2>2
  <2>4. excess' = excess
    BY <2>1 DEF EvalRaises
  <2>5. \/ overdue' = Observe(overdue, -(Slip(Time(c)) * Rate))
        \/ overdue' = overdue
    BY <2>1 DEF EvalRaises
  <2> QED
    BY <1>2, <2>3, <2>4, <2>5
<1> QED
  BY <1>3, <1>4, <1>5, <1>6 DEF Next, Begin, vars

\* The invariant, and the two observers agree: no time is moved back.
Level == BInv /\ excess = overdue

\* With no delays and clocks that agree, no window of time gets more than a
\* full bucket and its refill, whichever calls fail and are made twice.
THEOREM CappedInStep ==
    ASSUME IsFiniteSet(Caller), Caller # {}, InStep
    PROVE  Spec => []RateIsCapped
<1>0. Extremes
  BY FiniteExtremes
<1>1. Spread * Rate <= Full
  BY <1>0, NoSpread
<1>2. Init => Level
  BY InitTypes DEF Level, BInv, Init, Written, Worth
<1>3. Level /\ [Next]_vars => Level'
  BY <1>0, <1>1, NextBInv, ExcessStep DEF Level
<1>4. Level => RateIsCapped
  BY <1>0, OverdueBounded DEF Level, RateIsCapped
<1> QED
  BY <1>2, <1>3, <1>4, PTL DEF Spec
=============================================================================
