-------------------------- MODULE EventOutboxProofs --------------------------
(***************************************************************************)
(* Theorems about EventOutbox, for every number of rows, replicas and      *)
(* failures.  The inductive invariant says what SKIP LOCKED gives a poll   *)
(* (Held), what the committed state says of the stream (Delivered) and     *)
(* which copies a failure has already paid for (Paid).                     *)
(***************************************************************************)
EXTENDS EventOutbox, TLAPS, FiniteSetTheorems, WellFoundedInduction

\* A poll works on pending rows that no other poll holds, and on none twice.
Held ==
    /\ \A d \in Drain :
        /\ todo[d] \subseteq locked[d]
        /\ sent[d] \subseteq locked[d]
        /\ todo[d] \cap sent[d] = {}
        /\ \A e \in locked[d] : state[e] = "pending"
        /\ pc[d] # "publishing" => locked[d] = {}
    /\ \A c, d \in Drain : c # d => locked[c] \cap locked[d] = {}

\* A row that is DONE, or is about to be, is on the stream; one that is not
\* committed is not.
Delivered ==
    /\ \A e \in Event :
        /\ state[e] = "done" => copies[e] > 0
        /\ state[e] = "absent" => copies[e] = 0
    /\ \A d \in Drain : \A e \in sent[d] : copies[e] > 0

\* Copies of a pending row that no open poll has sent were paid for by faults.
Paid ==
    \A e \in Event :
        /\ copies[e] <= 1 + faults
        /\ state[e] = "pending" /\ (\A d \in Drain : e \notin sent[d])
             => copies[e] <= faults

\* The inductive invariant.
IInv == TypeOK /\ Held /\ Delivered /\ Paid

-----------------------------------------------------------------------------
(* What a batch is. *)

\* A set of numbers that is not empty has a least one.
LEMMA LeastNumber ==
    ASSUME NEW S \in SUBSET Nat, S # {}
    PROVE  \E m \in S : \A n \in S : m <= n
<1> DEFINE R == OpToRel(<, Nat)
<1>1. IsWellFoundedOn(R, Nat)
  BY NatLessThanWellFounded
<1>2. \A m, n \in Nat : m < n => <<m, n>> \in R
  BY DEF OpToRel
<1> HIDE DEF R
<1>3. PICK m \in S : \A n \in S : ~(<<n, m>> \in R)
  BY <1>1, WFMin
<1>4. \A n \in S : m \in Nat /\ n \in Nat /\ ~(n < m)
  BY <1>2, <1>3, Zenon
<1>5. \A n \in S : m <= n
  BY <1>4
<1> QED
  BY <1>5

\* The next row of a poll is one of its rows.
LEMMA HeadIsNext ==
    ASSUME NEW d \in Drain, TypeOK, todo[d] # {}
    PROVE  Head(d) \in todo[d]
<1>1. todo[d] \in SUBSET Nat
  BY EventOutboxAssumption DEF TypeOK
<1>2. \E e \in todo[d] : \A f \in todo[d] : e <= f
  BY <1>1, LeastNumber
<1> QED
  BY <1>2 DEF Head

-----------------------------------------------------------------------------
(* The invariant is inductive. *)

\* Initially no row exists and no drain holds anything.
LEMMA InitInv == Init => IInv
  BY EventOutboxAssumption DEF Init, IInv, TypeOK, Held, Delivered, Paid

\* A poll takes and returns rows, and moves them from todo to sent, within
\* their types.
LEMMA TypeStep == IInv /\ [Next]_vars => TypeOK'
<1> SUFFICES ASSUME IInv, [Next]_vars PROVE TypeOK'
  OBVIOUS
<1> USE DEF IInv, TypeOK
<1>1. ASSUME NEW e \in Event, Insert(e) PROVE TypeOK'
  BY <1>1 DEF Insert
<1>2. ASSUME NEW d \in Drain, Claim(d) PROVE TypeOK'
  <2> DEFINE batch == Oldest(Available(d))
  <2>1. batch \subseteq Event
    BY DEF Oldest, Available
  <2>2. /\ locked' = [locked EXCEPT ![d] = batch]
        /\ todo' = [todo EXCEPT ![d] = batch]
        /\ pc' = [pc EXCEPT ![d] = "publishing"]
        /\ UNCHANGED <<state, copies, sent, faults>>
    BY <1>2 DEF Claim
  <2> HIDE DEF batch
  <2> QED
    BY <2>1, <2>2
<1>3. ASSUME NEW d \in Drain, Publish(d) PROVE TypeOK'
  <2>1. Head(d) \in Event
    BY <1>3, HeadIsNext DEF Publish
  <2>2. copies[Head(d)] + 1 \in Nat
    BY <2>1
  <2> QED
    BY <1>3, <2>1, <2>2 DEF Publish
<1>4. ASSUME NEW d \in Drain, PublishFails(d) PROVE TypeOK'
  <2>1. Head(d) \in Event
    BY <1>4, HeadIsNext DEF PublishFails
  <2>2. copies[Head(d)] + 1 \in Nat
    BY <2>1
  <2> QED
    BY <1>4, <2>1, <2>2 DEF PublishFails
<1>5. ASSUME NEW d \in Drain, SkipPoison(d) PROVE TypeOK'
  BY <1>5 DEF SkipPoison
<1>6. ASSUME NEW d \in Drain, Commit(d) PROVE TypeOK'
  BY <1>6 DEF Commit, Release, Settled
<1>7. ASSUME NEW d \in Drain, Wake(d) PROVE TypeOK'
  BY <1>7 DEF Wake
<1>8. ASSUME NEW d \in Drain, DbError(d) PROVE TypeOK'
  BY <1>8 DEF DbError, Release, Settled
<1>9. ASSUME NEW d \in Drain, Restart(d) PROVE TypeOK'
  BY <1>9 DEF Restart, Release
<1>10. CASE UNCHANGED vars
  BY <1>10 DEF vars
<1> QED
  BY <1>1, <1>2, <1>3, <1>4, <1>5, <1>6, <1>7, <1>8, <1>9, <1>10 DEF Next, Poll

\* Rows that are locked stay pending until the poll that holds them commits,
\* and a locking SELECT passes over them.
LEMMA HeldStep == IInv /\ [Next]_vars => Held'
<1> SUFFICES ASSUME IInv, [Next]_vars PROVE Held'
  OBVIOUS
<1> USE DEF IInv, Held, TypeOK
<1>1. ASSUME NEW e \in Event, Insert(e) PROVE Held'
  BY <1>1 DEF Insert
<1>2. ASSUME NEW d \in Drain, Claim(d) PROVE Held'
  <2> DEFINE batch == Oldest(Available(d))
  <2>1. \A e \in batch :
            /\ e \in Event
            /\ state[e] = "pending"
            /\ \A c \in Drain \ {d} : e \notin locked[c]
    BY DEF Oldest, Available
  <2>2. /\ locked' = [locked EXCEPT ![d] = batch]
        /\ todo' = [todo EXCEPT ![d] = batch]
        /\ pc[d] = "polling"
        /\ UNCHANGED <<state, sent>>
    BY <1>2 DEF Claim
  <2>3. sent[d] = {}
    BY <2>2
  <2> HIDE DEF batch
  <2>4. /\ locked'[d] = batch /\ todo'[d] = batch /\ sent'[d] = {}
        /\ \A c \in Drain : c # d =>
             locked'[c] = locked[c] /\ todo'[c] = todo[c] /\ sent'[c] = sent[c]
    BY <2>2, <2>3
  <2>5. \A c \in Drain : c # d => locked[c] \cap batch = {}
    BY <2>1
  <2>6. /\ \A c \in Drain : \A e \in locked'[c] : state'[e] = "pending"
        /\ \A c \in Drain : pc'[c] # "publishing" => locked'[c] = {}
    BY <1>2, <2>1, <2>2, <2>4 DEF Claim
  <2>7. \A b, c \in Drain : b # c => locked'[b] \cap locked'[c] = {}
    BY <2>4, <2>5
  <2> QED
    BY <2>4, <2>6, <2>7
<1>3. ASSUME NEW d \in Drain, Publish(d) PROVE Held'
  <2>1. Head(d) \in todo[d]
    BY <1>3, HeadIsNext DEF Publish
  <2> QED
    BY <1>3, <2>1 DEF Publish
<1>4. ASSUME NEW d \in Drain, PublishFails(d) PROVE Held'
  BY <1>4 DEF PublishFails
<1>5. ASSUME NEW d \in Drain, SkipPoison(d) PROVE Held'
  BY <1>5 DEF SkipPoison
<1>6. ASSUME NEW d \in Drain, Commit(d) PROVE Held'
  BY <1>6 DEF Commit, Release, Settled
<1>7. ASSUME NEW d \in Drain, Wake(d) PROVE Held'
  BY <1>7 DEF Wake
<1>8. ASSUME NEW d \in Drain, DbError(d) PROVE Held'
  BY <1>8 DEF DbError, Release, Settled
<1>9. ASSUME NEW d \in Drain, Restart(d) PROVE Held'
  BY <1>9 DEF Restart, Release
<1>10. CASE UNCHANGED vars
  BY <1>10 DEF vars
<1> QED
  BY <1>1, <1>2, <1>3, <1>4, <1>5, <1>6, <1>7, <1>8, <1>9, <1>10 DEF Next, Poll

\* A row is marked after its event is out, and only marked rows are settled.
LEMMA DeliveredStep == IInv /\ [Next]_vars => Delivered'
<1> SUFFICES ASSUME IInv, [Next]_vars PROVE Delivered'
  OBVIOUS
<1> USE DEF IInv, Delivered, TypeOK
<1>1. ASSUME NEW e \in Event, Insert(e) PROVE Delivered'
  BY <1>1 DEF Insert
<1>2. ASSUME NEW d \in Drain, Claim(d) PROVE Delivered'
  BY <1>2 DEF Claim
<1>3. ASSUME NEW d \in Drain, Publish(d) PROVE Delivered'
  <2>1. Head(d) \in todo[d] /\ Head(d) \in Event /\ state[Head(d)] = "pending"
    BY <1>3, HeadIsNext DEF Publish, Held
  <2>2. \A e \in Event : copies'[e] = IF e = Head(d) THEN copies[e] + 1 ELSE copies[e]
    BY <1>3 DEF Publish
  <2> QED
    BY <1>3, <2>1, <2>2 DEF Publish
<1>4. ASSUME NEW d \in Drain, PublishFails(d) PROVE Delivered'
  <2>1. Head(d) \in todo[d] /\ Head(d) \in Event /\ state[Head(d)] = "pending"
    BY <1>4, HeadIsNext DEF PublishFails, Held
  <2>2. \A e \in Event : copies'[e] = copies[e] \/ (e = Head(d) /\ copies'[e] = copies[e] + 1)
    BY <1>4 DEF PublishFails
  <2> QED
    BY <1>4, <2>1, <2>2 DEF PublishFails
<1>5. ASSUME NEW d \in Drain, SkipPoison(d) PROVE Delivered'
  BY <1>5 DEF SkipPoison
<1>6. ASSUME NEW d \in Drain, Commit(d) PROVE Delivered'
  BY <1>6 DEF Commit, Release, Settled
<1>7. ASSUME NEW d \in Drain, Wake(d) PROVE Delivered'
  BY <1>7 DEF Wake
<1>8. ASSUME NEW d \in Drain, DbError(d) PROVE Delivered'
  BY <1>8 DEF DbError, Release, Settled
<1>9. ASSUME NEW d \in Drain, Restart(d) PROVE Delivered'
  BY <1>9 DEF Restart, Release
<1>10. CASE UNCHANGED vars
  BY <1>10 DEF vars
<1> QED
  BY <1>1, <1>2, <1>3, <1>4, <1>5, <1>6, <1>7, <1>8, <1>9, <1>10 DEF Next, Poll

\* A poll that publishes a row is the only one that holds it, so the copies
\* there already are were paid for; undoing a poll is a fault and pays for one.
LEMMA PaidStep == IInv /\ [Next]_vars => Paid'
<1> SUFFICES ASSUME IInv, [Next]_vars PROVE Paid'
  OBVIOUS
<1> USE DEF IInv, Paid, TypeOK
<1>1. ASSUME NEW e \in Event, Insert(e) PROVE Paid'
  BY <1>1 DEF Insert, Delivered
<1>2. ASSUME NEW d \in Drain, Claim(d) PROVE Paid'
  BY <1>2 DEF Claim
<1>3. ASSUME NEW d \in Drain, Publish(d) PROVE Paid'
  <2>1. Head(d) \in todo[d]
    BY <1>3, HeadIsNext DEF Publish
  <2>2. /\ Head(d) \in Event
        /\ state[Head(d)] = "pending"
        /\ \A c \in Drain : Head(d) \notin sent[c]
    BY <2>1 DEF Held
  <2>3. copies[Head(d)] <= faults
    BY <2>2
  <2>4. \A e \in Event : copies'[e] = IF e = Head(d) THEN copies[e] + 1 ELSE copies[e]
    BY <1>3 DEF Publish
  <2>5. /\ Head(d) \in sent'[d]
        /\ \A c \in Drain : sent[c] \subseteq sent'[c]
        /\ UNCHANGED <<state, faults>>
    BY <1>3 DEF Publish
  <2> QED
    BY <2>2, <2>3, <2>4, <2>5
<1>4. ASSUME NEW d \in Drain, PublishFails(d) PROVE Paid'
  <2>1. Head(d) \in todo[d]
    BY <1>4, HeadIsNext DEF PublishFails
  <2>2. /\ Head(d) \in Event
        /\ state[Head(d)] = "pending"
        /\ \A c \in Drain : Head(d) \notin sent[c]
    BY <2>1 DEF Held
  <2>3. copies[Head(d)] <= faults
    BY <2>2
  <2>4. \A e \in Event : copies'[e] = copies[e] \/ (e = Head(d) /\ copies'[e] = copies[e] + 1)
    BY <1>4 DEF PublishFails
  <2>5. faults' = faults + 1 /\ UNCHANGED <<state, sent>>
    BY <1>4 DEF PublishFails
  <2> QED
    BY <2>2, <2>3, <2>4, <2>5
<1>5. ASSUME NEW d \in Drain, SkipPoison(d) PROVE Paid'
  BY <1>5 DEF SkipPoison
<1>6. ASSUME NEW d \in Drain, Commit(d) PROVE Paid'
  <2>1. UNCHANGED <<copies, faults>>
    BY <1>6 DEF Commit
  <2>2. \A e \in Event : state'[e] = "pending" => state[e] = "pending" /\ e \notin sent[d]
    BY <1>6 DEF Commit, Settled
  <2>3. \A c \in Drain : c # d => sent'[c] = sent[c]
    BY <1>6 DEF Commit, Release
  <2> QED
    BY <2>1, <2>2, <2>3
<1>7. ASSUME NEW d \in Drain, Wake(d) PROVE Paid'
  BY <1>7 DEF Wake
<1>8. ASSUME NEW d \in Drain, DbError(d) PROVE Paid'
  BY <1>8 DEF DbError
<1>9. ASSUME NEW d \in Drain, Restart(d) PROVE Paid'
  BY <1>9 DEF Restart
<1>10. CASE UNCHANGED vars
  BY <1>10 DEF vars
<1> QED
  BY <1>1, <1>2, <1>3, <1>4, <1>5, <1>6, <1>7, <1>8, <1>9, <1>10 DEF Next, Poll

\* The invariant holds in every state.
THEOREM Inductive == Spec => []IInv
<1>1. IInv /\ [Next]_vars => IInv'
  BY TypeStep, HeldStep, DeliveredStep, PaidStep DEF IInv
<1> QED
  BY InitInv, <1>1, PTL DEF Spec

-----------------------------------------------------------------------------
(* What follows from it. *)

\* The variables have their types, and no row is committed as anything but
\* pending or done.
THEOREM TypeCorrect == Spec => []TypeOK
<1>1. IInv => TypeOK
  BY DEF IInv
<1> QED
  BY Inductive, <1>1, PTL

\* However many replicas poll, every copy of an event but the first costs a
\* failure.
THEOREM DuplicatesArePaidFor == Spec => []DuplicatesNeedFaults
<1>1. IInv => DuplicatesNeedFaults
  BY DEF IInv, Paid, DuplicatesNeedFaults
<1> QED
  BY Inductive, <1>1, PTL

\* The polls of all replicas implement the at-least-once stream.
THEOREM AtLeastOnceDelivered == Spec => DeliversAtLeastOnce
<1> DEFINE owing == {e \in Event : state[e] = "pending"}
<1>1. Init => Stream!Init
  BY DEF Init, Stream!Init
<1>2. ASSUME IInv, [Next]_vars PROVE [Stream!Next]_(Stream!vars)
  <2> USE <1>2 DEF IInv, TypeOK
  <2>1. ASSUME NEW e \in Event, Insert(e) PROVE Stream!Owe(e)
    BY <2>1 DEF Insert, Delivered, Stream!Owe
  <2>2. ASSUME NEW d \in Drain, Publish(d) PROVE Stream!Send(Head(d)) /\ Head(d) \in Event
    <3>1. Head(d) \in todo[d]
      BY <2>2, HeadIsNext DEF Publish
    <3>2. Head(d) \in Event /\ state[Head(d)] = "pending"
      BY <3>1 DEF Held
    <3> QED
      BY <2>2, <3>2 DEF Publish, Stream!Send
  <2>3. ASSUME NEW d \in Drain, PublishFails(d)
        PROVE  Head(d) \in Event /\ (Stream!Send(Head(d)) \/ UNCHANGED Stream!vars)
    <3>1. Head(d) \in todo[d]
      BY <2>3, HeadIsNext DEF PublishFails
    <3>2. Head(d) \in Event /\ state[Head(d)] = "pending"
      BY <3>1 DEF Held
    <3> QED
      BY <2>3, <3>2 DEF PublishFails, Stream!Send, Stream!vars
  <2>4. ASSUME NEW d \in Drain, state' = Settled(d), UNCHANGED copies
        PROVE  Stream!Settle(sent[d]) /\ sent[d] \in SUBSET Event
    <3>1. sent[d] \in SUBSET Event /\ \A e \in sent[d] : copies[e] > 0
      BY DEF Delivered
    <3>2. owing' = owing \ sent[d]
      BY <2>4 DEF Settled
    <3> QED
      BY <2>4, <3>1, <3>2 DEF Stream!Settle
  <2>5. ASSUME UNCHANGED <<state, copies>> PROVE UNCHANGED Stream!vars
    BY <2>5 DEF Stream!vars
  <2>6. ASSUME NEW d \in Drain,
               Claim(d) \/ SkipPoison(d) \/ Wake(d) \/ Restart(d)
        PROVE  UNCHANGED <<state, copies>>
    BY <2>6 DEF Claim, SkipPoison, Wake, Restart
  <2>7. ASSUME NEW d \in Drain, Commit(d) \/ DbError(d)
        PROVE  UNCHANGED copies /\ (UNCHANGED state \/ state' = Settled(d))
    BY <2>7 DEF Commit, DbError
  <2>8. CASE UNCHANGED vars
    BY <2>8, <2>5 DEF vars
  <2>9. ASSUME NEW d \in Drain, Commit(d) \/ DbError(d)
        PROVE  Stream!Next \/ UNCHANGED Stream!vars
    <3>1. CASE UNCHANGED state
      BY <3>1, <2>9, <2>7, <2>5
    <3>2. CASE state' = Settled(d)
      <4>1. Stream!Settle(sent[d]) /\ sent[d] \in SUBSET Event
        BY <3>2, <2>9, <2>7, <2>4
      <4>2. \E S \in SUBSET Event : Stream!Settle(S)
        BY <4>1 DEF Stream!Settle
      <4> QED
        BY <4>2 DEF Stream!Next
    <3> QED
      BY <3>1, <3>2, <2>9, <2>7
  <2> QED
    BY <2>1, <2>2, <2>3, <2>5, <2>6, <2>8, <2>9 DEF Next, Poll, Stream!Next
<1> QED
  BY Inductive, <1>1, <1>2, PTL DEF Spec, DeliversAtLeastOnce, Stream!Spec

-----------------------------------------------------------------------------
(* Batches. *)

\* A finite set of numbers that is not empty has a greatest one: a smallest one
\* without it would have it after all.
LEMMA GreatestNumber ==
    ASSUME NEW S \in SUBSET Nat, IsFiniteSet(S), S # {}
    PROVE  \E m \in S : \A n \in S : n <= m
<1> DEFINE Topped(T) == \E m \in T : \A n \in T : n <= m
           Sizes == {Cardinality(T) : T \in {U \in SUBSET S : U # {} /\ ~Topped(U)}}
<1> SUFFICES ASSUME ~Topped(S) PROVE FALSE
  OBVIOUS
<1>1. \A T \in SUBSET S : IsFiniteSet(T) /\ Cardinality(T) \in Nat
  BY FS_Subset, FS_CardinalityType
<1>2. PICK k \in Sizes : \A j \in Sizes : k <= j
  <2>1. Cardinality(S) \in Sizes
    OBVIOUS
  <2>2. Sizes \in SUBSET Nat
    BY <1>1
  <2> HIDE DEF Sizes
  <2> QED
    BY <2>1, <2>2, LeastNumber
<1>3. PICK T \in SUBSET S : T # {} /\ ~Topped(T) /\ Cardinality(T) = k
  OBVIOUS
<1>4. PICK x \in T : TRUE
  BY <1>3
<1>5. Cardinality(T \ {x}) = k - 1 /\ k \in Nat
  BY <1>1, <1>3, FS_RemoveElement
<1>6. Topped(T \ {x}) => Topped(T)
  <2> SUFFICES ASSUME NEW m \in T \ {x}, \A n \in T \ {x} : n <= m
               PROVE  \E t \in T : \A n \in T : n <= t
    OBVIOUS
  <2>1. x \in Nat /\ m \in Nat /\ T \subseteq Nat
    OBVIOUS
  <2>2. CASE x <= m
    BY <2>1, <2>2
  <2>3. CASE ~(x <= m)
    <3>1. \A n \in T : n <= x
      BY <2>1, <2>3
    <3> QED
      BY <3>1
  <2> QED
    BY <2>2, <2>3
<1>7. CASE T \ {x} = {}
  <2>1. T = {x} /\ x \in Nat
    BY <1>7
  <2> QED
    BY <1>3, <2>1
<1>8. CASE T \ {x} # {}
  <2>1. k - 1 \in Sizes
    BY <1>3, <1>5, <1>6, <1>8
  <2>2. k <= k - 1
    BY <1>2, <2>1
  <2> HIDE DEF Sizes
  <2> QED
    BY <1>5, <2>2
<1> QED
  BY <1>7, <1>8

\* What the SELECT returns is no more than a batch.
LEMMA OldestFits ==
    ASSUME NEW S \in SUBSET Event, IsFiniteSet(S)
    PROVE  Cardinality(Oldest(S)) <= BatchSize
<1>0. BatchSize \in Nat \ {0} /\ Event \subseteq Nat
  BY EventOutboxAssumption
<1>1. Oldest(S) \in SUBSET S /\ Oldest(S) \in SUBSET Nat
  BY <1>0 DEF Oldest
<1>2. IsFiniteSet(Oldest(S)) /\ Cardinality(Oldest(S)) \in Nat
  BY <1>1, FS_Subset, FS_CardinalityType
<1>3. CASE Oldest(S) = {}
  BY <1>0, <1>3, FS_EmptySet
<1>4. CASE Oldest(S) # {}
  <2>1. PICK e \in Oldest(S) : \A f \in Oldest(S) : f <= e
    BY <1>1, <1>2, <1>4, GreatestNumber
  <2> DEFINE older == {f \in S : f < e}
  <2>2. IsFiniteSet(older) /\ Cardinality(older) \in Nat
    <3>1. older \in SUBSET S
      OBVIOUS
    <3> QED
      BY <3>1, FS_Subset, FS_CardinalityType
  <2>3. Cardinality(older) < BatchSize
    BY DEF Oldest
  <2>4. Oldest(S) \ {e} \in SUBSET older
    <3>1. ASSUME NEW f \in Oldest(S), f # e PROVE f < e
      <4>1. f \in Nat /\ e \in Nat /\ f <= e
        BY <1>1, <2>1
      <4> QED
        BY <3>1, <4>1
    <3> QED
      BY <1>1, <3>1
  <2> HIDE DEF older
  <2>5. Cardinality(Oldest(S) \ {e}) <= Cardinality(older)
    BY <2>2, <2>4, FS_Subset
  <2>6. Cardinality(Oldest(S) \ {e}) = Cardinality(Oldest(S)) - 1
    BY <1>2, FS_RemoveElement
  <2> QED
    BY <1>0, <1>2, <2>2, <2>3, <2>5, <2>6
<1> QED
  BY <1>3, <1>4

\* No poll holds more rows than a batch has, in a table of any finite size.
THEOREM PollsAreBounded ==
    ASSUME IsFiniteSet(Event)
    PROVE  Spec => []BatchesFit
<1>0. BatchSize \in Nat \ {0} /\ Cardinality({}) = 0
  BY EventOutboxAssumption, FS_EmptySet
<1>1. Init => BatchesFit
  BY <1>0 DEF Init, BatchesFit
<1>2. ASSUME IInv, BatchesFit, [Next]_vars PROVE BatchesFit'
  <2> SUFFICES ASSUME NEW c \in Drain PROVE Cardinality(locked'[c]) <= BatchSize
    BY DEF BatchesFit
  <2>1. CASE locked'[c] = locked[c]
    BY <1>2, <2>1 DEF BatchesFit
  <2>2. CASE locked'[c] = {}
    BY <1>0, <2>2
  <2>3. CASE locked'[c] = Oldest(Available(c))
    <3>1. Available(c) \in SUBSET Event
      BY DEF Available
    <3>2. IsFiniteSet(Available(c))
      BY <3>1, FS_Subset
    <3> QED
      BY <2>3, <3>1, <3>2, OldestFits
  <2>4. ASSUME NEW d \in Drain, Claim(d)
        PROVE  locked'[c] \in {locked[c], Oldest(Available(c))}
    BY <1>2, <2>4 DEF Claim, IInv, TypeOK
  <2>5. ASSUME NEW d \in Drain, Commit(d) \/ DbError(d) \/ Restart(d)
        PROVE  locked'[c] \in {locked[c], {}}
    BY <1>2, <2>5 DEF Commit, DbError, Restart, Release, IInv, TypeOK
  <2>6. ASSUME NEW d \in Drain,
               Publish(d) \/ PublishFails(d) \/ SkipPoison(d) \/ Wake(d)
        PROVE  locked' = locked
    BY <2>6 DEF Publish, PublishFails, SkipPoison, Wake
  <2>7. ASSUME NEW e \in Event, Insert(e) PROVE locked' = locked
    BY <2>7 DEF Insert
  <2>8. CASE UNCHANGED vars
    BY <2>1, <2>8 DEF vars
  <2> QED
    BY <1>2, <2>1, <2>2, <2>3, <2>4, <2>5, <2>6, <2>7, <2>8 DEF Next, Poll
<1> QED
  BY <1>1, <1>2, Inductive, PTL DEF Spec

\* Rows of no use do not keep the others from being taken, however old they are
\* and whatever the other replicas hold, while they are fewer than a batch: only
\* they can be ahead of the oldest useful row.
THEOREM PoisonStarvesNobody ==
    ASSUME IsFiniteSet(Poison), Cardinality(Poison) < BatchSize
    PROVE  Spec => OldestServed
<1>1. ASSUME IInv, NEW d \in Drain PROVE ServesOldest(d)
  <2> SUFFICES ASSUME Claim(d), NEW e \in Useful(d), \A f \in Useful(d) : e <= f
               PROVE  e \in todo'[d]
    BY DEF ServesOldest
  <2>1. todo'[d] = Oldest(Available(d))
    BY <1>1 DEF Claim, IInv, TypeOK
  <2> DEFINE older == {f \in Available(d) : f < e}
  <2>2. older \in SUBSET Poison
    <3> SUFFICES ASSUME NEW f \in Available(d), f < e, f \notin Poison PROVE FALSE
      OBVIOUS
    <3>1. f \in Nat /\ e \in Nat
      BY EventOutboxAssumption DEF Available, Useful
    <3>2. e <= f
      BY DEF Useful
    <3> QED
      BY <3>1, <3>2
  <2> HIDE DEF older
  <2>3. Cardinality(older) <= Cardinality(Poison) /\ IsFiniteSet(older)
    BY <2>2, FS_Subset
  <2>4. Cardinality(older) \in Nat /\ Cardinality(Poison) \in Nat /\ BatchSize \in Nat
    BY <2>3, FS_CardinalityType, EventOutboxAssumption
  <2>5. Cardinality(older) < BatchSize
    BY <2>3, <2>4
  <2> QED
    BY <2>1, <2>5 DEF Oldest, Useful, older
<1>2. IInv => \A d \in Drain : ServesOldest(d)
  BY <1>1
<1>3. IInv /\ [Next]_vars => [\A d \in Drain : ServesOldest(d)]_vars
  BY <1>2
<1> QED
  BY <1>3, Inductive, PTL DEF Spec, OldestServed

-----------------------------------------------------------------------------
(* Batches without failures. *)

\* While nothing has failed, the useful rows of a poll are to be published or
\* have been.
NonePassedOver ==
    faults = 0 => \A d \in Drain : locked[d] \ Poison \subseteq todo[d] \cup sent[d]

\* A step may only take rows from todo that it sends, or that are of no use.
LEMMA PassedOverStep ==
    ASSUME IInv, NonePassedOver, [Next]_vars
    PROVE  NonePassedOver'
<1> SUFFICES ASSUME faults' = 0, NEW c \in Drain
             PROVE  locked'[c] \ Poison \subseteq todo'[c] \cup sent'[c]
  BY DEF NonePassedOver
<1> USE DEF IInv, TypeOK
<1>1. ASSUME faults = 0, UNCHANGED <<locked, todo, sent>>
      PROVE  locked'[c] \ Poison \subseteq todo'[c] \cup sent'[c]
  BY <1>1 DEF NonePassedOver
<1>2. faults' # faults + 1
  OBVIOUS
<1>3. ASSUME NEW d \in Drain, Claim(d) PROVE locked'[c] \ Poison \subseteq todo'[c] \cup sent'[c]
  <2>1. /\ locked' = [locked EXCEPT ![d] = Oldest(Available(d))]
        /\ todo' = [todo EXCEPT ![d] = Oldest(Available(d))]
        /\ sent' = sent /\ faults' = faults
    BY <1>3 DEF Claim
  <2>2. CASE c = d
    BY <2>1, <2>2
  <2>3. CASE c # d
    BY <2>1, <2>3 DEF NonePassedOver
  <2> QED
    BY <2>2, <2>3
<1>4. ASSUME NEW d \in Drain, Publish(d) PROVE locked'[c] \ Poison \subseteq todo'[c] \cup sent'[c]
  <2>1. /\ sent' = [sent EXCEPT ![d] = sent[d] \cup {Head(d)}]
        /\ todo' = [todo EXCEPT ![d] = todo[d] \ {Head(d)}]
        /\ locked' = locked /\ faults' = faults
    BY <1>4 DEF Publish
  <2>2. todo'[c] \cup sent'[c] = todo[c] \cup sent[c] \/ c = d
    BY <2>1
  <2>3. c = d => todo[c] \cup sent[c] \subseteq todo'[c] \cup sent'[c]
    BY <2>1
  <2> QED
    BY <2>1, <2>2, <2>3 DEF NonePassedOver
<1>5. ASSUME NEW d \in Drain, SkipPoison(d)
      PROVE  locked'[c] \ Poison \subseteq todo'[c] \cup sent'[c]
  <2>1. /\ todo' = [todo EXCEPT ![d] = todo[d] \ {Head(d)}]
        /\ Head(d) \in Poison
        /\ locked' = locked /\ sent' = sent /\ faults' = faults
    BY <1>5 DEF SkipPoison
  <2>2. todo[c] \ Poison \subseteq todo'[c]
    BY <2>1
  <2> QED
    BY <2>1, <2>2 DEF NonePassedOver
<1>6. ASSUME NEW d \in Drain, Commit(d) PROVE locked'[c] \ Poison \subseteq todo'[c] \cup sent'[c]
  <2>1. /\ locked' = [locked EXCEPT ![d] = {}]
        /\ todo' = [todo EXCEPT ![d] = {}]
        /\ sent' = [sent EXCEPT ![d] = {}]
        /\ faults' = faults
    BY <1>6 DEF Commit, Release
  <2> QED
    BY <2>1 DEF NonePassedOver
<1>7. ASSUME NEW d \in Drain, PublishFails(d) \/ DbError(d) \/ Restart(d) PROVE FALSE
  BY <1>2, <1>7 DEF PublishFails, DbError, Restart
<1>8. ASSUME NEW d \in Drain, Wake(d) PROVE faults = 0 /\ UNCHANGED <<locked, todo, sent>>
  BY <1>8 DEF Wake
<1>9. ASSUME NEW e \in Event, Insert(e) PROVE faults = 0 /\ UNCHANGED <<locked, todo, sent>>
  BY <1>9 DEF Insert
<1>10. CASE UNCHANGED vars
  BY <1>1, <1>10 DEF vars
<1> QED
  BY <1>1, <1>3, <1>4, <1>5, <1>6, <1>7, <1>8, <1>9, <1>10 DEF Next, Poll

\* A row that is let go of by a step that is no failure was sent, and is DONE.
LEMMA LetGoStep ==
    ASSUME IInv, NonePassedOver, [Next]_vars, NEW c \in Drain
    PROVE  PutsNothingBack(c)
<1> SUFFICES ASSUME faults' = 0, NEW e \in locked[c], e \notin Poison, e \notin locked'[c]
             PROVE  state'[e] = "done"
  BY DEF PutsNothingBack
<1> USE DEF IInv, TypeOK
<1>1. faults' # faults + 1
  OBVIOUS
<1>2. locked'[c] # locked[c]
  OBVIOUS
<1>3. ASSUME NEW d \in Drain,
             Publish(d) \/ SkipPoison(d) \/ Wake(d)
      PROVE  FALSE
  BY <1>2, <1>3 DEF Publish, SkipPoison, Wake
<1>4. ASSUME NEW d \in Drain, Claim(d) PROVE FALSE
  <2>1. pc[d] = "polling" /\ locked' = [locked EXCEPT ![d] = Oldest(Available(d))]
    BY <1>4 DEF Claim
  <2>2. locked[d] = {}
    BY <2>1 DEF Held
  <2> QED
    BY <1>2, <2>1, <2>2
<1>5. ASSUME NEW d \in Drain, PublishFails(d) \/ DbError(d) \/ Restart(d) PROVE FALSE
  BY <1>1, <1>5 DEF PublishFails, DbError, Restart
<1>6. ASSUME NEW f \in Event, Insert(f) PROVE FALSE
  BY <1>2, <1>6 DEF Insert
<1>7. ASSUME NEW d \in Drain, Commit(d) PROVE state'[e] = "done"
  <2>1. /\ todo[d] = {}
        /\ state' = [f \in Event |-> IF f \in sent[d] THEN "done" ELSE state[f]]
        /\ locked' = [locked EXCEPT ![d] = {}]
        /\ faults = 0
    BY <1>7 DEF Commit, Settled, Release
  <2>2. c = d
    BY <1>2, <2>1
  <2>3. e \in sent[d] /\ e \in Event
    BY <2>1, <2>2 DEF NonePassedOver
  <2> QED
    BY <2>1, <2>3
<1>8. CASE UNCHANGED vars
  BY <1>2, <1>8 DEF vars
<1> QED
  BY <1>3, <1>4, <1>5, <1>6, <1>7, <1>8 DEF Next, Poll

\* Without failures a poll ends with every useful row of its batch DONE, whatever
\* the other replicas do and whichever rows of the batch raise.
THEOREM EveryBatchIsDone == Spec => BatchesDone
<1>1. Init => NonePassedOver
  BY DEF Init, NonePassedOver
<1>2. IInv /\ NonePassedOver /\ [Next]_vars => NonePassedOver'
  BY PassedOverStep
<1>3. IInv /\ NonePassedOver /\ [Next]_vars => [\A d \in Drain : PutsNothingBack(d)]_vars
  BY LetGoStep
<1> QED
  BY <1>1, <1>2, <1>3, Inductive, PTL DEF Spec, BatchesDone
=============================================================================
