--------------------------- MODULE InboundProofs ---------------------------
(***************************************************************************)
(* Proofs about Inbound, for any deliveries, messages and batches.         *)
(* IInv is the inductive invariant.                                        *)
(***************************************************************************)
EXTENDS Inbound, TLAPS, FiniteSetTheorems, WellFoundedInduction

Live == Working \cup {"responded"}

\* What is held and what was said, by the place of the coroutine.
Shape ==
    \A d \in Delivery :
        /\ pc[d] \notin Live => tx[d] = {}
        /\ pc[d] \in Live => d \notin Forged
        /\ pc[d] \in Working => item[d] \in 1 .. Len(Batch[d])
        /\ pc[d] \in Working \cup {"new"} => answer[d] = "none"
        /\ pc[d] = "responded" => answer[d] \in Success

\* The batch up to the current message is stored or held.
Progress ==
    \A d \in Delivery :
        /\ tx[d] \subseteq Ids(d)
        /\ pc[d] \in Working =>
             \A j \in 1 .. Len(Batch[d]) : j < item[d] => Batch[d][j] \in Committed \cup tx[d]
        /\ pc[d] = "audit" => Now(d) \in tx[d]
        /\ pc[d] = "responded" => Ids(d) \subseteq Committed \cup tx[d]
        /\ pc[d] = "responded" /\ answer[d] = "duplicate" => tx[d] = {}

\* A message is held by one transaction, and only while it is not stored.
Exclusive ==
    /\ \A c, d \in Delivery : c # d => tx[c] \cap tx[d] = {}
    /\ \A d \in Delivery : tx[d] \cap Committed = {}

\* What a transaction holds is audited, but for the message it is at.
Audited ==
    \A d \in Delivery : \A i \in tx[d] :
        <<i, d>> \in audit \/ (pc[d] = "audit" /\ i = Now(d))

IInv ==
    /\ TypeOK /\ Shape /\ Progress /\ Exclusive /\ Audited
    /\ StoredOnce /\ AuditedBeforeCommit /\ BatchIsWhole
    /\ DuplicateMeansStored /\ OnlyCommitsLose

-----------------------------------------------------------------------------
\* The positions of a batch are numbers and hold ids.
LEMMA BatchType ==
    ASSUME NEW d \in Delivery
    PROVE  /\ Len(Batch[d]) \in Nat
           /\ DOMAIN Batch[d] = 1 .. Len(Batch[d])
           /\ \A i \in 1 .. Len(Batch[d]) : Batch[d][i] \in Id
           /\ Batch[d] = <<>> <=> Len(Batch[d]) = 0
<1>1. Batch[d] \in Seq(Id)
  BY InboundAssumption
<1> QED
  BY <1>1

\* The ids of a batch are those at its positions.
LEMMA IdsOfBatch ==
    ASSUME NEW d \in Delivery
    PROVE  /\ Ids(d) \subseteq Id
           /\ \A i \in 1 .. Len(Batch[d]) : Batch[d][i] \in Ids(d)
           /\ \A m \in Ids(d) : \E i \in 1 .. Len(Batch[d]) : m = Batch[d][i]
BY BatchType DEF Ids

\* The initial state satisfies the invariant.
LEMMA InitIInv == Init => IInv
<1> SUFFICES ASSUME Init PROVE IInv
  OBVIOUS
<1>1. TypeOK
  BY DEF Init, TypeOK, Success, Working, Failure
<1>2. Committed = {}
  BY DEF Init, Committed
<1> QED
  BY <1>1, <1>2 DEF Init, IInv, Shape, Progress, Exclusive, Audited, Live, Working, Success,
     StoredOnce, AuditedBeforeCommit, BatchIsWhole, DuplicateMeansStored, OnlyCommitsLose

-----------------------------------------------------------------------------
\* What holds of d after Proceed(d, i, fresh), when it was right so far.
LEMMA ProceedKeeps ==
    ASSUME NEW d \in Delivery, NEW i \in Nat, NEW fresh, TypeOK, i \in 1 .. Len(Batch[d]) + 1,
           Proceed(d, i, fresh)
    PROVE  /\ pc' \in [Delivery -> Working \cup {"new", "responded", "done"}]
           /\ item' \in [Delivery -> Nat]
           /\ answer' \in [Delivery -> Success \cup Failure \cup {"none", "401"}]
           /\ \A c \in Delivery : c # d => /\ pc'[c] = pc[c]
                                            /\ item'[c] = item[c]
                                            /\ answer'[c] = answer[c]
           /\ \/ /\ pc'[d] = "check"
                 /\ item'[d] = i
                 /\ i \in 1 .. Len(Batch[d])
                 /\ answer'[d] = answer[d]
              \/ /\ pc'[d] = "responded"
                 /\ i = Len(Batch[d]) + 1
                 /\ item' = item
                 /\ \/ answer'[d] = "duplicate" /\ fresh = {}
                    \/ answer'[d] = "received"
<1>1. Len(Batch[d]) \in Nat
  BY BatchType
<1>2. CASE i > Len(Batch[d])
  <2>1. i = Len(Batch[d]) + 1
    BY <1>1, <1>2
  <2>2. /\ pc' = [pc EXCEPT ![d] = "responded"]
        /\ answer' = [answer EXCEPT ![d] = IF fresh = {} /\ Batch[d] # <<>>
                                             THEN "duplicate" ELSE "received"]
        /\ item' = item
    BY <1>2 DEF Proceed, Goto, Respond
  <2>3. CASE fresh = {} /\ Batch[d] # <<>>
    BY <2>1, <2>2, <2>3 DEF TypeOK, Working, Success
  <2>4. CASE ~(fresh = {} /\ Batch[d] # <<>>)
    <3>1. answer' = [answer EXCEPT ![d] = "received"]
      BY <2>2, <2>4
    <3> QED
      BY <2>1, <2>2, <3>1 DEF TypeOK, Working, Success
  <2> QED
    BY <2>3, <2>4
<1>3. CASE ~(i > Len(Batch[d]))
  BY <1>1, <1>3 DEF Proceed, Goto, TypeOK, Working
<1> QED
  BY <1>2, <1>3

-----------------------------------------------------------------------------
(* Two kinds of steps that several actions share. *)

\* Going on along the batch keeps the invariant, if what lies behind is stored
\* or held, and audited.
LEMMA AdvanceKeeps ==
    ASSUME IInv, NEW d \in Delivery, NEW i \in 1 .. Len(Batch[d]) + 1,
           Proceed(d, i, tx[d]),
           UNCHANGED <<tx, stored, lost, faults>>,
           audit \subseteq audit', audit' \subseteq Id \X Delivery,
           answer[d] = "none", d \notin Forged,
           \A j \in 1 .. Len(Batch[d]) : j < i => Batch[d][j] \in Committed \cup tx[d],
           \A m \in tx[d] : <<m, d>> \in audit'
    PROVE  IInv'
<1> USE DEF IInv
<1>1. Len(Batch[d]) \in Nat
  BY BatchType
<1>2. Committed' = Committed
  BY DEF Committed
<1>3. /\ pc' \in [Delivery -> Working \cup {"new", "responded", "done"}]
      /\ item' \in [Delivery -> Nat]
      /\ answer' \in [Delivery -> Success \cup Failure \cup {"none", "401"}]
      /\ \A c \in Delivery : c # d => /\ pc'[c] = pc[c]
                                       /\ item'[c] = item[c]
                                       /\ answer'[c] = answer[c]
  BY <1>1, ProceedKeeps
<1>4. \/ /\ pc'[d] = "check"
         /\ item'[d] = i
         /\ i \in 1 .. Len(Batch[d])
         /\ answer'[d] = answer[d]
      \/ /\ pc'[d] = "responded"
         /\ i = Len(Batch[d]) + 1
         /\ item' = item
         /\ \/ answer'[d] = "duplicate" /\ tx[d] = {}
            \/ answer'[d] = "received"
  BY <1>1, ProceedKeeps
<1>5. pc'[d] = "responded" => Ids(d) \subseteq Committed \cup tx[d]
  BY <1>1, <1>4, IdsOfBatch
<1>6. TypeOK'
  BY <1>3 DEF TypeOK
<1>7. Shape'
  BY <1>1, <1>3, <1>4 DEF Shape, Live, Working, Success
<1>8. Progress'
  <2>1. ASSUME NEW c \in Delivery, c # d
        PROVE  /\ tx'[c] \subseteq Ids(c)
               /\ pc'[c] \in Working =>
                    \A j \in 1 .. Len(Batch[c]) :
                       j < item'[c] => Batch[c][j] \in Committed' \cup tx'[c]
               /\ pc'[c] = "audit" => Now(c)' \in tx'[c]
               /\ pc'[c] = "responded" => Ids(c) \subseteq Committed' \cup tx'[c]
               /\ pc'[c] = "responded" /\ answer'[c] = "duplicate" => tx'[c] = {}
    BY <1>2, <1>3, <2>1 DEF Progress, Now
  <2>2. /\ tx'[d] \subseteq Ids(d)
        /\ pc'[d] \in Working =>
             \A j \in 1 .. Len(Batch[d]) :
                j < item'[d] => Batch[d][j] \in Committed' \cup tx'[d]
        /\ pc'[d] # "audit"
        /\ pc'[d] = "responded" => Ids(d) \subseteq Committed' \cup tx'[d]
        /\ pc'[d] = "responded" /\ answer'[d] = "duplicate" => tx'[d] = {}
    BY <1>2, <1>4, <1>5 DEF Progress, Working
  <2> QED
    BY <2>1, <2>2 DEF Progress, Ids
<1>9. Exclusive'
  BY <1>2 DEF Exclusive
<1>10. Audited'
  <2>1. ASSUME NEW c \in Delivery, NEW m \in tx'[c]
        PROVE  <<m, c>> \in audit' \/ (pc'[c] = "audit" /\ m = Batch[c][item'[c]])
    <3>1. CASE c = d
      BY <3>1
    <3>2. CASE c # d
      BY <1>3, <3>2 DEF Audited, Now
    <3> QED
      BY <3>1, <3>2
  <2> QED
    BY <2>1 DEF Audited, Now
<1>11. StoredOnce' /\ AuditedBeforeCommit' /\ BatchIsWhole'
  BY <1>2 DEF StoredOnce, AuditedBeforeCommit, BatchIsWhole, Ids
<1>12. DuplicateMeansStored'
  BY <1>2, <1>3, <1>4, <1>5 DEF DuplicateMeansStored, Ids
<1>13. OnlyCommitsLose'
  BY <1>2, <1>3, <1>4 DEF OnlyCommitsLose, Ids
<1> QED
  BY <1>6, <1>7, <1>8, <1>9, <1>10, <1>11, <1>12, <1>13

\* A handler that raises keeps the invariant, whatever it had done.
LEMMA RaiseKeepsInvariant ==
    ASSUME IInv, NEW d \in Delivery, pc[d] \in Working, Raise(d),
           UNCHANGED <<item, lost>>, faults' \in Nat,
           audit \subseteq audit', audit' \subseteq Id \X Delivery
    PROVE  IInv'
<1> USE DEF IInv
<1>1. /\ pc' = [pc EXCEPT ![d] = "done"]
      /\ tx' = [tx EXCEPT ![d] = {}]
      /\ answer' = [answer EXCEPT ![d] = "500"]
      /\ stored' = stored
  BY DEF Raise, Goto
<1>2. Committed' = Committed
  BY <1>1 DEF Committed
<1>3. TypeOK'
  BY <1>1 DEF TypeOK, Failure
<1>4. Shape'
  BY <1>1 DEF Shape, Live, Working, TypeOK
<1>5. Progress'
  BY <1>1, <1>2 DEF Progress, Working, TypeOK, Now, Ids
<1>6. Exclusive'
  BY <1>1, <1>2 DEF Exclusive, TypeOK
<1>7. Audited'
  BY <1>1 DEF Audited, TypeOK, Now
<1>8. StoredOnce' /\ AuditedBeforeCommit' /\ BatchIsWhole'
  BY <1>1, <1>2 DEF StoredOnce, AuditedBeforeCommit, BatchIsWhole, Ids
<1>9. DuplicateMeansStored' /\ OnlyCommitsLose'
  BY <1>1, <1>2 DEF DuplicateMeansStored, OnlyCommitsLose, TypeOK, Success, Ids
<1> QED
  BY <1>3, <1>4, <1>5, <1>6, <1>7, <1>8, <1>9

-----------------------------------------------------------------------------
(* The actions. *)

\* A delivery that comes in keeps the invariant.
LEMMA DeliverStep ==
    ASSUME IInv, NEW d \in Delivery, Deliver(d)
    PROVE  IInv'
<1> USE DEF IInv
<1>1. UNCHANGED <<tx, stored, audit, lost, faults>> /\ pc[d] = "new"
  BY DEF Deliver
<1>2. CASE d \in Forged
  <2>1. /\ pc' = [pc EXCEPT ![d] = "done"]
        /\ answer' = [answer EXCEPT ![d] = "401"]
        /\ item' = item
        /\ Committed' = Committed
    BY <1>1, <1>2 DEF Deliver, Goto, Committed
  <2>2. TypeOK' /\ Shape'
    BY <1>1, <2>1 DEF TypeOK, Shape, Live, Working, Success
  <2>3. Progress' /\ Exclusive' /\ Audited'
    BY <1>1, <2>1 DEF Progress, Exclusive, Audited, Working, Now, Ids, TypeOK
  <2>4. /\ StoredOnce' /\ AuditedBeforeCommit' /\ BatchIsWhole'
        /\ DuplicateMeansStored' /\ OnlyCommitsLose'
    BY <1>1, <2>1 DEF StoredOnce, AuditedBeforeCommit, BatchIsWhole, DuplicateMeansStored,
       OnlyCommitsLose, Ids, TypeOK, Success
  <2> QED
    BY <2>2, <2>3, <2>4
<1>3. CASE d \notin Forged
  <2>1. tx[d] = {} /\ answer[d] = "none"
    BY <1>1 DEF Shape, Live, Working
  <2>2. Proceed(d, 1, tx[d])
    BY <1>3, <2>1 DEF Deliver
  <2>3. Len(Batch[d]) \in Nat /\ 1 \in 1 .. Len(Batch[d]) + 1
    BY BatchType
  <2>4. \A j \in 1 .. Len(Batch[d]) : j < 1 => Batch[d][j] \in Committed \cup tx[d]
    BY <2>3
  <2>5. \A m \in tx[d] : <<m, d>> \in audit'
    BY <2>1
  <2>6. audit \subseteq audit' /\ audit' \subseteq Id \X Delivery
    BY <1>1 DEF TypeOK
  <2>7. UNCHANGED <<tx, stored, lost, faults>>
    BY <1>1
  <2> HIDE DEF IInv
  <2> QED
    BY <1>3, <2>1, <2>2, <2>3, <2>4, <2>5, <2>6, <2>7, AdvanceKeeps
<1> QED
  BY <1>2, <1>3

\* The duplicate check keeps the invariant.
LEMMA CheckStep ==
    ASSUME IInv, NEW d \in Delivery, Check(d)
    PROVE  IInv'
<1> USE DEF IInv
<1>1. /\ UNCHANGED <<tx, stored, audit, lost, faults>>
      /\ pc[d] = "check"
      /\ Len(Batch[d]) \in Nat
      /\ item[d] \in 1 .. Len(Batch[d])
  BY BatchType DEF Check, Shape, Working
<1>2. CASE Now(d) \in Committed \cup tx[d]
  <2>1. Proceed(d, item[d] + 1, tx[d])
    BY <1>2 DEF Check
  <2>2. answer[d] = "none" /\ d \notin Forged
    BY <1>1 DEF Shape, Live, Working
  <2>3. \A j \in 1 .. Len(Batch[d]) : j < item[d] + 1 => Batch[d][j] \in Committed \cup tx[d]
    BY <1>1, <1>2 DEF Progress, Working, Now
  <2>4. \A m \in tx[d] : <<m, d>> \in audit'
    BY <1>1 DEF Audited
  <2>5. item[d] + 1 \in 1 .. Len(Batch[d]) + 1
    BY <1>1
  <2> QED
    BY <1>1, <2>1, <2>2, <2>3, <2>4, <2>5, AdvanceKeeps DEF TypeOK
<1>3. CASE Now(d) \notin Committed \cup tx[d]
  <2>1. /\ pc' = [pc EXCEPT ![d] = "insert"]
        /\ UNCHANGED <<item, answer>>
        /\ Committed' = Committed
    BY <1>1, <1>3 DEF Check, Goto, Committed
  <2>2. TypeOK' /\ Shape' /\ Progress' /\ Exclusive'
    BY <1>1, <2>1 DEF TypeOK, Shape, Progress, Exclusive, Live, Working, Now, Ids
  <2>3. Audited'
    BY <1>1, <2>1 DEF Audited, Now, TypeOK
  <2> QED
    BY <1>1, <2>1, <2>2, <2>3 DEF StoredOnce, AuditedBeforeCommit, BatchIsWhole,
       DuplicateMeansStored, OnlyCommitsLose, Ids, TypeOK
<1> QED
  BY <1>2, <1>3

\* The flush keeps the invariant: nobody else holds or has stored the message.
LEMMA InsertStep ==
    ASSUME IInv, NEW d \in Delivery, Insert(d)
    PROVE  IInv'
<1> USE DEF IInv
<1>1. /\ pc[d] = "insert"
      /\ \A c \in Delivery : c # d => Now(d) \notin tx[c]
      /\ UNCHANGED <<item, audit, lost, faults>>
  BY DEF Insert, WaitsFor
<1>2. CASE Now(d) \in Committed \/ d \in Unfit
  BY <1>1, <1>2, RaiseKeepsInvariant DEF Insert, Working, TypeOK
<1>3. CASE ~(Now(d) \in Committed \/ d \in Unfit)
  <2>1. /\ pc' = [pc EXCEPT ![d] = "audit"]
        /\ tx' = [tx EXCEPT ![d] = @ \cup {Now(d)}]
        /\ UNCHANGED <<stored, answer>>
        /\ Committed' = Committed
    BY <1>3 DEF Insert, Goto, Committed
  <2>2. Now(d) \in Id /\ Now(d) \in Ids(d)
    BY <1>1, BatchType, IdsOfBatch DEF Shape, Working, Now
  <2>3. TypeOK'
    BY <1>1, <2>1, <2>2 DEF TypeOK, Working
  <2>4. Shape' /\ Progress'
    <3>1. /\ pc'[d] = "audit"
          /\ tx'[d] = tx[d] \cup {Now(d)}
          /\ Now(d)' = Now(d)
      BY <1>1, <2>1 DEF TypeOK, Now
    <3>2. \A c \in Delivery : c # d => pc'[c] = pc[c] /\ tx'[c] = tx[c] /\ Now(c)' = Now(c)
      BY <1>1, <2>1 DEF TypeOK, Now
    <3>3. Shape'
      BY <1>1, <2>1, <3>1, <3>2 DEF Shape, Live, Working
    <3>4. \A c \in Delivery : Ids(c)' = Ids(c)
      BY DEF Ids
    <3>5. Progress'
      <4>1. ASSUME NEW c \in Delivery, c # d
            PROVE  /\ tx'[c] \subseteq Ids(c)
                   /\ pc'[c] \in Working =>
                        \A j \in 1 .. Len(Batch[c]) :
                           j < item'[c] => Batch[c][j] \in Committed' \cup tx'[c]
                   /\ pc'[c] = "audit" => Now(c)' \in tx'[c]
                   /\ pc'[c] = "responded" => Ids(c) \subseteq Committed' \cup tx'[c]
                   /\ pc'[c] = "responded" /\ answer'[c] = "duplicate" => tx'[c] = {}
        BY <1>1, <2>1, <3>2, <4>1 DEF Progress
      <4>2. /\ tx'[d] \subseteq Ids(d)
            /\ \A j \in 1 .. Len(Batch[d]) :
                  j < item'[d] => Batch[d][j] \in Committed' \cup tx'[d]
            /\ Now(d)' \in tx'[d]
        BY <1>1, <2>1, <2>2, <3>1 DEF Progress, Working
      <4> QED
        BY <3>1, <3>4, <4>1, <4>2 DEF Progress
    <3> QED
      BY <3>3, <3>5
  <2>5. Exclusive'
    BY <1>1, <1>3, <2>1 DEF Exclusive, TypeOK
  <2>6. Audited'
    BY <1>1, <2>1 DEF Audited, Now, TypeOK
  <2> QED
    BY <1>1, <2>1, <2>3, <2>4, <2>5, <2>6 DEF StoredOnce, AuditedBeforeCommit, BatchIsWhole,
       DuplicateMeansStored, OnlyCommitsLose, Ids, TypeOK
<1> QED
  BY <1>2, <1>3

\* The audit record keeps the invariant.
LEMMA AuditStep ==
    ASSUME IInv, NEW d \in Delivery, Audit(d)
    PROVE  IInv'
<1> USE DEF IInv
<1>1. /\ UNCHANGED <<tx, stored, lost, faults>>
      /\ pc[d] = "audit"
      /\ audit' = audit \cup {<<Now(d), d>>}
      /\ Proceed(d, item[d] + 1, tx[d])
      /\ Len(Batch[d]) \in Nat
      /\ item[d] \in 1 .. Len(Batch[d])
  BY BatchType DEF Audit, Shape, Working
<1>2. answer[d] = "none" /\ d \notin Forged
  BY <1>1 DEF Shape, Live, Working
<1>3. \A j \in 1 .. Len(Batch[d]) : j < item[d] + 1 => Batch[d][j] \in Committed \cup tx[d]
  BY <1>1 DEF Progress, Working, Now
<1>4. \A m \in tx[d] : <<m, d>> \in audit'
  BY <1>1 DEF Audited
<1>5. audit' \subseteq Id \X Delivery
  BY <1>1, BatchType DEF TypeOK, Now
<1>6. item[d] + 1 \in 1 .. Len(Batch[d]) + 1
  BY <1>1
<1> QED
  BY <1>1, <1>2, <1>3, <1>4, <1>5, <1>6, AdvanceKeeps

\* The commit keeps the invariant.
LEMMA CommitStep ==
    ASSUME IInv, NEW d \in Delivery, Commit(d)
    PROVE  IInv'
<1> USE DEF IInv
<1>1. /\ pc[d] = "responded"
      /\ stored' = stored \cup {<<i, d>> : i \in tx[d]}
      /\ tx' = [tx EXCEPT ![d] = {}]
      /\ pc' = [pc EXCEPT ![d] = "done"]
      /\ UNCHANGED <<item, answer, audit, lost, faults>>
  BY DEF Commit, Goto
<1>2. Committed' = Committed \cup tx[d]
  <2>1. Committed' \subseteq Committed \cup tx[d]
    BY <1>1 DEF Committed
  <2>2. ASSUME NEW m \in tx[d] PROVE m \in Committed'
    <3>1. <<m, d>> \in stored' /\ <<m, d>>[1] = m
      BY <1>1
    <3> QED
      BY <3>1 DEF Committed
  <2>3. Committed \subseteq Committed'
    BY <1>1 DEF Committed
  <2> QED
    BY <2>1, <2>2, <2>3
<1>3. TypeOK'
  BY <1>1 DEF TypeOK
<1>4. Shape'
  BY <1>1 DEF Shape, Live, Working, TypeOK
<1>5. Progress'
  BY <1>1, <1>2 DEF Progress, Working, Now, Ids, TypeOK
<1>6. Exclusive'
  BY <1>1, <1>2 DEF Exclusive, TypeOK
<1>7. Audited'
  BY <1>1 DEF Audited, Now, TypeOK
<1>8. StoredOnce'
  <2>1. \A v \in stored : v[1] \in Committed
    BY DEF Committed
  <2> QED
    BY <1>1, <2>1 DEF StoredOnce, Exclusive
<1>9. AuditedBeforeCommit'
  BY <1>1 DEF AuditedBeforeCommit, Audited, Shape, Live
<1>10. BatchIsWhole'
  BY <1>1, <1>2 DEF BatchIsWhole, Progress, Ids
<1>11. DuplicateMeansStored' /\ OnlyCommitsLose'
  BY <1>1, <1>2 DEF DuplicateMeansStored, OnlyCommitsLose, Progress, Ids, TypeOK
<1> QED
  BY <1>3, <1>4, <1>5, <1>6, <1>7, <1>8, <1>9, <1>10, <1>11

\* An exception in the handler keeps the invariant.
LEMMA FailStep ==
    ASSUME IInv, NEW d \in Delivery, Fail(d)
    PROVE  IInv'
<1> USE DEF IInv
<1>1. /\ pc[d] \in Working
      /\ Raise(d)
      /\ UNCHANGED <<item, lost>>
      /\ faults' \in Nat
      /\ audit' = audit \/ (audit' = audit \cup {<<Now(d), d>>})
  BY InboundAssumption DEF Fail, Fault, TypeOK
<1>2. Now(d) \in Id
  BY <1>1, BatchType DEF Shape, Now
<1>3. audit \subseteq audit' /\ audit' \subseteq Id \X Delivery
  BY <1>1, <1>2 DEF TypeOK
<1> QED
  BY <1>1, <1>3, RaiseKeepsInvariant

\* A lost commit keeps the invariant: it is what lost is for.
LEMMA CommitFailsStep ==
    ASSUME IInv, NEW d \in Delivery, CommitFails(d)
    PROVE  IInv'
<1> USE DEF IInv
<1>1. /\ pc[d] = "responded"
      /\ tx' = [tx EXCEPT ![d] = {}]
      /\ tx[d] # {}
      /\ lost' = lost \cup {d}
      /\ pc' = [pc EXCEPT ![d] = "done"]
      /\ faults' \in Nat
      /\ UNCHANGED <<item, stored, answer, audit>>
      /\ Committed' = Committed
  BY DEF CommitFails, Goto, Fault, TypeOK, Committed
<1>2. TypeOK' /\ Shape'
  BY <1>1 DEF TypeOK, Shape, Live, Working
<1>3. Progress' /\ Exclusive' /\ Audited'
  BY <1>1 DEF Progress, Exclusive, Audited, Working, Now, Ids, TypeOK
<1>4. StoredOnce' /\ AuditedBeforeCommit' /\ BatchIsWhole'
  BY <1>1 DEF StoredOnce, AuditedBeforeCommit, BatchIsWhole, Ids
<1>5. DuplicateMeansStored' /\ OnlyCommitsLose'
  BY <1>1 DEF DuplicateMeansStored, OnlyCommitsLose, Ids, TypeOK
<1> QED
  BY <1>2, <1>3, <1>4, <1>5

\* A crash keeps the invariant: what was answered and not committed is lost.
LEMMA CrashStep ==
    ASSUME IInv, Crash
    PROVE  IInv'
<1> USE DEF IInv
<1>1. /\ pc' = [d \in Delivery |-> IF pc[d] = "new" THEN "new" ELSE "done"]
      /\ tx' = [d \in Delivery |-> {}]
      /\ lost' = lost \cup {d \in Delivery : pc[d] = "responded" /\ tx[d] # {}}
      /\ answer' = [d \in Delivery |-> IF pc[d] \in Working THEN "cut" ELSE answer[d]]
      /\ faults' \in Nat
      /\ UNCHANGED <<item, stored, audit>>
      /\ Committed' = Committed
  BY DEF Crash, Fault, TypeOK, Committed
<1>2. TypeOK'
  BY <1>1 DEF TypeOK, Failure
<1>3. Shape'
  BY <1>1 DEF Shape, Live, Working
<1>4. Progress' /\ Exclusive' /\ Audited'
  BY <1>1 DEF Progress, Exclusive, Audited, Working, Ids
<1>5. StoredOnce' /\ AuditedBeforeCommit' /\ BatchIsWhole'
  BY <1>1 DEF StoredOnce, AuditedBeforeCommit, BatchIsWhole, Ids
<1>6. DuplicateMeansStored'
  BY <1>1 DEF DuplicateMeansStored, Ids
<1>7. OnlyCommitsLose'
  <2> SUFFICES ASSUME NEW d \in Delivery, pc'[d] = "done", answer'[d] \in Success
               PROVE  Ids(d) \subseteq Committed \/ d \in lost'
    BY <1>1 DEF OnlyCommitsLose, Ids
  <2>1. pc[d] \in {"responded", "done"} /\ answer'[d] = answer[d]
    BY <1>1 DEF TypeOK, Success, Working
  <2>2. CASE pc[d] = "responded"
    BY <1>1, <2>2 DEF Progress
  <2>3. CASE pc[d] = "done"
    BY <1>1, <2>1, <2>3 DEF OnlyCommitsLose
  <2> QED
    BY <2>1, <2>2, <2>3
<1> QED
  BY <1>2, <1>3, <1>4, <1>5, <1>6, <1>7

\* A redelivery keeps the invariant.
LEMMA RedeliverStep ==
    ASSUME IInv, NEW d \in Delivery, Redeliver(d)
    PROVE  IInv'
<1> USE DEF IInv
<1>1. /\ pc[d] = "done"
      /\ pc' = [pc EXCEPT ![d] = "new"]
      /\ answer' = [answer EXCEPT ![d] = "none"]
      /\ faults' \in Nat
      /\ UNCHANGED <<item, tx, stored, audit, lost>>
      /\ Committed' = Committed
  BY DEF Redeliver, Goto, Fault, TypeOK, Committed
<1>2. TypeOK' /\ Shape'
  BY <1>1 DEF TypeOK, Shape, Live, Working
<1>3. Progress' /\ Exclusive' /\ Audited'
  BY <1>1 DEF Progress, Exclusive, Audited, Working, Now, Ids, TypeOK
<1>4. StoredOnce' /\ AuditedBeforeCommit' /\ BatchIsWhole'
  BY <1>1 DEF StoredOnce, AuditedBeforeCommit, BatchIsWhole, Ids
<1>5. DuplicateMeansStored' /\ OnlyCommitsLose'
  BY <1>1 DEF DuplicateMeansStored, OnlyCommitsLose, Ids, TypeOK
<1> QED
  BY <1>2, <1>3, <1>4, <1>5

\* Every step keeps the invariant.
LEMMA NextIInv == IInv /\ [Next]_vars => IInv'
<1> SUFFICES ASSUME IInv, [Next]_vars PROVE IInv'
  OBVIOUS
<1>1. CASE UNCHANGED vars
  BY <1>1 DEF vars, IInv, TypeOK, Shape, Progress, Exclusive, Audited, StoredOnce, Committed,
     AuditedBeforeCommit, BatchIsWhole, DuplicateMeansStored, OnlyCommitsLose, Now, Ids
<1>2. CASE Crash
  BY <1>2, CrashStep
<1>3. ASSUME NEW d \in Delivery, BreakDeadlock(d) PROVE IInv'
  <2>1. pc[d] \in Working /\ faults' \in Nat /\ audit' \subseteq Id \X Delivery
    BY <1>3 DEF BreakDeadlock, Working, IInv, TypeOK
  <2> QED
    BY <1>3, <2>1, RaiseKeepsInvariant DEF BreakDeadlock
<1> QED
  BY <1>1, <1>2, <1>3, DeliverStep, CheckStep, InsertStep, AuditStep, CommitStep, FailStep,
     CommitFailsStep, RedeliverStep DEF Next, Handle

\* The invariant holds of the specification.
LEMMA Invariance == Spec => []IInv
BY InitIInv, NextIInv, PTL DEF Spec

\* The variables of the webhooks keep their types.
THEOREM TypeCorrect == Spec => []TypeOK
BY Invariance, PTL DEF IInv

\* A message is stored once, however it is delivered.
THEOREM OneRow == Spec => []StoredOnce
BY Invariance, PTL DEF IInv

\* What is stored was audited, and came with a signature that verified.
THEOREM NothingUnaudited == Spec => []AuditedBeforeCommit
BY Invariance, PTL DEF IInv

\* A delivery is stored as a whole.
THEOREM WholeBatches == Spec => []BatchIsWhole
BY Invariance, PTL DEF IInv

\* "duplicate" is only answered for what is stored.
THEOREM DuplicateIsSafe == Spec => []DuplicateMeansStored
BY Invariance, PTL DEF IInv

\* What is answered with success is stored, but for a lost commit.
THEOREM AckedUnlessLost == Spec => []OnlyCommitsLose
BY Invariance, PTL DEF IInv

-----------------------------------------------------------------------------
(* The webhooks implement the abstract inbox. *)

\* Going on along the batch answers as the inbox does, or not yet.
LEMMA AnswerRefines ==
    ASSUME TypeOK, NEW d \in Delivery, NEW i \in 1 .. Len(Batch[d]) + 1, NEW fresh,
           Proceed(d, i, fresh), UNCHANGED stored,
           answer[d] = "none", d \notin Forged,
           i = Len(Batch[d]) + 1 /\ fresh = {} /\ Batch[d] # <<>> => Ids(d) \subseteq Committed
    PROVE  [Promise!Next]_(Promise!vars)
<1>1. Len(Batch[d]) \in Nat
  BY BatchType
<1>2. CASE i > Len(Batch[d])
  <2>1. answer' = [answer EXCEPT ![d] = IF fresh = {} /\ Batch[d] # <<>>
                                          THEN "duplicate" ELSE "received"]
    BY <1>2 DEF Proceed, Respond
  <2>2. i = Len(Batch[d]) + 1
    BY <1>1, <1>2
  <2>3. CASE fresh = {} /\ Batch[d] # <<>>
    <3>1. answer' = [answer EXCEPT ![d] = "duplicate"]
      BY <2>1, <2>3
    <3>2. Ids(d) \subseteq Committed
      BY <2>2, <2>3
    <3>3. Promise!Recognise(d)
      BY <3>1, <3>2 DEF Promise!Recognise, Promise!Answer, Promise!Known, Committed
    <3> QED
      BY <3>3 DEF Promise!Next
  <2>4. CASE ~(fresh = {} /\ Batch[d] # <<>>)
    <3>1. answer' = [answer EXCEPT ![d] = "received"]
      BY <2>1, <2>4
    <3>2. Promise!Receive(d)
      BY <3>1 DEF Promise!Receive, Promise!Answer
    <3> QED
      BY <3>2 DEF Promise!Next
  <2> QED
    BY <2>3, <2>4
<1>3. CASE ~(i > Len(Batch[d]))
  BY <1>3 DEF Proceed, Promise!vars
<1> QED
  BY <1>2, <1>3

\* A handler that raises fails one attempt.
LEMMA RaiseRefines ==
    ASSUME TypeOK, NEW d \in Delivery, Raise(d), answer[d] = "none"
    PROVE  Promise!Next
<1>1. answer' = [c \in Delivery |-> IF c \in {d} THEN "500" ELSE answer[c]]
  BY DEF Raise, TypeOK
<1>2. Promise!Fail({d})
  BY <1>1 DEF Promise!Fail, Raise
<1> QED
  BY <1>2 DEF Promise!Next

\* Every step is one of the inbox, or changes nothing there.
LEMMA NextRefines == IInv /\ [Next]_vars => [Promise!Next]_(Promise!vars)
<1> SUFFICES ASSUME IInv, [Next]_vars PROVE [Promise!Next]_(Promise!vars)
  OBVIOUS
<1>0. TypeOK
  BY DEF IInv
<1>1. CASE UNCHANGED vars
  BY <1>1 DEF vars, Promise!vars
<1>2. CASE Crash
  <2> DEFINE D == {d \in Delivery : pc[d] \in Working}
  <2>1. \A d \in D : answer[d] = "none"
    BY DEF IInv, Shape
  <2>2. answer' = [d \in Delivery |-> IF d \in D THEN "cut" ELSE answer[d]]
    BY <1>2 DEF Crash
  <2>3. UNCHANGED stored
    BY <1>2 DEF Crash
  <2>4. Promise!Fail(D)
    BY <2>1, <2>2, <2>3 DEF Promise!Fail
  <2>5. D \in SUBSET Delivery
    OBVIOUS
  <2> QED
    BY <2>4, <2>5 DEF Promise!Next
<1>3. ASSUME NEW d \in Delivery, Deliver(d) PROVE [Promise!Next]_(Promise!vars)
  <2>1. answer[d] = "none" /\ UNCHANGED stored
    BY <1>3 DEF Deliver, IInv, Shape
  <2>2. CASE d \in Forged
    <3>1. Promise!Refuse(d)
      BY <1>3, <2>1, <2>2 DEF Deliver, Promise!Refuse, Promise!Answer
    <3> QED
      BY <3>1 DEF Promise!Next
  <2>3. CASE d \notin Forged
    <3>1. Proceed(d, 1, {})
      BY <1>3, <2>3 DEF Deliver
    <3>2. 1 \in 1 .. Len(Batch[d]) + 1 /\ (1 = Len(Batch[d]) + 1 => Batch[d] = <<>>)
      BY BatchType
    <3> QED
      BY <1>0, <2>1, <2>3, <3>1, <3>2, AnswerRefines
  <2> QED
    BY <2>2, <2>3
<1>4. ASSUME NEW d \in Delivery, Check(d) \/ Audit(d) PROVE [Promise!Next]_(Promise!vars)
  <2>1. /\ answer[d] = "none"
        /\ d \notin Forged
        /\ UNCHANGED stored
        /\ item[d] \in 1 .. Len(Batch[d])
        /\ Len(Batch[d]) \in Nat
    BY <1>4, BatchType DEF Check, Audit, IInv, Shape, Live, Working
  <2>2. CASE UNCHANGED answer
    BY <2>1, <2>2 DEF Promise!vars
  <2>3. CASE ~UNCHANGED answer
    <3>1. Proceed(d, item[d] + 1, tx[d])
      BY <1>4, <2>3 DEF Check, Audit
    <3>2. \A j \in 1 .. Len(Batch[d]) : j < item[d] + 1 => Batch[d][j] \in Committed \cup tx[d]
      <4>1. Batch[d][item[d]] \in Committed \cup tx[d]
        BY <1>4, <2>3 DEF Check, Audit, IInv, Progress, Now
      <4>2. \A j \in 1 .. Len(Batch[d]) : j < item[d] => Batch[d][j] \in Committed \cup tx[d]
        BY <1>4 DEF Check, Audit, IInv, Progress, Working
      <4> QED
        BY <2>1, <4>1, <4>2
    <3>3. item[d] + 1 = Len(Batch[d]) + 1 /\ tx[d] = {} => Ids(d) \subseteq Committed
      BY <2>1, <3>2, IdsOfBatch
    <3>4. item[d] + 1 \in 1 .. Len(Batch[d]) + 1
      BY <2>1
    <3> QED
      BY <1>0, <2>1, <3>1, <3>3, <3>4, AnswerRefines
  <2> QED
    BY <2>2, <2>3
<1>5. ASSUME NEW d \in Delivery, Insert(d) PROVE [Promise!Next]_(Promise!vars)
  <2>1. answer[d] = "none"
    BY <1>5 DEF Insert, IInv, Shape, Working
  <2>2. CASE Raise(d)
    BY <1>0, <2>1, <2>2, RaiseRefines
  <2>3. CASE ~Raise(d)
    BY <1>5, <2>3 DEF Insert, Promise!vars
  <2> QED
    BY <2>2, <2>3
<1>6. ASSUME NEW d \in Delivery, Commit(d) PROVE [Promise!Next]_(Promise!vars)
  <2>1. /\ pc[d] = "responded"
        /\ stored' = stored \cup {<<i, d>> : i \in tx[d]}
        /\ UNCHANGED answer
    BY <1>6 DEF Commit
  <2>2. answer[d] \in Success
    BY <2>1 DEF IInv, Shape
  <2>3. CASE answer[d] = "received"
    <3>1. tx[d] = Ids(d) \ Committed
      BY <2>1 DEF IInv, Progress, Exclusive
    <3>2. Promise!Keep(d)
      BY <2>1, <2>3, <3>1 DEF Promise!Keep, Promise!Known, Committed
    <3> QED
      BY <3>2 DEF Promise!Next
  <2>4. CASE answer[d] = "duplicate"
    <3>1. tx[d] = {}
      BY <2>1, <2>4 DEF IInv, Progress
    <3>2. UNCHANGED stored
      BY <2>1, <3>1
    <3> QED
      BY <2>1, <3>2 DEF Promise!vars
  <2> QED
    BY <2>2, <2>3, <2>4 DEF Success
<1>7. ASSUME NEW d \in Delivery, Fail(d) \/ BreakDeadlock(d)
      PROVE  [Promise!Next]_(Promise!vars)
  <2>1. answer[d] = "none" /\ Raise(d)
    BY <1>7 DEF Fail, BreakDeadlock, IInv, Shape, Working
  <2> QED
    BY <1>0, <2>1, RaiseRefines
<1>8. ASSUME NEW d \in Delivery, CommitFails(d) PROVE [Promise!Next]_(Promise!vars)
  BY <1>8 DEF CommitFails, Promise!vars
<1>9. ASSUME NEW d \in Delivery, Redeliver(d) PROVE [Promise!Next]_(Promise!vars)
  <2>1. answer[d] # "401"
    BY <1>9 DEF Redeliver, Success, Failure
  <2>2. Promise!Again(d)
    BY <1>9, <2>1 DEF Redeliver, Promise!Again
  <2> QED
    BY <2>2 DEF Promise!Next
<1> QED
  BY <1>1, <1>2, <1>3, <1>4, <1>5, <1>6, <1>7, <1>8, <1>9 DEF Next, Handle

\* The webhooks keep what the abstract inbox promises, for any deliveries,
\* batches and races between them.
THEOREM Refinement == Spec => KeepsPromise
<1>1. Init => Promise!Init
  BY DEF Init, Promise!Init
<1>2. IInv /\ [Next]_vars => [Promise!Next]_(Promise!vars)
  BY NextRefines
<1> QED
  BY <1>1, <1>2, Invariance, PTL DEF Spec, KeepsPromise, Promise!Spec

-----------------------------------------------------------------------------
(* Waits. *)

\* A set of numbers that is not empty has a least one.
LEMMA LeastNumber ==
    ASSUME NEW S \in SUBSET Nat, S # {}
    PROVE  \E m \in S : \A n \in S : m <= n
<1> DEFINE R == OpToRel(<, Nat)
<1>1. IsWellFoundedOn(R, Nat)
  BY NatLessThanWellFounded
<1>2. \A m, n \in Nat : m < n => <<m, n>> \in R
  BY DEF OpToRel
<1> HIDE DEF R
<1>3. PICK m \in S : \A n \in S : ~(<<n, m>> \in R)
  BY <1>1, WFMin
<1>4. \A n \in S : m \in Nat /\ n \in Nat /\ ~(n < m)
  BY <1>2, <1>3, Zenon
<1>5. \A n \in S : m <= n
  BY <1>4
<1> QED
  BY <1>5

\* Among finitely many deliveries that all wait for one another, there are some
\* in a cycle: a smallest set of them in which everyone waits for a member has
\* nobody for whom no member waits, since it could do without that one.
LEMMA AllWaitingIsACycle ==
    ASSUME IsFiniteSet(Delivery), NEW W \in SUBSET Delivery, W # {},
           \A c \in W : \E e \in W : WaitsFor(c, e)
    PROVE  \E d \in W : InCycle(d)
<1> DEFINE Closed(T) == T # {} /\ \A c \in T : \E e \in T : WaitsFor(c, e)
           Sizes == {Cardinality(T) : T \in {U \in SUBSET W : Closed(U)}}
<1>1. \A T \in SUBSET W : IsFiniteSet(T) /\ Cardinality(T) \in Nat
  <2> TAKE T \in SUBSET W
  <2>1. T \in SUBSET Delivery
    OBVIOUS
  <2> QED
    BY <2>1, FS_Subset, FS_CardinalityType
<1>2. PICK n \in Sizes : \A k \in Sizes : n <= k
  <2>1. Cardinality(W) \in Sizes
    OBVIOUS
  <2>2. Sizes \in SUBSET Nat
    BY <1>1
  <2> HIDE DEF Sizes
  <2> QED
    BY <2>1, <2>2, LeastNumber
<1>3. PICK T \in SUBSET W : Closed(T) /\ Cardinality(T) = n
  OBVIOUS
<1>4. ASSUME NEW d \in T PROVE \E e \in T : WaitsFor(e, d)
  <2> SUFFICES ASSUME \A e \in T : ~WaitsFor(e, d) PROVE FALSE
    OBVIOUS
  <2>1. Closed(T \ {d})
    <3>1. PICK e \in T : WaitsFor(d, e)
      BY <1>3
    <3>2. e \in T \ {d}
      BY <3>1 DEF WaitsFor
    <3>3. \A c \in T \ {d} : \E b \in T \ {d} : WaitsFor(c, b)
      BY <1>3
    <3> QED
      BY <3>2, <3>3
  <2>2. Cardinality(T \ {d}) = n - 1 /\ n \in Nat
    BY <1>1, <1>3, FS_RemoveElement
  <2>3. Cardinality(T \ {d}) \in Sizes
    BY <2>1
  <2>4. n <= n - 1
    BY <1>2, <2>2, <2>3
  <2> HIDE DEF Sizes, Closed
  <2> QED
    BY <2>2, <2>4
<1>5. PICK d \in T : TRUE
  BY <1>3
<1>6. InCycle(d)
  BY <1>3, <1>4 DEF InCycle
<1> QED
  BY <1>6

\* Batches and races may make deliveries wait for each other, but never all of
\* them without a cycle, for any finite number of deliveries: who is waited for
\* is still at work.
THEOREM NoStandstill ==
    ASSUME IsFiniteSet(Delivery)
    PROVE  Spec => []NeverAllStuck
<1>1. ASSUME IInv PROVE NeverAllStuck
  <2> DEFINE AtWork == {d \in Delivery : pc[d] \in Working \cup {"responded"}}
  <2> SUFFICES ASSUME AtWork # {},
                      \A d \in AtWork : ~InCycle(d) /\ \E c \in Delivery : WaitsFor(d, c)
               PROVE  FALSE
    BY DEF NeverAllStuck
  <2>1. ASSUME NEW d \in AtWork PROVE \E c \in AtWork : WaitsFor(d, c)
    <3>1. PICK c \in Delivery : WaitsFor(d, c)
      OBVIOUS
    <3>2. tx[c] # {}
      BY <3>1 DEF WaitsFor
    <3>3. c \in AtWork
      BY <1>1, <3>2 DEF IInv, Shape, Live
    <3> QED
      BY <3>1, <3>3
  <2> HIDE DEF AtWork
  <2>2. AtWork \in SUBSET Delivery
    BY DEF AtWork
  <2>3. \E d \in AtWork : InCycle(d)
    BY <2>1, <2>2, AllWaitingIsACycle
  <2> QED
    BY <2>3
<1> QED
  BY <1>1, Invariance, PTL
=============================================================================
