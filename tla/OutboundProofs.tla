--------------------------- MODULE OutboundProofs ---------------------------
(***************************************************************************)
(* Theorems about Outbound, for every number of requests, keys and bodies. *)
(*                                                                         *)
(* The inductive invariant has a part for each thing a handler relies on   *)
(* across its awaits: which undecided writes it holds where (Shape), that  *)
(* rivals of a key exclude each other (Exclusive, Undecided), what the     *)
(* audit chain already says (Audited) and what is committed (Committed).   *)
(* What a key is worth around its expiry needs one more part, ExpiryInv:   *)
(* what a request may count on about its key row, by its place (Standing), *)
(* and which messages belong to a live row (Windowed).                     *)
(***************************************************************************)
EXTENDS Outbound, TLAPS

\* Points at which a request that claimed its key holds the claim.
Claiming == {"consent", "skip", "denied", "actor", "provider", "limited", "store", "audit"}

\* Which writes a request can hold, and whether it was answered, by its place.
Shape ==
    \A r \in Request :
        /\ pc[r] \in {"select", "insert", "reselect", "delete"} => KeyOf(r) \in Key
        /\ pc[r] = "delete" => stale[r] # NoRequest
        /\ pc[r] = "idle" => stale[r] = NoRequest
        /\ tx[r].del => KeyOf(r) \in Key /\ pc[r] \in Running
        /\ tx[r].ins => KeyOf(r) \in Key /\ pc[r] \in Claiming \cup {"responded"}
        /\ tx[r].msg => pc[r] \in {"audit", "responded"}
        /\ pc[r] = "audit" => tx[r].msg
        /\ pc[r] = "responded" /\ (tx[r].ins \/ tx[r].msg)
             => tx[r].msg /\ answer[r].code = "202" /\ answer[r].msg = r
        /\ pc[r] \notin {"responded", "done"} => answer[r] = NoAnswer

\* Two transactions never hold undecided writes of the same key.
Exclusive ==
    \A q, r \in Request :
        q # r /\ KeyOf(q) = KeyOf(r) /\ (tx[q].ins \/ tx[q].del)
          => ~tx[r].ins /\ ~tx[r].del

\* Only an expired row is being deleted, and a row is only being inserted
\* where none is or where the same transaction deletes the one there was.  The
\* row a request found expired is still expired, if it is still there.
Undecided ==
    \A r \in Request :
        /\ tx[r].del => keys[KeyOf(r)] # NoRow /\ keys[KeyOf(r)].expired
        /\ tx[r].ins => tx[r].del \/ keys[KeyOf(r)] = NoRow
        /\ stale[r] # NoRequest =>
             /\ KeyOf(r) \in Key
             /\ stale[r] \in messages
             /\ keys[KeyOf(r)].by = stale[r] => keys[KeyOf(r)].expired

\* The audit records of a request agree with where it is and what it was told.
Audited ==
    \A r \in Request :
        /\ pc[r] = "responded" /\ tx[r].msg => <<"message.send", r>> \in audit
        /\ \A a \in {"message.send.denied", "outbound.rate_limited"} :
             <<a, r>> \in audit => answer[r].code \in {"409", "429", "500"}

\* What is committed comes from accepted, audited requests that are over.
Committed ==
    \A r \in messages :
        /\ pc[r] = "done"
        /\ answer[r].code = "202"
        /\ <<"message.send", r>> \in audit

\* No two messages, committed or undecided, have the same provider id.
DistinctIds ==
    \A q, r \in Request :
        (q \in messages \/ tx[q].msg) /\ (r \in messages \/ tx[r].msg) /\ IdOf(q) = IdOf(r)
          => q = r

\* The inductive invariant.
IInv ==
    /\ TypeOK
    /\ Shape
    /\ Exclusive
    /\ Undecided
    /\ Audited
    /\ Committed
    /\ DistinctIds
    /\ KeyHasItsMessage
    /\ ReplayFaithful

-----------------------------------------------------------------------------
(* Type correctness. *)

\* Transactions gain and lose writes within their type.
LEMMA TxType ==
    ASSUME TypeOK, NEW r \in Request, NEW b \in BOOLEAN
    PROVE  /\ [tx EXCEPT ![r] = NoTx] \in [Request -> Tx]
           /\ [tx EXCEPT ![r].del = b] \in [Request -> Tx]
           /\ [tx EXCEPT ![r].ins = b] \in [Request -> Tx]
           /\ [tx EXCEPT ![r].msg = b] \in [Request -> Tx]
<1>1. tx \in [Request -> Tx]
  BY DEF TypeOK
<1>2. NoTx \in Tx
  BY DEF NoTx, Tx
<1>3. /\ [tx[r] EXCEPT !.del = b] \in Tx
      /\ [tx[r] EXCEPT !.ins = b] \in Tx
      /\ [tx[r] EXCEPT !.msg = b] \in Tx
  BY <1>1 DEF Tx
<1> QED
  BY <1>1, <1>2, <1>3

\* An exception ends the request with an answer of its type.
LEMMA RaiseType ==
    ASSUME TypeOK, NEW r \in Request, NEW c \in Code, Raise(r, c)
    PROVE  /\ pc' \in [Request -> PC]
           /\ tx' \in [Request -> Tx]
           /\ answer' \in [Request -> Answer]
<1>1. pc' \in [Request -> PC]
  BY DEF TypeOK, Raise, Goto, PC
<1>2. tx' \in [Request -> Tx]
  BY TxType DEF Raise, EndTx
<1>3. answer' \in [Request -> Answer]
  BY DEF TypeOK, Raise, Reply, Answer
<1> QED
  BY <1>1, <1>2, <1>3

\* Whatever the handler makes of a key row it found, the types are kept.
LEMMA FoundType ==
    ASSUME TypeOK, NEW r \in Request, KeyOf(r) \in Key, Found(r, Visible(r))
    PROVE  /\ pc' \in [Request -> PC]
           /\ tx' \in [Request -> Tx]
           /\ stale' \in [Request -> Request \cup {NoRequest}]
           /\ answer' \in [Request -> Answer]
<1>1. Visible(r) \in Row
  BY DEF TypeOK, Visible, Row, NoRow
<1>2. pc' \in [Request -> PC]
  BY DEF TypeOK, Found, Goto, PC, Running, Handling
<1>3. stale' \in [Request -> Request \cup {NoRequest}]
  BY <1>1 DEF TypeOK, Found, Row
<1>4. answer' \in [Request -> Answer]
  BY <1>1 DEF TypeOK, Found, Row, Reply, Answer, Code
<1> QED
  BY <1>2, <1>3, <1>4 DEF TypeOK, Found

\* What a call of notaio.record adds is a record of the audit chain.
LEMMA RecordType ==
    ASSUME TypeOK, NEW r \in Request, pc[r] \in DOMAIN AuditAction, Record(r)
    PROVE  audit' \subseteq ({AuditAction[p] : p \in DOMAIN AuditAction} \X Request)
  BY DEF TypeOK, Record

\* Every step keeps the types.
LEMMA TypeStep ==
    ASSUME TypeOK, Shape, [Next]_vars
    PROVE  TypeOK'
<1> USE DEF Goto, PC, Running, Handling
<1>1. ASSUME NEW r \in Request, Arrive(r) PROVE TypeOK'
  <2>1. PICK k \in Key \cup {NoKey}, b \in Body :
          req' = [req EXCEPT ![r] = [key |-> k, body |-> b]]
    BY <1>1 DEF Arrive
  <2>2. req' \in [Request -> [key : Key \cup {NoKey}, body : Body]]
    BY <2>1 DEF TypeOK
  <2>3. pc' \in [Request -> PC]
    BY <1>1 DEF TypeOK, Arrive
  <2>4. answer' \in [Request -> Answer]
    BY <1>1 DEF TypeOK, Arrive, Reply, Answer, Code
  <2> QED
    BY <1>1, <2>2, <2>3, <2>4 DEF TypeOK, Arrive
<1>2. ASSUME NEW r \in Request, SelectKey(r) PROVE TypeOK'
  <2>1. KeyOf(r) \in Key
    BY <1>2 DEF SelectKey, Shape
  <2>2. CASE Visible(r) = NoRow
    BY <1>2, <2>2 DEF SelectKey, TypeOK
  <2>3. CASE Visible(r) # NoRow
    <3>1. Found(r, Visible(r))
      BY <1>2, <2>3 DEF SelectKey
    <3> QED
      BY <1>2, <2>1, <3>1, FoundType DEF SelectKey, TypeOK
  <2> QED
    BY <2>2, <2>3
<1>3. ASSUME NEW r \in Request, InsertKey(r) PROVE TypeOK'
  <2>1. pc' \in [Request -> PC]
    BY <1>3 DEF TypeOK, InsertKey
  <2>2. tx' \in [Request -> Tx]
    <3>1. CASE Visible(r) = NoRow
      <4>1. tx' = [tx EXCEPT ![r].ins = TRUE]
        BY <1>3, <3>1 DEF InsertKey
      <4> QED
        BY <4>1, TxType
    <3>2. CASE Visible(r) # NoRow
      BY <1>3, <3>2, TxType DEF InsertKey, EndTx
    <3> QED
      BY <3>1, <3>2
  <2> QED
    BY <1>3, <2>1, <2>2 DEF TypeOK, InsertKey
<1>4. ASSUME NEW r \in Request, Reselect(r) PROVE TypeOK'
  <2>1. KeyOf(r) \in Key
    BY <1>4 DEF Reselect, Shape
  <2>2. CASE Visible(r) = NoRow
    BY <1>4, <2>2 DEF Reselect, TypeOK
  <2>3. CASE Visible(r) # NoRow
    <3>1. Found(r, Visible(r))
      BY <1>4, <2>3 DEF Reselect
    <3> QED
      BY <1>4, <2>1, <3>1, FoundType DEF Reselect, TypeOK
  <2> QED
    BY <2>2, <2>3
<1>5. ASSUME NEW r \in Request, DeleteExpired(r) PROVE TypeOK'
  <2>1. tx' \in [Request -> Tx]
    BY <1>5, TxType DEF DeleteExpired
  <2> QED
    BY <1>5, <2>1 DEF TypeOK, DeleteExpired
<1>6. ASSUME NEW r \in Request, Consent(r) PROVE TypeOK'
  <2>1. CASE req[r].body \in Unaddressed
    BY <1>6, <2>1, RaiseType DEF Consent, TypeOK, Code
  <2>2. CASE req[r].body \notin Unaddressed
    BY <1>6, <2>2 DEF Consent, TypeOK
  <2> QED
    BY <2>1, <2>2
<1>7. ASSUME NEW r \in Request, AuditSkip(r) PROVE TypeOK'
  <2>1. pc[r] \in DOMAIN AuditAction
    BY <1>7 DEF AuditSkip, AuditAction
  <2> QED
    BY <1>7, <2>1, RecordType DEF TypeOK, AuditSkip
<1>8. ASSUME NEW r \in Request, AuditDenied(r) PROVE TypeOK'
  <2>1. pc[r] \in DOMAIN AuditAction
    BY <1>8 DEF AuditDenied, AuditAction
  <2> QED
    BY <1>8, <2>1, RecordType, RaiseType DEF TypeOK, AuditDenied, Code
<1>9. ASSUME NEW r \in Request, TakeToken(r) PROVE TypeOK'
  BY <1>9 DEF TypeOK, TakeToken
<1>10. ASSUME NEW r \in Request, AuditLimited(r) PROVE TypeOK'
  <2>1. pc[r] \in DOMAIN AuditAction
    BY <1>10 DEF AuditLimited, AuditAction
  <2> QED
    BY <1>10, <2>1, RecordType, TxType DEF TypeOK, AuditLimited, Reply, Answer, Code
<1>11. ASSUME NEW r \in Request, Store(r) PROVE TypeOK'
  <2>1. CASE \E m \in messages : IdOf(m) = IdOf(r)
    BY <1>11, <2>1, RaiseType DEF Store, TypeOK, Code
  <2>2. CASE ~ \E m \in messages : IdOf(m) = IdOf(r)
    <3>1. tx' = [tx EXCEPT ![r].msg = TRUE]
      BY <1>11, <2>2 DEF Store
    <3>2. tx' \in [Request -> Tx]
      BY <3>1, TxType
    <3> QED
      BY <1>11, <2>2, <3>2 DEF Store, TypeOK
  <2> QED
    BY <2>1, <2>2
<1>12. ASSUME NEW r \in Request, AuditSent(r) PROVE TypeOK'
  <2>1. pc[r] \in DOMAIN AuditAction
    BY <1>12 DEF AuditSent, AuditAction
  <2> QED
    BY <1>12, <2>1, RecordType DEF TypeOK, AuditSent, Reply, Answer, Code
<1>13. ASSUME NEW r \in Request, Commit(r) PROVE TypeOK'
  <2>1. keys' \in [Key -> Row]
    BY <1>13 DEF TypeOK, Commit, OwnRow, Row, NoRow
  <2>2. window' \in [Key -> SUBSET Request]
    BY <1>13 DEF TypeOK, Commit
  <2> QED
    BY <1>13, <2>1, <2>2, TxType DEF TypeOK, Commit, EndTx
<1>14. ASSUME NEW r \in Request, Fail(r) PROVE TypeOK'
  <2>1. audit' \subseteq ({AuditAction[p] : p \in DOMAIN AuditAction} \X Request)
    BY <1>14, RecordType DEF Fail, TypeOK
  <2> QED
    BY <1>14, <2>1, RaiseType DEF TypeOK, Fail, Code
<1>15. ASSUME NEW r \in Request, CommitFails(r) PROVE TypeOK'
  BY <1>15, TxType DEF TypeOK, CommitFails, EndTx
<1>16. ASSUME NEW k \in Key, Expire(k) PROVE TypeOK'
  BY <1>16 DEF TypeOK, Expire, Row
<1>17. CASE Crash
  BY <1>17 DEF TypeOK, Crash, Tx, NoTx
<1>18. CASE UNCHANGED vars
  BY <1>18 DEF TypeOK, vars
<1> QED
  BY <1>1, <1>2, <1>3, <1>4, <1>5, <1>6, <1>7, <1>8, <1>9, <1>10, <1>11, <1>12,
     <1>13, <1>14, <1>15, <1>16, <1>17, <1>18 DEF Next, Handle, Finished

-----------------------------------------------------------------------------
(* Where a request holds undecided writes. *)

\* A row that was found is committed, so it is a request's.
LEMMA FoundRow ==
    ASSUME TypeOK, KeyHasItsMessage, NEW r \in Request, KeyOf(r) \in Key,
           Visible(r) # NoRow
    PROVE  /\ Visible(r) = keys[KeyOf(r)]
           /\ keys[KeyOf(r)] # NoRow
           /\ Visible(r).by \in messages
           /\ Visible(r).by \in Request
  BY DEF TypeOK, KeyHasItsMessage, Visible

\* What the handler makes of a row it found: where it goes, and with what.
LEMMA FoundShape ==
    ASSUME TypeOK, Shape, KeyHasItsMessage, NEW r \in Request,
           pc[r] \in {"select", "reselect"}, Visible(r) # NoRow,
           Found(r, Visible(r)), UNCHANGED req
    PROVE  Shape'
<1>1. KeyOf(r) \in Key /\ ~tx[r].ins /\ ~tx[r].msg
  BY DEF Shape, Claiming
<1>2. Visible(r).by # NoRequest
  BY <1>1, FoundRow, OutboundAssumption
<1>3. /\ pc'[r] \in {"consent", "delete", "responded"}
      /\ pc'[r] = "delete" => stale'[r] # NoRequest
      /\ pc'[r] # "responded" => answer'[r] = answer[r]
  BY <1>2 DEF Found, Goto, TypeOK
<1>4. \A q \in Request \ {r} :
        pc'[q] = pc[q] /\ stale'[q] = stale[q] /\ answer'[q] = answer[q]
  BY DEF Found, Goto, Reply, TypeOK
<1>5. answer[r] = NoAnswer
  BY DEF Shape
<1>6. UNCHANGED <<tx, req>>
  BY DEF Found
<1> QED
  BY <1>1, <1>3, <1>4, <1>5, <1>6 DEF Shape, KeyOf, Running, Handling

\* Every step keeps Shape.
LEMMA ShapeStep ==
    ASSUME TypeOK, Shape, KeyHasItsMessage, [Next]_vars
    PROVE  Shape'
<1> USE DEF Goto, Claiming
<1>1. ASSUME NEW r \in Request, Arrive(r) PROVE Shape'
  <2>1. PICK k \in Key \cup {NoKey}, b \in Body :
          /\ req' = [req EXCEPT ![r] = [key |-> k, body |-> b]]
          /\ pc' = [pc EXCEPT ![r] = IF b \in Malformed THEN "done"
                                     ELSE IF k = NoKey THEN "consent" ELSE "select"]
    BY <1>1 DEF Arrive
  <2>2. /\ ~tx[r].ins /\ ~tx[r].del /\ ~tx[r].msg
        /\ pc'[r] \in {"consent", "select", "done"}
        /\ pc'[r] = "select" => KeyOf(r)' \in Key
    BY <1>1, <2>1 DEF Arrive, Shape, TypeOK, Running, Handling, KeyOf
  <2>3. pc'[r] # "done" => answer'[r] = NoAnswer
    BY <1>1, <2>1 DEF Arrive, Shape, TypeOK
  <2>4. \A q \in Request \ {r} : pc'[q] = pc[q] /\ req'[q] = req[q] /\ answer'[q] = answer[q]
    BY <1>1, <2>1 DEF Arrive, TypeOK, Reply
  <2>5. UNCHANGED <<tx, stale>>
    BY <1>1 DEF Arrive
  <2> QED
    BY <2>2, <2>3, <2>4, <2>5 DEF Shape, KeyOf
<1>2. ASSUME NEW r \in Request, SelectKey(r) PROVE Shape'
  <2>1. CASE Visible(r) = NoRow
    BY <1>2, <2>1 DEF SelectKey, Shape, TypeOK, KeyOf, Running, Handling
  <2>2. CASE Visible(r) # NoRow
    BY <1>2, <2>2, FoundShape DEF SelectKey
  <2> QED
    BY <2>1, <2>2
<1>3. ASSUME NEW r \in Request, InsertKey(r) PROVE Shape'
  BY <1>3 DEF InsertKey, EndTx, NoTx, Shape, TypeOK, KeyOf, Running, Handling, Tx
<1>4. ASSUME NEW r \in Request, Reselect(r) PROVE Shape'
  <2>1. CASE Visible(r) = NoRow
    BY <1>4, <2>1 DEF Reselect, Shape, TypeOK, KeyOf, Running, Handling
  <2>2. CASE Visible(r) # NoRow
    BY <1>4, <2>2, FoundShape DEF Reselect
  <2> QED
    BY <2>1, <2>2
<1>5. ASSUME NEW r \in Request, DeleteExpired(r) PROVE Shape'
  BY <1>5 DEF DeleteExpired, Shape, TypeOK, KeyOf, Running, Handling, Tx
<1>6. ASSUME NEW r \in Request, Consent(r) PROVE Shape'
  BY <1>6 DEF Consent, Raise, EndTx, NoTx, Reply, Shape, TypeOK, KeyOf, Running, Handling, Tx
<1>7. ASSUME NEW r \in Request, AuditSkip(r) PROVE Shape'
  BY <1>7 DEF AuditSkip, Shape, TypeOK, KeyOf, Running, Handling
<1>8. ASSUME NEW r \in Request, AuditDenied(r) PROVE Shape'
  BY <1>8 DEF AuditDenied, Raise, EndTx, NoTx, Reply, Shape, TypeOK, KeyOf, Running, Handling
<1>9. ASSUME NEW r \in Request, TakeToken(r) PROVE Shape'
  BY <1>9 DEF TakeToken, Shape, TypeOK, KeyOf, Running, Handling
<1>10. ASSUME NEW r \in Request, AuditLimited(r) PROVE Shape'
  BY <1>10 DEF AuditLimited, Reply, Shape, TypeOK, KeyOf, Running, Handling, Tx
<1>11. ASSUME NEW r \in Request, Store(r) PROVE Shape'
  <2>1. CASE \E m \in messages : IdOf(m) = IdOf(r)
    BY <1>11, <2>1 DEF Store, Raise, EndTx, NoTx, Reply, Shape, TypeOK, KeyOf, Running, Handling
  <2>2. CASE ~ \E m \in messages : IdOf(m) = IdOf(r)
    BY <1>11, <2>2 DEF Store, Shape, TypeOK, KeyOf, Running, Handling, Tx
  <2> QED
    BY <2>1, <2>2
<1>12. ASSUME NEW r \in Request, AuditSent(r) PROVE Shape'
  BY <1>12 DEF AuditSent, Reply, Shape, TypeOK, KeyOf, Running, Handling
<1>13. ASSUME NEW r \in Request, Commit(r) PROVE Shape'
  BY <1>13 DEF Commit, EndTx, NoTx, Shape, TypeOK, KeyOf, Running, Handling
<1>14. ASSUME NEW r \in Request, Fail(r) PROVE Shape'
  BY <1>14 DEF Fail, Raise, EndTx, NoTx, Reply, Shape, TypeOK, KeyOf, Running, Handling
<1>15. ASSUME NEW r \in Request, CommitFails(r) PROVE Shape'
  BY <1>15 DEF CommitFails, EndTx, NoTx, Shape, TypeOK, KeyOf, Running, Handling
<1>16. ASSUME NEW k \in Key, Expire(k) PROVE Shape'
  BY <1>16 DEF Expire, Shape, KeyOf
<1>17. CASE Crash
  BY <1>17 DEF Crash, NoTx, Shape, KeyOf, Running, Handling
<1>18. CASE UNCHANGED vars
  BY <1>18 DEF vars, Shape, KeyOf
<1> QED
  BY <1>1, <1>2, <1>3, <1>4, <1>5, <1>6, <1>7, <1>8, <1>9, <1>10, <1>11, <1>12,
     <1>13, <1>14, <1>15, <1>16, <1>17, <1>18 DEF Next, Handle, Finished

-----------------------------------------------------------------------------
(* Rivals for one key. *)

\* A step that decides no key and takes no key keeps the two lock parts.
LEMMA LockFrame ==
    ASSUME Exclusive, Undecided, NEW r \in Request, TypeOK,
           UNCHANGED <<req, keys, messages, stale>>,
           \A q \in Request :
               /\ tx'[q].ins => tx[q].ins
               /\ tx'[q].del = tx[q].del \/ (~tx'[q].del /\ ~tx'[q].ins)
    PROVE  Exclusive' /\ Undecided'
  BY DEF Exclusive, Undecided, KeyOf

\* Every step keeps rivals apart.
LEMMA LockStep ==
    ASSUME TypeOK, Shape, Exclusive, Undecided, KeyHasItsMessage, Committed, [Next]_vars
    PROVE  Exclusive' /\ Undecided'
<1>1. ASSUME NEW r \in Request, Arrive(r) PROVE Exclusive' /\ Undecided'
  <2>1. /\ UNCHANGED <<tx, keys, messages, stale>>
        /\ \A q \in Request \ {r} : req'[q] = req[q]
    BY <1>1 DEF Arrive, TypeOK
  <2>2. ~tx[r].ins /\ ~tx[r].del /\ stale[r] = NoRequest
    BY <1>1 DEF Arrive, Shape, Claiming, Running, Handling
  <2> QED
    BY <2>1, <2>2 DEF Exclusive, Undecided, KeyOf
<1>2. ASSUME NEW r \in Request, SelectKey(r) \/ Reselect(r) PROVE Exclusive' /\ Undecided'
  <2>1. UNCHANGED <<tx, req, keys, messages>>
    BY <1>2 DEF SelectKey, Reselect, Found
  <2>2. KeyOf(r) \in Key
    BY <1>2 DEF SelectKey, Reselect, Shape
  <2>3. stale' = stale \/ ( /\ Visible(r) # NoRow
                            /\ Visible(r).expired
                            /\ stale' = [stale EXCEPT ![r] = Visible(r).by])
    BY <1>2 DEF SelectKey, Reselect, Found
  <2>4. CASE stale' = stale
    BY <2>1, <2>4 DEF Exclusive, Undecided, KeyOf
  <2>5. CASE stale' # stale
    <3>1. /\ keys[KeyOf(r)].by \in messages
          /\ keys[KeyOf(r)].expired
          /\ stale' = [stale EXCEPT ![r] = keys[KeyOf(r)].by]
      BY <2>2, <2>3, <2>5, FoundRow
    <3>2. \A q \in Request : stale'[q] = IF q = r THEN keys[KeyOf(r)].by ELSE stale[q]
      BY <3>1 DEF TypeOK
    <3>3. \A q \in Request : stale'[q] # NoRequest =>
             /\ KeyOf(q) \in Key
             /\ stale'[q] \in messages
             /\ keys[KeyOf(q)].by = stale'[q] => keys[KeyOf(q)].expired
      BY <2>2, <3>1, <3>2 DEF Undecided
    <3> QED
      BY <2>1, <3>3 DEF Exclusive, Undecided, KeyOf
  <2> QED
    BY <2>4, <2>5
<1>3. ASSUME NEW r \in Request, InsertKey(r) PROVE Exclusive' /\ Undecided'
  <2>1. CASE Visible(r) = NoRow
    <3>1. tx' = [tx EXCEPT ![r].ins = TRUE]
      BY <1>3, <2>1 DEF InsertKey
    <3>2. UNCHANGED <<req, keys, messages, stale>>
      BY <1>3 DEF InsertKey
    <3>3. \A q \in Request \ {r} : KeyOf(q) = KeyOf(r) => ~tx[q].ins /\ ~tx[q].del
      BY <1>3 DEF InsertKey, KeyLocked
    <3>4. tx[r].del \/ keys[KeyOf(r)] = NoRow
      BY <2>1 DEF Visible
    <3> QED
      BY <3>1, <3>2, <3>3, <3>4 DEF Exclusive, Undecided, KeyOf, TypeOK, Tx
  <2>2. CASE Visible(r) # NoRow
    <3>1. tx' = [tx EXCEPT ![r] = NoTx] /\ UNCHANGED <<req, keys, messages, stale>>
      BY <1>3, <2>2 DEF InsertKey, EndTx
    <3>2. \A q \in Request : tx'[q] = tx[q] \/ (~tx'[q].del /\ ~tx'[q].ins)
      BY <3>1 DEF TypeOK, NoTx
    <3> QED
      BY <3>1, <3>2, LockFrame
  <2> QED
    BY <2>1, <2>2
<1>4. ASSUME NEW r \in Request, DeleteExpired(r) PROVE Exclusive' /\ Undecided'
  <2>1. /\ tx' = [tx EXCEPT ![r].del = (keys[KeyOf(r)].by = stale[r])]
        /\ UNCHANGED <<req, keys, messages, stale>>
    BY <1>4 DEF DeleteExpired
  <2>2. KeyOf(r) \in Key /\ stale[r] # NoRequest /\ ~tx[r].ins
    BY <1>4 DEF DeleteExpired, Shape, Claiming
  <2>3. CASE keys[KeyOf(r)].by # stale[r]
    BY <2>1, <2>2, <2>3 DEF Exclusive, Undecided, KeyOf, TypeOK, Tx
  <2>4. CASE keys[KeyOf(r)].by = stale[r]
    <3>1. keys[KeyOf(r)].expired /\ keys[KeyOf(r)] # NoRow
      BY <2>2, <2>4 DEF Undecided, NoRow
    <3>2. \A q \in Request \ {r} : KeyOf(q) = KeyOf(r) => ~tx[q].ins /\ ~tx[q].del
      BY <1>4, <3>1 DEF DeleteExpired, RowLocked, Undecided
    <3> QED
      BY <2>1, <2>2, <2>4, <3>1, <3>2 DEF Exclusive, Undecided, KeyOf, TypeOK, Tx
  <2> QED
    BY <2>3, <2>4
<1>5. ASSUME NEW r \in Request,
             Consent(r) \/ AuditSkip(r) \/ AuditDenied(r) \/ TakeToken(r) \/ AuditLimited(r)
             \/ Store(r) \/ AuditSent(r) \/ Fail(r) \/ CommitFails(r)
      PROVE  Exclusive' /\ Undecided'
  <2>1. UNCHANGED <<req, keys, messages, stale>>
    BY <1>5 DEF Consent, AuditSkip, AuditDenied, TakeToken, AuditLimited, Store, AuditSent,
                Fail, CommitFails
  <2>2. \/ UNCHANGED tx
        \/ tx' = [tx EXCEPT ![r] = NoTx]
        \/ tx' = [tx EXCEPT ![r].ins = FALSE]
        \/ tx' = [tx EXCEPT ![r].msg = TRUE]
    BY <1>5 DEF Consent, AuditSkip, AuditDenied, TakeToken, AuditLimited, Store, AuditSent,
                Fail, CommitFails, Raise, EndTx
  <2>3. \A q \in Request :
           /\ tx'[q].ins => tx[q].ins
           /\ tx'[q].del = tx[q].del \/ (~tx'[q].del /\ ~tx'[q].ins)
    <3>1. CASE UNCHANGED tx
      BY <3>1
    <3>2. CASE tx' = [tx EXCEPT ![r] = NoTx]
      BY <3>2 DEF TypeOK, NoTx
    <3>3. CASE tx' = [tx EXCEPT ![r].ins = FALSE]
      BY <3>3 DEF TypeOK, Tx
    <3>4. CASE tx' = [tx EXCEPT ![r].msg = TRUE]
      BY <3>4 DEF TypeOK, Tx
    <3> QED
      BY <2>2, <3>1, <3>2, <3>3, <3>4
  <2> QED
    BY <2>1, <2>3, LockFrame
<1>6. ASSUME NEW r \in Request, Commit(r) PROVE Exclusive' /\ Undecided'
  <2>1. /\ UNCHANGED <<req, stale>>
        /\ tx' = [tx EXCEPT ![r] = NoTx]
        /\ messages \subseteq messages'
    BY <1>6 DEF Commit, EndTx
  <2>2. Exclusive'
    BY <2>1 DEF Exclusive, KeyOf, TypeOK, NoTx
  <2>3. CASE ~tx[r].ins /\ ~tx[r].del
    <3>1. keys' = keys
      BY <1>6, <2>3 DEF Commit, TypeOK
    <3> QED
      BY <2>1, <2>2, <3>1 DEF Undecided, KeyOf, TypeOK, NoTx
  <2>4. CASE tx[r].ins \/ tx[r].del
    <3>1. /\ \A k \in Key \ {KeyOf(r)} : keys'[k] = keys[k]
          /\ KeyOf(r) \in Key
          /\ keys'[KeyOf(r)] \in {OwnRow(r), NoRow}
      BY <1>6, <2>4 DEF Commit, Shape
    <3>2. \A q \in Request \ {r} : KeyOf(q) = KeyOf(r) => ~tx[q].ins /\ ~tx[q].del
      BY <2>4 DEF Exclusive
    <3>3. \A q \in Request : (tx[q].ins \/ tx[q].del) => KeyOf(q) \in Key
      BY DEF Shape
    <3>4. pc[r] = "responded" /\ r \notin messages
      BY <1>6 DEF Commit, Committed
    <3>5. keys'[KeyOf(r)].by \in {r, NoRequest}
      BY <3>1 DEF OwnRow, NoRow
    <3>6. \A q \in Request : stale'[q] # NoRequest =>
             /\ stale'[q] \in messages'
             /\ KeyOf(q) \in Key
             /\ keys'[KeyOf(q)].by = stale'[q] => keys'[KeyOf(q)].expired
      BY <2>1, <3>1, <3>4, <3>5 DEF Undecided
    <3>7. \A q \in Request : (~tx'[q].ins /\ ~tx'[q].del) \/ (q # r /\ tx'[q] = tx[q])
      BY <2>1 DEF TypeOK, NoTx
    <3>8. \A q \in Request :
            /\ tx'[q].del => keys'[KeyOf(q)] # NoRow /\ keys'[KeyOf(q)].expired
            /\ tx'[q].ins => tx'[q].del \/ keys'[KeyOf(q)] = NoRow
      BY <3>1, <3>2, <3>3, <3>7 DEF Undecided
    <3> QED
      BY <2>1, <2>2, <3>6, <3>8 DEF Undecided, KeyOf
  <2> QED
    BY <2>3, <2>4
<1>7. ASSUME NEW k \in Key, Expire(k) PROVE Exclusive' /\ Undecided'
  <2>1. \A j \in Key : keys'[j] = IF j = k THEN [keys[k] EXCEPT !.expired = TRUE] ELSE keys[j]
    BY <1>7 DEF Expire, TypeOK
  <2>2. \A j \in Key :
          /\ keys'[j].by = keys[j].by
          /\ keys[j].expired => keys'[j].expired
          /\ keys[j] # NoRow => keys'[j] # NoRow
          /\ keys[j] = NoRow => keys'[j] = NoRow
    <3>1. keys[k].expired = FALSE /\ keys[k] # NoRow /\ keys[k] \in Row
      BY <1>7 DEF Expire, TypeOK, Row
    <3>2. [keys[k] EXCEPT !.expired = TRUE].by = keys[k].by
      BY <3>1 DEF Row
    <3>3. [keys[k] EXCEPT !.expired = TRUE].expired
      BY <3>1 DEF Row
    <3>4. [keys[k] EXCEPT !.expired = TRUE] # NoRow
      BY <3>3 DEF NoRow
    <3> QED
      BY <2>1, <3>1, <3>2, <3>3, <3>4
  <2>3. UNCHANGED <<req, tx, stale, messages>>
    BY <1>7 DEF Expire
  <2>4. \A q \in Request : (tx[q].ins \/ tx[q].del) => KeyOf(q) \in Key
    BY DEF Shape
  <2> QED
    BY <2>2, <2>3, <2>4 DEF Exclusive, Undecided, KeyOf
<1>8. CASE Crash
  BY <1>8 DEF Crash, Exclusive, Undecided, KeyOf, NoTx
<1>9. CASE UNCHANGED vars
  BY <1>9 DEF vars, Exclusive, Undecided, KeyOf
<1> QED
  BY <1>1, <1>2, <1>3, <1>4, <1>5, <1>6, <1>7, <1>8, <1>9 DEF Next, Handle, Finished

-----------------------------------------------------------------------------
(* The audit chain and what is committed. *)

\* The name under which each point of the handler records.
LEMMA AuditNames ==
    /\ DOMAIN AuditAction = {"skip", "denied", "limited", "audit"}
    /\ AuditAction["skip"] = "message.consent.skip"
    /\ AuditAction["denied"] = "message.send.denied"
    /\ AuditAction["limited"] = "outbound.rate_limited"
    /\ AuditAction["audit"] = "message.send"
<1>1. DOMAIN AuditAction = {"skip", "denied", "limited", "audit"}
  BY DEF AuditAction
<1>2. /\ AuditAction["skip"] = "message.consent.skip"
      /\ AuditAction["denied"] = "message.send.denied"
      /\ AuditAction["limited"] = "outbound.rate_limited"
      /\ AuditAction["audit"] = "message.send"
  BY DEF AuditAction
<1> QED
  BY <1>1, <1>2

\* Every step keeps the audit chain ahead of the database.
LEMMA AuditStep ==
    ASSUME TypeOK, Shape, Audited, Committed, [Next]_vars
    PROVE  Audited' /\ Committed'
<1> USE DEF Goto, Audited, Committed
<1>1. ASSUME NEW r \in Request, Arrive(r) PROVE Audited' /\ Committed'
  <2>1. /\ UNCHANGED <<tx, messages, audit>>
        /\ \A q \in Request \ {r} : pc'[q] = pc[q] /\ answer'[q] = answer[q]
        /\ r \notin messages
    BY <1>1 DEF Arrive, Reply, TypeOK
  <2>2. pc'[r] # "responded"
    BY <1>1 DEF Arrive, TypeOK
  <2>3. answer[r].code = "none"
    BY <1>1 DEF Arrive, Shape, NoAnswer
  <2> QED
    BY <2>1, <2>2, <2>3 DEF TypeOK
<1>2. ASSUME NEW r \in Request, SelectKey(r) \/ Reselect(r) PROVE Audited' /\ Committed'
  <2>1. /\ UNCHANGED <<tx, messages, audit>>
        /\ \A q \in Request \ {r} : pc'[q] = pc[q] /\ answer'[q] = answer[q]
        /\ r \notin messages
    BY <1>2 DEF SelectKey, Reselect, Found, Reply, TypeOK
  <2>2. answer[r].code = "none" /\ ~tx[r].msg
    BY <1>2 DEF SelectKey, Reselect, Shape, NoAnswer
  <2> QED
    BY <2>1, <2>2 DEF TypeOK
<1>3. ASSUME NEW r \in Request,
             InsertKey(r) \/ DeleteExpired(r) \/ TakeToken(r)
      PROVE  Audited' /\ Committed'
  <2>1. /\ UNCHANGED <<messages, audit, answer>>
        /\ \A q \in Request \ {r} : pc'[q] = pc[q] /\ tx'[q] = tx[q]
        /\ pc'[r] # "responded" /\ r \notin messages
    BY <1>3 DEF InsertKey, DeleteExpired, TakeToken, EndTx, TypeOK
  <2> QED
    BY <2>1 DEF TypeOK
<1>4. ASSUME NEW r \in Request, AuditSkip(r) PROVE Audited' /\ Committed'
  <2>1. /\ UNCHANGED <<messages, answer, tx>>
        /\ \A q \in Request \ {r} : pc'[q] = pc[q]
        /\ pc'[r] = "actor" /\ r \notin messages
        /\ audit' = audit \cup {<<"message.consent.skip", r>>}
    BY <1>4, AuditNames DEF AuditSkip, Record, TypeOK
  <2> QED
    BY <2>1 DEF TypeOK
<1>5. ASSUME NEW r \in Request, Consent(r) \/ AuditDenied(r) \/ Store(r) \/ Fail(r)
      PROVE  Audited' /\ Committed'
  <2>1. /\ UNCHANGED messages
        /\ \A q \in Request \ {r} :
             pc'[q] = pc[q] /\ tx'[q] = tx[q] /\ answer'[q] = answer[q]
        /\ pc'[r] # "responded" /\ r \notin messages
    BY <1>5 DEF Consent, AuditDenied, Store, Fail, Raise, EndTx, Reply, TypeOK, Handling
  <2>2. \/ audit' = audit
        \/ /\ answer'[r].code \in {"409", "500"}
           /\ \E a : audit' = audit \cup {<<a, r>>}
    <3>1. CASE audit' = audit
      BY <3>1
    <3>2. CASE audit' # audit
      <4>1. /\ AuditDenied(r) \/ Fail(r)
            /\ audit' = audit \cup {<<AuditAction[pc[r]], r>>}
            /\ pc[r] \in DOMAIN AuditAction
        BY <1>5, <3>2, AuditNames DEF Consent, AuditDenied, Store, Fail, Record
      <4>2. answer'[r].code \in {"409", "500"}
        BY <4>1 DEF AuditDenied, Fail, Raise, Reply, TypeOK
      <4> QED
        BY <4>1, <4>2, AuditNames
    <3> QED
      BY <3>1, <3>2
  <2>3. \A a \in {"message.send.denied", "outbound.rate_limited"} :
           <<a, r>> \in audit' => answer'[r].code \in {"409", "429", "500"}
    <3>1. answer[r].code = "none"
      BY <1>5 DEF Consent, AuditDenied, Store, Fail, Shape, NoAnswer, Handling
    <3>2. CASE audit' = audit
      BY <3>1, <3>2
    <3>3. CASE answer'[r].code \in {"409", "500"}
      BY <3>3
    <3> QED
      BY <2>2, <3>2, <3>3
  <2>4. audit \subseteq audit' /\ \A q \in Request \ {r} : \A a :
           <<a, q>> \in audit' => <<a, q>> \in audit
    BY <2>2
  <2>5. Committed'
    BY <2>1, <2>4 DEF TypeOK
  <2> QED
    BY <2>1, <2>3, <2>4, <2>5
<1>6. ASSUME NEW r \in Request, AuditLimited(r) \/ AuditSent(r) PROVE Audited' /\ Committed'
  <2>1. /\ UNCHANGED messages
        /\ \A q \in Request \ {r} :
             pc'[q] = pc[q] /\ tx'[q] = tx[q] /\ answer'[q] = answer[q]
        /\ r \notin messages
    BY <1>6 DEF AuditLimited, AuditSent, Reply, TypeOK
  <2>2. \/ /\ ~tx'[r].msg
           /\ audit' = audit \cup {<<"outbound.rate_limited", r>>}
           /\ answer'[r].code = "429"
        \/ audit' = audit \cup {<<"message.send", r>>}
    <3>1. CASE AuditLimited(r)
      <4>1. ~tx[r].msg
        BY <3>1 DEF AuditLimited, Shape
      <4> QED
        BY <3>1, <4>1, AuditNames DEF AuditLimited, Record, Reply, TypeOK, Tx
    <3>2. CASE AuditSent(r)
      BY <3>2, AuditNames DEF AuditSent, Record
    <3> QED
      BY <1>6, <3>1, <3>2
  <2>3. answer[r].code = "none"
    BY <1>6 DEF AuditLimited, AuditSent, Shape, NoAnswer
  <2> QED
    BY <2>1, <2>2, <2>3 DEF TypeOK
<1>7. ASSUME NEW r \in Request, Commit(r) \/ CommitFails(r) PROVE Audited' /\ Committed'
  <2>1. /\ UNCHANGED <<audit, answer>>
        /\ \A q \in Request \ {r} : pc'[q] = pc[q] /\ tx'[q] = tx[q]
        /\ pc'[r] = "done"
    BY <1>7 DEF Commit, CommitFails, EndTx, TypeOK
  <2>2. messages' \subseteq messages \cup {r} /\ (r \in messages' => tx[r].msg \/ r \in messages)
    BY <1>7 DEF Commit, CommitFails
  <2>3. pc[r] = "responded" /\ r \notin messages
    BY <1>7 DEF Commit, CommitFails
  <2>4. tx[r].msg => answer[r].code = "202" /\ <<"message.send", r>> \in audit
    BY <2>3 DEF Shape
  <2> QED
    BY <2>1, <2>2, <2>3, <2>4 DEF TypeOK
<1>8. ASSUME NEW k \in Key, Expire(k) PROVE Audited' /\ Committed'
  BY <1>8 DEF Expire
<1>9. CASE Crash
  BY <1>9 DEF Crash, NoTx, TypeOK, Running, Handling
<1>10. CASE UNCHANGED vars
  BY <1>10 DEF vars
<1> QED
  BY <1>1, <1>2, <1>3, <1>4, <1>5, <1>6, <1>7, <1>8, <1>9, <1>10 DEF Next, Handle, Finished

-----------------------------------------------------------------------------
(* Provider message ids. *)

\* Every step keeps the provider ids of messages apart.
LEMMA IdStep ==
    ASSUME TypeOK, Shape, Committed, DistinctIds, [Next]_vars
    PROVE  DistinctIds'
<1> USE DEF Goto, DistinctIds, IdOf
<1>1. ASSUME NEW r \in Request, Arrive(r) PROVE DistinctIds'
  <2>1. /\ UNCHANGED <<tx, messages>>
        /\ \A q \in Request \ {r} : req'[q] = req[q]
        /\ r \notin messages
    BY <1>1 DEF Arrive, TypeOK, Committed
  <2>2. ~tx[r].msg
    BY <1>1 DEF Arrive, Shape
  <2> QED
    BY <2>1, <2>2
<1>2. ASSUME NEW r \in Request, Store(r) PROVE DistinctIds'
  <2>1. UNCHANGED <<req, messages>>
    BY <1>2 DEF Store
  <2>2. CASE tx' = [tx EXCEPT ![r] = NoTx]
    BY <2>1, <2>2 DEF TypeOK, NoTx
  <2>3. CASE /\ tx' = [tx EXCEPT ![r].msg = TRUE]
             /\ \A m \in messages : IdOf(m) # IdOf(r)
    <3>1. \A q \in Request \ {r} : tx'[q] = tx[q] /\ (tx[q].msg => IdOf(q) # IdOf(r))
      BY <1>2, <2>3 DEF Store, IdLocked, TypeOK
    <3> QED
      BY <2>1, <2>3, <3>1
  <2> QED
    BY <1>2, <2>2, <2>3 DEF Store, Raise, EndTx
<1>3. ASSUME NEW r \in Request, Commit(r) PROVE DistinctIds'
  <2>1. /\ UNCHANGED req
        /\ tx' = [tx EXCEPT ![r] = NoTx]
        /\ messages' = IF tx[r].msg THEN messages \cup {r} ELSE messages
    BY <1>3 DEF Commit, EndTx
  <2> QED
    BY <2>1 DEF TypeOK, NoTx
<1>4. ASSUME NEW r \in Request,
             SelectKey(r) \/ InsertKey(r) \/ Reselect(r) \/ DeleteExpired(r) \/ Consent(r)
             \/ AuditSkip(r) \/ AuditDenied(r) \/ TakeToken(r) \/ AuditLimited(r)
             \/ AuditSent(r) \/ Fail(r) \/ CommitFails(r)
      PROVE  DistinctIds'
  <2>1. UNCHANGED <<req, messages>>
    BY <1>4 DEF SelectKey, InsertKey, Reselect, Found, DeleteExpired, Consent, AuditSkip,
                AuditDenied, TakeToken, AuditLimited, AuditSent, Fail, CommitFails
  <2>2. \/ UNCHANGED tx
        \/ tx' = [tx EXCEPT ![r] = NoTx]
        \/ \E b \in BOOLEAN : tx' = [tx EXCEPT ![r].ins = b]
        \/ \E b \in BOOLEAN : tx' = [tx EXCEPT ![r].del = b]
    BY <1>4 DEF SelectKey, InsertKey, Reselect, Found, DeleteExpired, Consent, AuditSkip,
                AuditDenied, TakeToken, AuditLimited, AuditSent, Fail, CommitFails, Raise, EndTx
  <2>3. \A q \in Request : tx'[q].msg => tx[q].msg
    <3>1. CASE UNCHANGED tx
      BY <3>1
    <3>2. CASE tx' = [tx EXCEPT ![r] = NoTx]
      BY <3>2 DEF TypeOK, NoTx
    <3>3. ASSUME NEW b \in BOOLEAN, tx' = [tx EXCEPT ![r].ins = b]
          PROVE  \A q \in Request : tx'[q].msg => tx[q].msg
      BY <3>3 DEF TypeOK, Tx
    <3>4. ASSUME NEW b \in BOOLEAN, tx' = [tx EXCEPT ![r].del = b]
          PROVE  \A q \in Request : tx'[q].msg => tx[q].msg
      BY <3>4 DEF TypeOK, Tx
    <3> QED
      BY <2>2, <3>1, <3>2, <3>3, <3>4
  <2> QED
    BY <2>1, <2>3
<1>5. ASSUME NEW k \in Key, Expire(k) PROVE DistinctIds'
  BY <1>5 DEF Expire
<1>6. CASE Crash
  BY <1>6 DEF Crash, NoTx
<1>7. CASE UNCHANGED vars
  BY <1>7 DEF vars
<1> QED
  BY <1>1, <1>2, <1>3, <1>4, <1>5, <1>6, <1>7 DEF Next, Handle, Finished

-----------------------------------------------------------------------------
(* Key rows, their messages, and replays. *)

\* The request of a message never changes.
LEMMA RequestKept ==
    ASSUME TypeOK, Committed, [Next]_vars
    PROVE  /\ messages \subseteq messages'
           /\ \A m \in messages : req'[m] = req[m]
<1>1. ASSUME NEW r \in Request, Arrive(r)
      PROVE  messages' = messages /\ \A m \in messages : req'[m] = req[m]
  BY <1>1 DEF Arrive, Committed, TypeOK
<1>2. ASSUME NEW r \in Request, Commit(r)
      PROVE  messages \subseteq messages' /\ UNCHANGED req
  BY <1>2 DEF Commit
<1>3. ASSUME NEW r \in Request,
             SelectKey(r) \/ InsertKey(r) \/ Reselect(r) \/ DeleteExpired(r) \/ Consent(r)
             \/ AuditSkip(r) \/ AuditDenied(r) \/ TakeToken(r) \/ AuditLimited(r)
             \/ Store(r) \/ AuditSent(r) \/ Fail(r) \/ CommitFails(r)
      PROVE  UNCHANGED <<req, messages>>
  BY <1>3 DEF SelectKey, InsertKey, Reselect, DeleteExpired, Consent, AuditSkip,
              AuditDenied, TakeToken, AuditLimited, Store, AuditSent, Fail, CommitFails
<1>4. ASSUME (\E k \in Key : Expire(k)) \/ Crash \/ UNCHANGED vars
      PROVE  UNCHANGED <<req, messages>>
  BY <1>4 DEF Expire, Crash, vars
<1> QED
  BY <1>1, <1>2, <1>3, <1>4 DEF Next, Handle, Finished

\* Every step leaves a message with each committed key row.
LEMMA KeyStep ==
    ASSUME TypeOK, Shape, Committed, KeyHasItsMessage, [Next]_vars
    PROVE  KeyHasItsMessage'
<1>1. messages \subseteq messages' /\ \A m \in messages : req'[m] = req[m]
  BY RequestKept
<1>2. CASE keys' = keys
  BY <1>1, <1>2 DEF KeyHasItsMessage, KeyOf
<1>3. ASSUME NEW r \in Request, Commit(r) PROVE KeyHasItsMessage'
  <2>1. UNCHANGED req
    BY <1>3 DEF Commit
  <2>2. \A k \in Key : \/ keys'[k] = keys[k]
                       \/ keys'[k] = NoRow
                       \/ k = KeyOf(r) /\ tx[r].ins /\ keys'[k] = OwnRow(r)
    BY <1>3 DEF Commit
  <2>3. tx[r].ins => tx[r].msg
    BY <1>3 DEF Commit, Shape
  <2>4. tx[r].msg => r \in messages'
    BY <1>3 DEF Commit
  <2>5. tx[r].ins => OwnRow(r).msg = r /\ OwnRow(r).by = r
    BY <2>3 DEF OwnRow
  <2> QED
    BY <1>1, <2>1, <2>2, <2>3, <2>4, <2>5 DEF KeyHasItsMessage, KeyOf
<1>4. ASSUME NEW k \in Key, Expire(k) PROVE KeyHasItsMessage'
  <2>1. keys' = [keys EXCEPT ![k].expired = TRUE] /\ keys[k] # NoRow /\ UNCHANGED <<req, messages>>
    BY <1>4 DEF Expire
  <2>2. \A j \in Key : /\ keys'[j].by = keys[j].by
                       /\ keys'[j].msg = keys[j].msg
                       /\ keys'[j] # NoRow => keys[j] # NoRow
    BY <2>1 DEF TypeOK, Row
  <2> QED
    BY <2>1, <2>2 DEF KeyHasItsMessage, KeyOf
<1>5. ASSUME NEW r \in Request, Arrive(r) \/ Fail(r) \/ CommitFails(r) PROVE keys' = keys
  BY <1>5 DEF Arrive, Fail, CommitFails
<1>6. ASSUME NEW r \in Request, Handle(r), ~Commit(r) PROVE keys' = keys
  BY <1>6 DEF Handle, SelectKey, InsertKey, Reselect, DeleteExpired, Consent, AuditSkip,
              AuditDenied, TakeToken, AuditLimited, Store, AuditSent
<1>7. ASSUME Crash \/ UNCHANGED vars PROVE keys' = keys
  BY <1>7 DEF Crash, vars
<1> QED
  BY <1>2, <1>3, <1>4, <1>5, <1>6, <1>7 DEF Next, Handle, Finished

\* Two requests with the same key and the same body ask for the same.
LEMMA SameRequest ==
    ASSUME TypeOK, NEW p \in Request, NEW q \in Request,
           KeyOf(p) = KeyOf(q), req[p].body = req[q].body
    PROVE  req[p] = req[q]
  BY DEF TypeOK, KeyOf

\* A replay found a live row of the request's key, with the request's body.
LEMMA ReplayFound ==
    ASSUME TypeOK, Shape, KeyHasItsMessage, NEW r \in Request,
           SelectKey(r) \/ Reselect(r), answer' # answer, answer'[r].code = "200"
    PROVE  /\ answer'[r].msg \in messages
           /\ req[answer'[r].msg] = req[r]
<1>1. KeyOf(r) \in Key
  BY DEF SelectKey, Reselect, Shape
<1>2. Visible(r) # NoRow /\ Found(r, Visible(r))
  BY DEF SelectKey, Reselect
<1>3. Visible(r) = keys[KeyOf(r)] /\ keys[KeyOf(r)] # NoRow
  BY <1>1, <1>2, FoundRow
<1>4. /\ req[Visible(r).by].body = req[r].body
      /\ answer'[r].msg = Visible(r).msg
  BY <1>2 DEF Found, Reply, TypeOK
<1>5. /\ Visible(r).msg = Visible(r).by
      /\ Visible(r).by \in messages
      /\ KeyOf(Visible(r).by) = KeyOf(r)
  BY <1>1, <1>3 DEF KeyHasItsMessage
<1>6. req[Visible(r).by] = req[r]
  BY <1>4, <1>5, SameRequest DEF TypeOK
<1> QED
  BY <1>4, <1>5, <1>6

\* Every step keeps replays faithful.
LEMMA ReplayStep ==
    ASSUME TypeOK, Shape, Committed, KeyHasItsMessage, ReplayFaithful, [Next]_vars
    PROVE  ReplayFaithful'
<1>1. messages \subseteq messages' /\ \A m \in messages : req'[m] = req[m]
  BY RequestKept
<1>2. ASSUME NEW r \in Request, Arrive(r) PROVE ReplayFaithful'
  <2>1. /\ \A q \in Request \ {r} : req'[q] = req[q] /\ answer'[q] = answer[q]
        /\ answer'[r].code # "200"
    <3>1. answer[r].code = "none"
      BY <1>2 DEF Arrive, Shape, NoAnswer
    <3> QED
      BY <1>2, <3>1 DEF Arrive, Reply, TypeOK
  <2> QED
    BY <1>1, <2>1 DEF ReplayFaithful, TypeOK
<1>3. ASSUME NEW r \in Request, SelectKey(r) \/ Reselect(r) PROVE ReplayFaithful'
  <2>1. /\ UNCHANGED <<req, messages>>
        /\ \A q \in Request \ {r} : answer'[q] = answer[q]
    BY <1>3 DEF SelectKey, Reselect, Found, Reply, TypeOK
  <2>2. CASE answer' = answer
    BY <2>1, <2>2 DEF ReplayFaithful
  <2>3. CASE answer' # answer
    BY <1>3, <2>1, <2>3, ReplayFound DEF ReplayFaithful
  <2> QED
    BY <2>2, <2>3
<1>4. ASSUME NEW r \in Request,
             Consent(r) \/ AuditDenied(r) \/ AuditLimited(r) \/ Store(r) \/ AuditSent(r) \/ Fail(r)
      PROVE  ReplayFaithful'
  <2>1. /\ UNCHANGED <<req, messages>>
        /\ \A q \in Request \ {r} : answer'[q] = answer[q]
        /\ answer'[r].code # "200" \/ answer' = answer
    BY <1>4 DEF Consent, AuditDenied, AuditLimited, Store, AuditSent, Fail, Raise, Reply, TypeOK
  <2> QED
    BY <2>1 DEF ReplayFaithful
<1>5. ASSUME UNCHANGED <<req, answer>> PROVE ReplayFaithful'
  BY <1>1, <1>5 DEF ReplayFaithful
<1>6. ASSUME NEW r \in Request,
             InsertKey(r) \/ DeleteExpired(r) \/ AuditSkip(r) \/ TakeToken(r) \/ Commit(r)
             \/ CommitFails(r)
      PROVE  UNCHANGED <<req, answer>>
  BY <1>6 DEF InsertKey, DeleteExpired, AuditSkip, TakeToken, Commit, CommitFails
<1>7. ASSUME (\E k \in Key : Expire(k)) \/ Crash \/ UNCHANGED vars
      PROVE  UNCHANGED <<req, answer>>
  BY <1>7 DEF Expire, Crash, vars
<1> QED
  BY <1>2, <1>3, <1>4, <1>5, <1>6, <1>7 DEF Next, Handle, Finished

-----------------------------------------------------------------------------
(* The theorems. *)

\* The inductive invariant holds initially and is kept by every step.
LEMMA InvInit == Init => IInv
<1> SUFFICES ASSUME Init PROVE IInv
  OBVIOUS
<1>1. TypeOK
  BY OutboundAssumption
  DEF Init, TypeOK, PC, NoRow, Row, NoTx, Tx, NoAnswer, Answer, Code
<1>2. Shape /\ Exclusive /\ Undecided /\ DistinctIds
  BY DEF Init, Shape, Exclusive, Undecided, DistinctIds, NoTx, Running, Handling, Claiming
<1>3. Audited /\ Committed /\ KeyHasItsMessage /\ ReplayFaithful
  BY DEF Init, Audited, Committed, KeyHasItsMessage, ReplayFaithful, NoTx, NoAnswer
<1> QED
  BY <1>1, <1>2, <1>3 DEF IInv

\* Every step keeps the inductive invariant, part by part.
LEMMA InvStep == IInv /\ [Next]_vars => IInv'
  BY TypeStep, ShapeStep, LockStep, AuditStep, IdStep, KeyStep, ReplayStep DEF IInv

\* The inductive invariant is an invariant of the handler.
THEOREM Inductive == Spec => []IInv
  BY InvInit, InvStep, PTL DEF Spec

\* The variables of the handler keep their types.
THEOREM TypeCorrect == Spec => []TypeOK
<1>1. IInv => TypeOK
  BY DEF IInv
<1> QED
  BY <1>1, Inductive, PTL

\* However many callers race for however many keys, every committed key row
\* points to the committed message of the request that claimed the key.
THEOREM KeysHaveMessages == Spec => []KeyHasItsMessage
<1>1. IInv => KeyHasItsMessage
  BY DEF IInv
<1> QED
  BY <1>1, Inductive, PTL

\* A replay always names a committed message of the same key and body.
THEOREM ReplaysAreFaithful == Spec => []ReplayFaithful
<1>1. IInv => ReplayFaithful
  BY DEF IInv
<1> QED
  BY <1>1, Inductive, PTL

\* A request that was not accepted leaves neither a message nor a key row.
THEOREM RejectionsLeaveNothing == Spec => []RejectedLeavesNothing
<1>1. IInv => RejectedLeavesNothing
  <2> SUFFICES ASSUME IInv, NEW r \in Request, answer[r].code # "202"
               PROVE  r \notin messages /\ \A k \in Key : keys[k].by # r
    BY DEF RejectedLeavesNothing
  <2>1. r \notin messages
    BY DEF IInv, Committed
  <2>2. \A k \in Key : keys[k] = NoRow \/ keys[k].by \in messages
    BY DEF IInv, KeyHasItsMessage
  <2> QED
    BY <2>1, <2>2, OutboundAssumption DEF NoRow
<1> QED
  BY <1>1, Inductive, PTL

\* Nothing is committed that the audit chain has not recorded as sent.
THEOREM AuditComesFirst == Spec => []AuditedBeforeCommit
<1>1. IInv => AuditedBeforeCommit
  <2> SUFFICES ASSUME IInv, NEW r \in messages
               PROVE  /\ <<"message.send", r>> \in audit
                      /\ <<"message.send.denied", r>> \notin audit
                      /\ <<"outbound.rate_limited", r>> \notin audit
    BY DEF AuditedBeforeCommit
  <2>1. r \in Request /\ answer[r].code = "202" /\ <<"message.send", r>> \in audit
    BY DEF IInv, TypeOK, Committed
  <2> QED
    BY <2>1 DEF IInv, Audited
<1> QED
  BY <1>1, Inductive, PTL

\* No provider message id is queued twice.
THEOREM IdsAreUnique == Spec => []OneMessagePerId
<1>1. IInv => OneMessagePerId
  BY DEF IInv, TypeOK, DistinctIds, OneMessagePerId
<1> QED
  BY <1>1, Inductive, PTL

\* Whoever is waited for is running, and waits for no third one that waits.
THEOREM NobodyWaitsForever == Spec => []WaitsEnd
<1>1. ASSUME IInv
      PROVE  WaitsEnd
  <2> SUFFICES ASSUME NEW q \in Request, NEW r \in Request, WaitsFor(r, q)
               PROVE  /\ pc[q] \in Running
                      /\ \A p \in Request : WaitsFor(q, p) =>
                           \A s \in Request : ~WaitsFor(p, s)
    BY DEF WaitsEnd
  <2> USE <1>1
  <2>1. ASSUME NEW p \in Request, tx[p].msg
        PROVE  pc[p] \in Running /\ \A s \in Request : ~WaitsFor(p, s)
    BY <2>1 DEF IInv, Shape, WaitsFor, Running, Handling
  <2>2. CASE pc[r] = "store"
    BY <2>1, <2>2 DEF WaitsFor
  <2>3. CASE pc[r] # "store"
    <3>1. tx[q].ins \/ tx[q].del
      BY <2>3 DEF WaitsFor
    <3>2. pc[q] \in Running
      BY <3>1 DEF IInv, Shape, Claiming, Running, Handling
    <3>3. ASSUME NEW p \in Request, WaitsFor(q, p)
          PROVE  tx[p].msg
      BY <3>1, <3>3 DEF IInv, Exclusive, WaitsFor
    <3> QED
      BY <2>1, <3>2, <3>3
  <2> QED
    BY <2>2, <2>3
<1> QED
  BY <1>1, Inductive, PTL

-----------------------------------------------------------------------------
(* Live keys. *)

\* Only a commit and the end of the 24 hours touch committed key rows.
LEMMA KeysFrame ==
    ASSUME [Next]_vars
    PROVE  \/ UNCHANGED keys
           \/ \E r \in Request : Commit(r)
           \/ \E k \in Key : Expire(k)
<1>1. ASSUME NEW r \in Request, Arrive(r) \/ Fail(r) \/ CommitFails(r) PROVE keys' = keys
  BY <1>1 DEF Arrive, Fail, CommitFails
<1>2. ASSUME NEW r \in Request, Handle(r), ~Commit(r) PROVE keys' = keys
  BY <1>2 DEF Handle, SelectKey, InsertKey, Reselect, DeleteExpired, Consent, AuditSkip,
              AuditDenied, TakeToken, AuditLimited, Store, AuditSent
<1>3. ASSUME Crash \/ UNCHANGED vars PROVE keys' = keys
  BY <1>3 DEF Crash, vars
<1> QED
  BY <1>1, <1>2, <1>3 DEF Next, Finished

\* A live key row stays with its request and its message until it expires.
THEOREM LiveKeysAreKept == Spec => LiveKeyKept
<1>1. ASSUME IInv, [Next]_vars, NEW k \in Key, keys[k] # NoRow, ~keys[k].expired
      PROVE  keys'[k].by = keys[k].by /\ keys'[k].msg = keys[k].msg
  <2>1. CASE UNCHANGED keys
    BY <2>1
  <2>2. ASSUME NEW r \in Request, Commit(r)
        PROVE  keys'[k] = keys[k]
    <3>1. k = KeyOf(r) => ~tx[r].del /\ ~tx[r].ins
      BY <1>1 DEF IInv, Undecided
    <3> QED
      BY <2>2, <3>1 DEF Commit
  <2>3. ASSUME NEW j \in Key, Expire(j)
        PROVE  keys'[k].by = keys[k].by /\ keys'[k].msg = keys[k].msg
    BY <1>1, <2>3 DEF IInv, TypeOK, Row, Expire
  <2> QED
    BY <1>1, <2>1, <2>2, <2>3, KeysFrame
<1>2. IInv /\ [Next]_vars =>
        [\A k \in Key : keys[k] # NoRow /\ ~keys[k].expired =>
           /\ keys'[k].by = keys[k].by
           /\ keys'[k].msg = keys[k].msg]_vars
  BY <1>1
<1> QED
  BY <1>2, Inductive, PTL DEF Spec, LiveKeyKept

-----------------------------------------------------------------------------
(* Keys that expire. *)

\* A committed row of k that has not expired.
Shown(k) == keys[k] # NoRow /\ ~keys[k].expired

\* What a request may count on about its key, by its place: whoever goes on
\* to store a message holds the key or was late and met a live row, and a row
\* that a rival puts in the way is a live one.
Standing(r) ==
    KeyOf(r) \in Key =>
      /\ pc[r] = "insert" \/ (pc[r] = "select" /\ Late(r))
           => tx[r].del \/ keys[KeyOf(r)] = NoRow \/ Shown(KeyOf(r))
      /\ pc[r] = "delete"
           => keys[KeyOf(r)].by = stale[r] \/ keys[KeyOf(r)] = NoRow \/ Shown(KeyOf(r))
      /\ pc[r] = "reselect" => Shown(KeyOf(r))
      /\ pc[r] \in Claiming \/ tx[r].msg => tx[r].ins \/ (Late(r) /\ Shown(KeyOf(r)))

\* The messages stored since a key last expired: there are some just when its
\* row is live, the row names one, and the others are of late calls.
Windowed(k) ==
    /\ window[k] \subseteq {m \in messages : KeyOf(m) = k}
    /\ Shown(k) => keys[k].by \in window[k]
    /\ window[k] # {} => Shown(k)
    /\ \A m \in window[k] : m # keys[k].by => Late(m)

\* The inductive invariant around expiry, on top of IInv.
ExpiryInv ==
    /\ \A r \in Request : Standing(r)
    /\ \A k \in Key : Windowed(k)

\* A request that is inserting or deleting its key row has no live row before
\* it, and nothing in its window.
LEMMA HolderFindsNothing ==
    ASSUME IInv, ExpiryInv, NEW r \in Request, tx[r].ins \/ tx[r].del
    PROVE  /\ KeyOf(r) \in Key
           /\ ~Shown(KeyOf(r))
           /\ window[KeyOf(r)] = {}
<1>1. KeyOf(r) \in Key
  BY DEF IInv, Shape
<1>2. ~Shown(KeyOf(r))
  BY DEF IInv, Undecided, Shown
<1> QED
  BY <1>1, <1>2 DEF ExpiryInv, Windowed

\* A step of one request that decides no key only has that request's standing
\* to keep.
LEMMA StandingFrame ==
    ASSUME ExpiryInv, NEW r \in Request,
           UNCHANGED <<req, keys, messages, stale, window>>,
           \A q \in Request \ {r} : pc'[q] = pc[q] /\ tx'[q] = tx[q],
           Standing(r)'
    PROVE  ExpiryInv'
<1>1. \A q \in Request \ {r} : Standing(q)'
  BY DEF ExpiryInv, Standing, Shown, Late, KeyOf
<1>2. \A k \in Key : Windowed(k)'
  BY DEF ExpiryInv, Windowed, Shown, Late, KeyOf
<1> QED
  BY <1>1, <1>2 DEF ExpiryInv

\* A call that comes in keeps the standing of the others, and has none to lose.
LEMMA ArriveExpiry ==
    ASSUME IInv, ExpiryInv, NEW r \in Request, Arrive(r)
    PROVE  ExpiryInv'
<1> TypeOK
  BY DEF IInv
<1>1. /\ UNCHANGED <<keys, messages, stale, window, tx>>
      /\ \A q \in Request \ {r} : pc'[q] = pc[q] /\ req'[q] = req[q]
      /\ r \notin messages /\ ~Late(r) /\ ~tx[r].msg
  <2>1. pc[r] = "idle" /\ UNCHANGED <<keys, messages, stale, window, tx>>
    BY DEF Arrive
  <2>2. \A q \in Request \ {r} : pc'[q] = pc[q] /\ req'[q] = req[q]
    BY DEF Arrive, Goto, TypeOK
  <2>3. r \notin messages /\ ~Late(r) /\ ~tx[r].msg
    BY <2>1 DEF IInv, Committed, Shape, Late
  <2> QED
    BY <2>1, <2>2, <2>3
<1>2. Standing(r)'
  <2>1. PICK k \in Key \cup {NoKey}, b \in Body :
          /\ req' = [req EXCEPT ![r] = [key |-> k, body |-> b]]
          /\ pc' = [pc EXCEPT ![r] = IF b \in Malformed THEN "done"
                                     ELSE IF k = NoKey THEN "consent" ELSE "select"]
    BY DEF Arrive, Goto
  <2>2. KeyOf(r)' = k
    BY <2>1 DEF TypeOK, KeyOf
  <2>3. pc'[r] \in {"done", "consent", "select"} /\ (pc'[r] = "consent" => k = NoKey)
    BY <2>1 DEF TypeOK
  <2>4. ~Late(r)'
    BY <1>1 DEF Late
  <2> QED
    BY <1>1, <2>2, <2>3, <2>4, OutboundAssumption DEF Standing, Claiming
<1>3. \A q \in Request \ {r} : Standing(q)'
  BY <1>1 DEF ExpiryInv, Standing, Shown, Late, KeyOf
<1>4. \A m \in messages : m # r /\ KeyOf(m)' = KeyOf(m)
  BY <1>1 DEF TypeOK, KeyOf
<1>5. \A k \in Key : Windowed(k)'
  BY <1>1, <1>4 DEF ExpiryInv, Windowed, Shown, Late
<1> QED
  BY <1>2, <1>3, <1>5 DEF ExpiryInv

\* What a request finds when it looks up its key: nothing, and then it
\* inserts; a live row after it was late, and then it goes on; an expired row,
\* and then it is late and deletes that row; or a live row, which it answers.
LEMMA LookUp ==
    ASSUME IInv, ExpiryInv, NEW r \in Request, SelectKey(r) \/ Reselect(r)
    PROVE  /\ UNCHANGED <<tx, req, keys, messages, window>>
           /\ \A q \in Request \ {r} : pc'[q] = pc[q] /\ stale'[q] = stale[q]
           /\ KeyOf(r) \in Key
           /\ \/ /\ pc'[r] = "insert" /\ UNCHANGED <<answer, stale>>
                 /\ tx[r].del \/ keys[KeyOf(r)] = NoRow
              \/ /\ pc'[r] = "consent" /\ UNCHANGED <<answer, stale>>
                 /\ Late(r) /\ Shown(KeyOf(r))
              \/ /\ pc'[r] = "delete" /\ UNCHANGED answer
                 /\ ~Late(r) /\ keys[KeyOf(r)] # NoRow /\ keys[KeyOf(r)].expired
                 /\ stale' = [stale EXCEPT ![r] = keys[KeyOf(r)].by]
              \/ /\ pc'[r] = "responded" /\ UNCHANGED stale
                 /\ ~Late(r) /\ Shown(KeyOf(r))
<1> TypeOK
  BY DEF IInv
<1>1. KeyOf(r) \in Key
  BY DEF SelectKey, Reselect, IInv, Shape
<1>2. UNCHANGED <<tx, req, keys, messages, window>>
  BY DEF SelectKey, Reselect, Found
<1>3. \A q \in Request \ {r} : pc'[q] = pc[q] /\ stale'[q] = stale[q]
  BY DEF SelectKey, Reselect, Found, Goto, TypeOK
<1>4. CASE Visible(r) = NoRow
  <2>1. tx[r].del \/ keys[KeyOf(r)] = NoRow
    BY <1>4 DEF Visible
  <2>2. ~Reselect(r)
    BY <1>1, <2>1, HolderFindsNothing DEF Reselect, ExpiryInv, Standing, Shown
  <2>3. pc' = [pc EXCEPT ![r] = "insert"] /\ UNCHANGED <<answer, stale>>
    BY <1>4, <2>2 DEF SelectKey, Goto
  <2>4. pc'[r] = "insert"
    BY <2>3 DEF TypeOK
  <2> QED
    BY <1>1, <1>2, <1>3, <2>1, <2>3, <2>4
<1>5. CASE Visible(r) # NoRow
  <2>1. Found(r, Visible(r))
    BY <1>5 DEF SelectKey, Reselect
  <2>2. Visible(r) = keys[KeyOf(r)] /\ keys[KeyOf(r)] # NoRow /\ ~tx[r].del
    BY <1>5 DEF Visible
  <2>3. CASE Late(r)
    <3>1. pc' = [pc EXCEPT ![r] = "consent"] /\ UNCHANGED <<answer, stale>>
      BY <2>1, <2>3 DEF Found, Late, Goto
    <3>2. pc'[r] = "consent"
      BY <3>1 DEF TypeOK
    <3>3. Shown(KeyOf(r))
      BY <1>1, <2>2, <2>3 DEF SelectKey, Reselect, ExpiryInv, Standing
    <3> QED
      BY <1>1, <1>2, <1>3, <2>3, <3>1, <3>2, <3>3
  <2>4. CASE ~Late(r) /\ keys[KeyOf(r)].expired
    <3>1. /\ pc' = [pc EXCEPT ![r] = "delete"]
          /\ stale' = [stale EXCEPT ![r] = keys[KeyOf(r)].by]
          /\ UNCHANGED answer
      BY <2>1, <2>2, <2>4 DEF Found, Late, Goto
    <3>2. pc'[r] = "delete"
      BY <3>1 DEF TypeOK
    <3> QED
      BY <1>1, <1>2, <1>3, <2>2, <2>4, <3>1, <3>2
  <2>5. CASE ~Late(r) /\ ~keys[KeyOf(r)].expired
    <3>1. pc' = [pc EXCEPT ![r] = "responded"] /\ UNCHANGED stale
      BY <2>1, <2>2, <2>5 DEF Found, Late, Goto
    <3>2. pc'[r] = "responded"
      BY <3>1 DEF TypeOK
    <3> QED
      BY <1>1, <1>2, <1>3, <2>2, <2>5, <3>1, <3>2 DEF Shown
  <2> QED
    BY <2>3, <2>4, <2>5
<1> QED
  BY <1>4, <1>5

\* Looking up a key keeps the standing of everyone.
LEMMA LookUpExpiry ==
    ASSUME IInv, ExpiryInv, NEW r \in Request, SelectKey(r) \/ Reselect(r)
    PROVE  ExpiryInv'
<1> TypeOK
  BY DEF IInv
<1>1. UNCHANGED <<tx, req, keys, messages, window>>
  BY LookUp
<1>2. \A q \in Request \ {r} : pc'[q] = pc[q] /\ stale'[q] = stale[q]
  BY LookUp
<1>3. Late(r) => Late(r)'
  BY LookUp DEF Late
<1>4. ~tx[r].msg
  BY DEF SelectKey, Reselect, IInv, Shape
<1>5. Standing(r)'
  <2>1. CASE pc'[r] = "insert"
    BY <1>1, <1>4, <2>1, LookUp DEF Standing, Claiming, Shown, KeyOf
  <2>2. CASE pc'[r] = "consent"
    BY <1>1, <1>3, <1>4, <2>2, LookUp DEF Standing, Claiming, Shown, KeyOf
  <2>3. CASE pc'[r] = "delete"
    <3>1. stale'[r] = keys[KeyOf(r)].by
      BY <2>3, LookUp DEF TypeOK
    <3> QED
      BY <1>1, <1>4, <2>3, <3>1 DEF Standing, Claiming, KeyOf
  <2>4. CASE pc'[r] = "responded"
    BY <1>1, <1>4, <2>4 DEF Standing, Claiming, KeyOf
  <2> QED
    BY <2>1, <2>2, <2>3, <2>4, LookUp
<1>6. \A q \in Request \ {r} : Standing(q)'
  BY <1>1, <1>2 DEF ExpiryInv, Standing, Shown, Late, KeyOf
<1>7. \A m \in messages : Late(m) => Late(m)'
  BY <1>2, <1>3 DEF Late, TypeOK
<1>8. \A k \in Key : Windowed(k)'
  BY <1>1, <1>7 DEF ExpiryInv, Windowed, Shown, KeyOf
<1> QED
  BY <1>5, <1>6, <1>8 DEF ExpiryInv

\* A commit inserts the row of an accepted request, deletes an expired row,
\* or leaves the row alone.
LEMMA CommitRow ==
    ASSUME IInv, ExpiryInv, NEW r \in Request, Commit(r)
    PROVE  /\ \A k \in Key : k # KeyOf(r) => keys'[k] = keys[k] /\ window'[k] = window[k]
           /\ KeyOf(r) \in Key =>
                \/ /\ tx[r].ins /\ tx[r].msg /\ window'[KeyOf(r)] = {r}
                   /\ keys'[KeyOf(r)].by = r /\ ~keys'[KeyOf(r)].expired
                   /\ ~Shown(KeyOf(r)) /\ keys'[KeyOf(r)] # NoRow
                \/ /\ ~tx[r].msg /\ window'[KeyOf(r)] = {} /\ window[KeyOf(r)] = {}
                   /\ keys'[KeyOf(r)] = NoRow
                   /\ ~Shown(KeyOf(r))
                \/ /\ tx[r].msg /\ Late(r) /\ Shown(KeyOf(r))
                   /\ window'[KeyOf(r)] = window[KeyOf(r)] \cup {r}
                   /\ keys'[KeyOf(r)] = keys[KeyOf(r)]
                \/ /\ ~tx[r].msg /\ window'[KeyOf(r)] = window[KeyOf(r)]
                   /\ keys'[KeyOf(r)] = keys[KeyOf(r)]
<1>1. \A k \in Key : k # KeyOf(r) => keys'[k] = keys[k] /\ window'[k] = window[k]
  BY DEF Commit
<1>2. ASSUME KeyOf(r) \in Key, tx[r].ins
      PROVE  /\ tx[r].msg /\ window'[KeyOf(r)] = {r}
             /\ keys'[KeyOf(r)].by = r /\ ~keys'[KeyOf(r)].expired
             /\ ~Shown(KeyOf(r)) /\ keys'[KeyOf(r)] # NoRow
  <2>1. tx[r].msg
    BY <1>2 DEF Commit, IInv, Shape
  <2>2. window[KeyOf(r)] = {} /\ ~Shown(KeyOf(r))
    BY <1>2, HolderFindsNothing
  <2>3. keys'[KeyOf(r)] = OwnRow(r)
    BY <1>2 DEF Commit
  <2>4. OwnRow(r).by = r /\ ~OwnRow(r).expired /\ OwnRow(r) # NoRow
    BY OutboundAssumption DEF OwnRow, NoRow
  <2>5. window'[KeyOf(r)] = {r}
    BY <1>2, <2>1, <2>2 DEF Commit
  <2> QED
    BY <2>1, <2>2, <2>3, <2>4, <2>5
<1>3. ASSUME KeyOf(r) \in Key, ~tx[r].ins, tx[r].del
      PROVE  /\ ~tx[r].msg /\ window'[KeyOf(r)] = {} /\ window[KeyOf(r)] = {}
             /\ keys'[KeyOf(r)] = NoRow
             /\ ~Shown(KeyOf(r))
  <2>1. window[KeyOf(r)] = {} /\ ~Shown(KeyOf(r))
    BY <1>3, HolderFindsNothing
  <2>2. ~tx[r].msg
    BY <1>3, <2>1 DEF ExpiryInv, Standing
  <2> QED
    BY <1>3, <2>1, <2>2 DEF Commit
<1>4. ASSUME KeyOf(r) \in Key, ~tx[r].ins, ~tx[r].del
      PROVE  /\ tx[r].msg => Late(r) /\ Shown(KeyOf(r))
             /\ window'[KeyOf(r)] = IF tx[r].msg THEN window[KeyOf(r)] \cup {r}
                                                 ELSE window[KeyOf(r)]
             /\ keys'[KeyOf(r)] = keys[KeyOf(r)]
  BY <1>4 DEF Commit, ExpiryInv, Standing
<1> QED
  BY <1>1, <1>2, <1>3, <1>4

\* A commit keeps the standing of everyone: a live row is left alone, and
\* where there is none, a row that comes is live.
LEMMA CommitExpiry ==
    ASSUME IInv, ExpiryInv, NEW r \in Request, Commit(r)
    PROVE  ExpiryInv'
<1> TypeOK
  BY DEF IInv
<1>1. /\ UNCHANGED <<req, stale>>
      /\ messages' = IF tx[r].msg THEN messages \cup {r} ELSE messages
      /\ \A q \in Request \ {r} : pc'[q] = pc[q] /\ tx'[q] = tx[q]
      /\ pc'[r] = "done" /\ ~tx'[r].msg
  BY DEF Commit, EndTx, Goto, NoTx, TypeOK
<1>2. \A k \in Key : Shown(k) => keys'[k] = keys[k]
  BY CommitRow DEF Shown
<1>3. \A k \in Key : \/ keys'[k] = keys[k]
                     \/ keys'[k] = NoRow
                     \/ Shown(k)'
  BY CommitRow DEF Shown
<1>4. \A k \in Key : Shown(k) => Shown(k)'
  BY <1>2 DEF Shown
<1>5. ASSUME NEW q \in Request PROVE Standing(q)'
  <2>1. CASE q = r
    BY <1>1, <2>1 DEF Standing, Claiming
  <2>2. CASE q # r
    <3>1. /\ pc'[q] = pc[q] /\ tx'[q] = tx[q] /\ KeyOf(q)' = KeyOf(q)
          /\ Late(q)' = Late(q) /\ stale'[q] = stale[q]
      BY <1>1, <2>2 DEF KeyOf, Late
    <3>2. Standing(q)
      BY DEF ExpiryInv
    <3> QED
      BY <1>2, <1>3, <1>4, <3>1, <3>2 DEF Standing
  <2> QED
    BY <2>1, <2>2
<1>6. ASSUME NEW k \in Key PROVE Windowed(k)'
  <2>1. Windowed(k)
    BY DEF ExpiryInv
  <2>2. /\ messages \subseteq messages'
        /\ \A m \in Request : KeyOf(m)' = KeyOf(m) /\ Late(m)' = Late(m)
    BY <1>1 DEF KeyOf, Late
  <2>3. CASE k # KeyOf(r)
    BY <2>1, <2>2, <2>3, CommitRow DEF Windowed, Shown, TypeOK
  <2>4. CASE k = KeyOf(r)
    <3>1. CASE tx[r].ins /\ tx[r].msg
      <4>1. ~Shown(KeyOf(r)) /\ KeyOf(r) \in Key
        BY <3>1, HolderFindsNothing
      <4>2. window'[k] = {r} /\ keys'[k].by = r /\ ~keys'[k].expired /\ keys'[k] # NoRow
        BY <2>4, <3>1, <4>1, CommitRow
      <4>3. Shown(k)'
        BY <4>2 DEF Shown
      <4> QED
        BY <1>1, <2>2, <2>4, <3>1, <4>2, <4>3 DEF Windowed
    <3>2. CASE window'[k] = {} /\ keys'[k] = NoRow
      BY <3>2 DEF Windowed, Shown
    <3>3. CASE /\ tx[r].msg /\ Late(r) /\ Shown(k)
               /\ window'[k] = window[k] \cup {r}
               /\ keys'[k] = keys[k]
      BY <1>1, <1>4, <2>1, <2>2, <2>4, <3>3 DEF Windowed, TypeOK
    <3>4. CASE window'[k] = window[k] /\ keys'[k] = keys[k]
      BY <2>1, <2>2, <3>4 DEF Windowed, Shown, TypeOK
    <3> QED
      BY <2>4, <3>1, <3>2, <3>3, <3>4, CommitRow
  <2> QED
    BY <2>3, <2>4
<1> QED
  BY <1>5, <1>6 DEF ExpiryInv

\* When a key expires, its window closes with no one between it and a message.
LEMMA ExpireExpiry ==
    ASSUME IInv, ExpiryInv, NEW k \in Key, Expire(k)
    PROVE  ExpiryInv'
<1> TypeOK
  BY DEF IInv
<1>1. /\ UNCHANGED <<pc, req, messages, tx, stale>>
      /\ \A j \in Key \ {k} : keys'[j] = keys[j] /\ window'[j] = window[j]
      /\ window'[k] = {}
  BY DEF Expire, TypeOK
<1>2. ~Shown(k)'
  <2>1. keys'[k] = [keys[k] EXCEPT !.expired = TRUE] /\ keys[k] \in Row
    BY DEF Expire, TypeOK
  <2>2. keys'[k].expired
    BY <2>1 DEF Row
  <2> QED
    BY <2>2 DEF Shown
<1>3. ASSUME NEW q \in Request PROVE Standing(q)'
  <2>1. CASE KeyOf(q) = k
    <3>1. pc[q] = "done" \/ (pc[q] = "select" /\ ~Late(q))
      BY <2>1 DEF Expire, Late
    <3>2. ~tx[q].msg
      BY <3>1 DEF IInv, Shape
    <3> QED
      BY <1>1, <3>1, <3>2 DEF Standing, Claiming, Late
  <2>2. CASE KeyOf(q) # k
    BY <1>1, <2>2 DEF ExpiryInv, Standing, Shown, Late, KeyOf
  <2> QED
    BY <2>1, <2>2
<1>4. ASSUME NEW j \in Key PROVE Windowed(j)'
  BY <1>1, <1>2 DEF ExpiryInv, Windowed, Shown, Late, KeyOf
<1> QED
  BY <1>3, <1>4 DEF ExpiryInv

\* Every step keeps the standing of everyone.
LEMMA ExpiryStep ==
    ASSUME IInv, ExpiryInv, [Next]_vars
    PROVE  ExpiryInv'
<1> USE DEF Goto
<1> TypeOK
  BY DEF IInv
<1>1. ASSUME NEW r \in Request, InsertKey(r) PROVE ExpiryInv'
  <2>1. UNCHANGED <<req, keys, messages, stale, window>> /\ KeyOf(r) \in Key
    BY <1>1 DEF InsertKey, IInv, Shape
  <2>2. CASE Visible(r) = NoRow
    <3>1. tx' = [tx EXCEPT ![r].ins = TRUE] /\ pc' = [pc EXCEPT ![r] = "consent"]
      BY <1>1, <2>2 DEF InsertKey
    <3>2. /\ tx'[r].ins /\ pc'[r] = "consent"
          /\ \A q \in Request \ {r} : pc'[q] = pc[q] /\ tx'[q] = tx[q]
      BY <3>1 DEF TypeOK, Tx
    <3> QED
      BY <2>1, <3>2, StandingFrame DEF Standing
  <2>3. CASE Visible(r) # NoRow
    <3>1. tx' = [tx EXCEPT ![r] = NoTx] /\ pc' = [pc EXCEPT ![r] = "reselect"]
      BY <1>1, <2>3 DEF InsertKey, EndTx
    <3>2. /\ ~tx'[r].msg /\ pc'[r] = "reselect"
          /\ \A q \in Request \ {r} : pc'[q] = pc[q] /\ tx'[q] = tx[q]
      BY <3>1 DEF TypeOK, NoTx
    <3>3. Shown(KeyOf(r))
      BY <1>1, <2>1, <2>3 DEF InsertKey, Visible, ExpiryInv, Standing
    <3>4. Shown(KeyOf(r))'
      BY <2>1, <3>3 DEF Shown, KeyOf
    <3> QED
      BY <2>1, <3>2, <3>4, StandingFrame DEF Standing, Claiming
  <2> QED
    BY <2>2, <2>3
<1>2. ASSUME NEW r \in Request, DeleteExpired(r) PROVE ExpiryInv'
  <2>1. /\ UNCHANGED <<req, keys, messages, stale, window>> /\ KeyOf(r) \in Key
        /\ tx' = [tx EXCEPT ![r].del = (keys[KeyOf(r)].by = stale[r])]
        /\ pc' = [pc EXCEPT ![r] = "select"]
    BY <1>2 DEF DeleteExpired, IInv, Shape
  <2>2. /\ tx'[r].del = (keys[KeyOf(r)].by = stale[r])
        /\ tx'[r].msg = tx[r].msg
        /\ pc'[r] = "select"
        /\ \A q \in Request \ {r} : pc'[q] = pc[q] /\ tx'[q] = tx[q]
    BY <2>1 DEF TypeOK, Tx
  <2>3. ~tx[r].msg
    BY <1>2 DEF DeleteExpired, IInv, Shape
  <2>4. tx'[r].del \/ keys[KeyOf(r)] = NoRow \/ Shown(KeyOf(r))
    BY <1>2, <2>1, <2>2 DEF DeleteExpired, ExpiryInv, Standing
  <2>5. Standing(r)'
    BY <2>1, <2>2, <2>3, <2>4 DEF Standing, Claiming, Shown, KeyOf
  <2> QED
    BY <2>1, <2>2, <2>5, StandingFrame
<1>3. ASSUME NEW r \in Request,
             Consent(r) \/ AuditSkip(r) \/ AuditDenied(r) \/ TakeToken(r) \/ AuditLimited(r)
             \/ Store(r) \/ AuditSent(r) \/ Fail(r) \/ CommitFails(r)
      PROVE  ExpiryInv'
  <2>1. UNCHANGED <<req, keys, messages, stale, window>>
    BY <1>3 DEF Consent, AuditSkip, AuditDenied, TakeToken, AuditLimited, Store, AuditSent,
                Fail, CommitFails
  <2>2. \A q \in Request \ {r} : pc'[q] = pc[q] /\ tx'[q] = tx[q]
    BY <1>3 DEF Consent, AuditSkip, AuditDenied, TakeToken, AuditLimited, Store, AuditSent,
                Fail, CommitFails, Raise, EndTx, TypeOK
  <2>3. \/ pc'[r] \in {"done", "responded"} /\ (tx'[r].msg => tx'[r] = tx[r])
        \/ pc[r] \in Claiming /\ pc'[r] \in Claiming /\ tx'[r].ins = tx[r].ins
    <3>1. CASE AuditDenied(r) \/ Fail(r) \/ CommitFails(r)
      BY <3>1 DEF AuditDenied, Fail, CommitFails, Raise, EndTx, NoTx, TypeOK
    <3>2. CASE Consent(r)
      <4>1. CASE req[r].body \in Unaddressed
        BY <3>2, <4>1 DEF Consent, Raise, EndTx, NoTx, TypeOK
      <4>2. CASE req[r].body \notin Unaddressed
        BY <3>2, <4>2 DEF Consent, TypeOK, Claiming
      <4> QED
        BY <4>1, <4>2
    <3>3. CASE AuditSkip(r) \/ TakeToken(r)
      BY <3>3 DEF AuditSkip, TakeToken, TypeOK, Claiming
    <3>4. CASE AuditSent(r)
      BY <3>4 DEF AuditSent, TypeOK
    <3>5. CASE AuditLimited(r)
      <4>1. ~tx[r].msg
        BY <3>5 DEF AuditLimited, IInv, Shape
      <4> QED
        BY <3>5, <4>1 DEF AuditLimited, TypeOK, Tx
    <3>6. CASE Store(r)
      <4>1. CASE \E m \in messages : IdOf(m) = IdOf(r)
        BY <3>6, <4>1 DEF Store, Raise, EndTx, NoTx, TypeOK
      <4>2. CASE ~ \E m \in messages : IdOf(m) = IdOf(r)
        <5>1. /\ tx' = [tx EXCEPT ![r].msg = TRUE]
              /\ pc' = [pc EXCEPT ![r] = "audit"]
              /\ pc[r] = "store"
          BY <3>6, <4>2 DEF Store
        <5> QED
          BY <5>1 DEF TypeOK, Tx, Claiming
      <4> QED
        BY <4>1, <4>2
    <3> QED
      BY <1>3, <3>1, <3>2, <3>3, <3>4, <3>5, <3>6
  <2>4. Standing(r)'
    <3>1. Standing(r)
      BY DEF ExpiryInv
    <3>2. KeyOf(r)' = KeyOf(r) /\ Late(r)' = Late(r) /\ Shown(KeyOf(r))' = Shown(KeyOf(r))
      BY <2>1 DEF KeyOf, Late, Shown
    <3> QED
      BY <2>3, <3>1, <3>2 DEF Standing, Claiming
  <2> QED
    BY <2>1, <2>2, <2>4, StandingFrame
<1>4. CASE Crash
  <2>1. /\ UNCHANGED <<req, keys, messages, stale, window>>
        /\ \A q \in Request : ~tx'[q].msg /\ pc'[q] \in {"idle", "done"}
    BY <1>4 DEF Crash, NoTx, TypeOK, PC, Running
  <2>2. \A q \in Request : Standing(q)'
    BY <2>1 DEF Standing, Claiming
  <2>3. \A k \in Key : Windowed(k)'
    BY <2>1 DEF ExpiryInv, Windowed, Shown, Late, KeyOf
  <2> QED
    BY <2>2, <2>3 DEF ExpiryInv
<1>5. CASE UNCHANGED vars
  BY <1>5 DEF vars, ExpiryInv, Standing, Windowed, Shown, Late, KeyOf
<1> QED
  BY <1>1, <1>2, <1>3, <1>4, <1>5, ArriveExpiry, LookUpExpiry, CommitExpiry, ExpireExpiry
  DEF Next, Handle, Finished

\* The invariant around expiry holds throughout.
LEMMA ExpiryInductive == Spec => [](IInv /\ ExpiryInv)
<1>1. Init => ExpiryInv
  BY DEF Init, ExpiryInv, Standing, Windowed, Shown, Late, NoRow, NoTx, Claiming
<1>2. IInv /\ ExpiryInv /\ [Next]_vars => ExpiryInv'
  BY ExpiryStep
<1> QED
  BY <1>1, <1>2, InvInit, InvStep, PTL DEF Spec

\* However its calls race, fail, crash and are retried, the messages stored
\* since a key last expired are one the live row names and those of late calls.
THEOREM OnlyLateCallsRepeat == Spec => []OnlyLateTwins
<1>1. ExpiryInv => OnlyLateTwins
  BY DEF ExpiryInv, Windowed, Shown, OnlyLateTwins
<1> QED
  BY <1>1, ExpiryInductive, PTL

\* No committed key row has expired yet.
NothingExpired == \A k \in Key : ~keys[k].expired

\* In a run in which no key has expired, a key is worth at most one message,
\* however its calls race, fail, crash and are retried.
THEOREM KeysAreWorthOneMessage == Spec /\ []NothingExpired => []OneMessagePerKey
<1> DEFINE NobodyLate == \A r \in Request : ~Late(r)
<1>1. Init => NobodyLate
  BY DEF Init, Late
<1>2. IInv /\ ExpiryInv /\ NothingExpired /\ NobodyLate /\ [Next]_vars => NobodyLate'
  <2> SUFFICES ASSUME IInv, ExpiryInv, NothingExpired, NobodyLate, [Next]_vars
               PROVE  NobodyLate'
    OBVIOUS
  <2>1. ASSUME NEW r \in Request, SelectKey(r) \/ Reselect(r) PROVE UNCHANGED stale
    BY <2>1, LookUp DEF NothingExpired
  <2>2. ASSUME NEW r \in Request,
               Arrive(r) \/ InsertKey(r) \/ DeleteExpired(r) \/ Consent(r) \/ AuditSkip(r)
               \/ AuditDenied(r) \/ TakeToken(r) \/ AuditLimited(r) \/ Store(r)
               \/ AuditSent(r) \/ Commit(r) \/ Fail(r) \/ CommitFails(r)
        PROVE  UNCHANGED stale
    BY <2>2 DEF Arrive, InsertKey, DeleteExpired, Consent, AuditSkip, AuditDenied, TakeToken,
                AuditLimited, Store, AuditSent, Commit, Fail, CommitFails
  <2>3. ASSUME (\E k \in Key : Expire(k)) \/ Crash \/ UNCHANGED vars
        PROVE  UNCHANGED stale
    BY <2>3 DEF Expire, Crash, vars
  <2>4. UNCHANGED stale
    BY <2>1, <2>2, <2>3 DEF Next, Handle, Finished
  <2> QED
    BY <2>4 DEF Late
<1>3. IInv /\ ExpiryInv /\ NobodyLate => OneMessagePerKey
  BY DEF IInv, TypeOK, ExpiryInv, Windowed, OneMessagePerKey
<1> HIDE DEF NobodyLate
<1> QED
  BY <1>1, <1>2, <1>3, ExpiryInductive, PTL DEF Spec

-----------------------------------------------------------------------------
(* The handler implements what a retrying caller is promised. *)

\* A step that changes nothing the promise is about.
LEMMA PromiseFrame ==
    ASSUME UNCHANGED <<req, answer, messages, window, stale>>
    PROVE  [Promise!Next]_(Promise!vars)
  BY DEF Promise!vars, Late

\* A request is refused: nothing but its answer changes.
LEMMA PromiseRefuse ==
    ASSUME IInv, NEW r \in Request, pc[r] \notin {"responded", "done"},
           NEW c \in {"400", "409", "429", "500"}, Reply(r, c, NoRequest),
           UNCHANGED <<req, messages, window, stale>>
    PROVE  Promise!Refuse(r)
  BY DEF IInv, Shape, Reply, Promise!Refuse, Promise!None, NoAnswer, Late

\* A request looks up its key: it finds it expired, it is answered from the
\* live row, or nothing comes of it yet.
LEMMA PromiseLookUp ==
    ASSUME IInv, ExpiryInv, NEW r \in Request, SelectKey(r) \/ Reselect(r)
    PROVE  \/ UNCHANGED <<req, answer, messages, window, stale>>
           \/ Promise!FindExpired(r) \/ Promise!Conflict(r) \/ Promise!Replay(r)
<1> TypeOK
  BY DEF IInv
<1>1. UNCHANGED <<req, messages, window>>
  BY LookUp
<1>2. KeyOf(r) \in Key /\ answer[r] = NoAnswer
  BY DEF SelectKey, Reselect, IInv, Shape
<1> DEFINE row == keys[KeyOf(r)]
<1>3. ASSUME row # NoRow
      PROVE  /\ row.by \in messages /\ row.by \in Request
             /\ KeyOf(row.by) = KeyOf(r) /\ row.msg = row.by
  BY <1>2, <1>3 DEF IInv, KeyHasItsMessage, TypeOK
<1>4. CASE stale' # stale
  <2>1. /\ ~Late(r) /\ row # NoRow /\ row.expired /\ UNCHANGED answer
        /\ stale' = [stale EXCEPT ![r] = row.by]
    BY <1>4, LookUp
  <2>2. window[KeyOf(r)] = {}
    BY <1>2, <2>1 DEF ExpiryInv, Windowed, Shown
  <2>3. {q \in Request : Late(q)}' = {q \in Request : Late(q)} \cup {r}
    BY <1>3, <2>1, OutboundAssumption DEF Late, TypeOK
  <2> QED
    BY <1>1, <1>2, <1>3, <2>1, <2>2, <2>3
    DEF Promise!FindExpired, Promise!None, Promise!KeyOf, NoAnswer, KeyOf
<1>5. CASE stale' = stale /\ answer' # answer
  <2>1. ~Late(r) /\ Shown(KeyOf(r)) /\ row # NoRow /\ ~row.expired
    BY <1>4, <1>5, LookUp DEF Shown
  <2>2. row.by \in window[KeyOf(r)]
    BY <1>2, <2>1 DEF ExpiryInv, Windowed
  <2>3. Visible(r) = row /\ Found(r, row)
    BY <1>5 DEF SelectKey, Reselect, Found, Visible
  <2>4. r \notin {q \in Request : Late(q)} /\ {q \in Request : Late(q)}' = {q \in Request : Late(q)}
    BY <1>5, <2>1 DEF Late
  <2>5. CASE req[row.by].body # req[r].body
    <3>1. Reply(r, "422", NoRequest)
      BY <1>5, <2>3, <2>5 DEF Found
    <3>2. Promise!Conflict(r)
      BY <1>1, <1>2, <2>2, <2>4, <2>5, <3>1
      DEF Reply, KeyOf, NoAnswer, Promise!Conflict, Promise!None, Promise!KeyOf
    <3> QED
      BY <3>2
  <2>6. CASE req[row.by].body = req[r].body
    <3>1. Reply(r, "200", row.by)
      BY <1>3, <1>5, <2>1, <2>3, <2>6 DEF Found
    <3>2. req[row.by] = req[r]
      BY <1>3, <2>1, <2>6, SameRequest
    <3>3. Promise!Replay(r)
      BY <1>1, <1>2, <2>2, <2>4, <3>1, <3>2
      DEF Reply, KeyOf, NoAnswer, Promise!Replay, Promise!None, Promise!KeyOf
    <3> QED
      BY <3>3
  <2> QED
    BY <2>5, <2>6
<1>6. CASE stale' = stale /\ answer' = answer
  BY <1>1, <1>6
<1> QED
  BY <1>4, <1>5, <1>6

\* A commit stores the message of an accepted request: no message has its
\* provider id, and none of the key's live messages is in its way.
LEMMA PromiseCommit ==
    ASSUME IInv, ExpiryInv, NEW r \in Request, Commit(r)
    PROVE  UNCHANGED <<req, answer, messages, window, stale>> \/ Promise!Store(r)
<1> TypeOK
  BY DEF IInv
<1>1. UNCHANGED <<req, answer, stale>>
  BY DEF Commit
<1>2. CASE ~tx[r].msg
  <2>1. UNCHANGED messages
    BY <1>2 DEF Commit
  <2>2. window' = [k \in Key |-> window[k]]
    BY <1>2 DEF Commit
  <2>3. UNCHANGED window
    BY <2>2 DEF TypeOK
  <2> QED
    BY <1>1, <2>1, <2>3
<1>3. CASE tx[r].msg
  <2>1. messages' = messages \cup {r} /\ r \notin messages
    BY <1>3 DEF Commit, IInv, Committed
  <2>2. answer[r] = [code |-> "202", msg |-> r]
    <3>1. answer[r].code = "202" /\ answer[r].msg = r
      BY <1>3 DEF Commit, IInv, Shape
    <3> QED
      BY <3>1 DEF TypeOK, Answer
  <2>3. \A m \in messages : IdOf(m) # IdOf(r)
    BY <1>3, <2>1 DEF IInv, DistinctIds, TypeOK
  <2>4. KeyOf(r) \in Key => window[KeyOf(r)] = {} \/ r \in {q \in Request : Late(q)}
    BY <1>3, HolderFindsNothing DEF ExpiryInv, Standing
  <2>5. window' = [k \in Key |-> IF k = KeyOf(r) THEN window[k] \cup {r} ELSE window[k]]
    BY <1>3 DEF Commit
  <2>6. {q \in Request : Late(q)}' = {q \in Request : Late(q)}
    BY <1>1 DEF Late
  <2> QED
    BY <1>1, <2>1, <2>2, <2>3, <2>4, <2>5, <2>6
    DEF Promise!Store, Promise!IdOf, Promise!KeyOf, IdOf, KeyOf
<1> QED
  BY <1>2, <1>3

\* POST /outbound keeps the promise to retrying callers, expiry included.
THEOREM PromiseKept == Spec => KeepsPromise
<1>1. Init => Promise!Init
  BY DEF Init, Promise!Init, Promise!None, NoAnswer, Late
<1>2. ASSUME IInv, ExpiryInv, [Next]_vars
      PROVE  [Promise!Next]_(Promise!vars)
  <2> TypeOK
    BY <1>2 DEF IInv
  <2>1. ASSUME NEW r \in Request, Arrive(r) PROVE Promise!Ask(r)
    <3>1. answer[r] = NoAnswer /\ r \notin messages /\ ~Late(r)
      BY <1>2, <2>1 DEF Arrive, IInv, Shape, Committed, Late
    <3>2. UNCHANGED <<messages, window, stale>>
      BY <2>1 DEF Arrive
    <3>3. {q \in Request : Late(q)}' = {q \in Request : Late(q)}
      BY <3>2 DEF Late
    <3> QED
      BY <2>1, <3>1, <3>2, <3>3 DEF Arrive, Reply, Promise!Ask, Promise!None, NoAnswer
  <2>2. ASSUME NEW r \in Request,
               InsertKey(r) \/ DeleteExpired(r) \/ AuditSkip(r) \/ TakeToken(r) \/ CommitFails(r)
        PROVE  UNCHANGED <<req, answer, messages, window, stale>>
    BY <2>2 DEF InsertKey, DeleteExpired, AuditSkip, TakeToken, CommitFails
  <2>3. ASSUME NEW r \in Request,
               Consent(r) \/ AuditDenied(r) \/ AuditLimited(r) \/ Store(r) \/ Fail(r)
        PROVE  UNCHANGED <<req, answer, messages, window, stale>> \/ Promise!Refuse(r)
    <3>1. UNCHANGED <<req, messages, window, stale>> /\ pc[r] \notin {"responded", "done"}
      BY <2>3 DEF Consent, AuditDenied, AuditLimited, Store, Fail, Handling
    <3>2. \/ UNCHANGED answer
          \/ \E c \in {"400", "409", "429", "500"} : Reply(r, c, NoRequest)
      BY <2>3 DEF Consent, AuditDenied, AuditLimited, Store, Fail, Raise
    <3> QED
      BY <1>2, <3>1, <3>2, PromiseRefuse
  <2>4. ASSUME NEW r \in Request, AuditSent(r) PROVE Promise!Accept(r)
    BY <1>2, <2>4
    DEF AuditSent, IInv, Shape, Reply, Promise!Accept, Promise!None, NoAnswer, Late
  <2>5. ASSUME NEW k \in Key, Expire(k) PROVE Promise!Expire(k)
    <3>1. window[k] # {}
      BY <1>2, <2>5 DEF Expire, ExpiryInv, Windowed, Shown
    <3> QED
      BY <2>5, <3>1 DEF Expire, Promise!Expire, Late
  <2>6. ASSUME Crash \/ UNCHANGED vars
        PROVE  UNCHANGED <<req, answer, messages, window, stale>>
    BY <2>6 DEF Crash, vars
  <2> QED
    BY <1>2, <2>1, <2>2, <2>3, <2>4, <2>5, <2>6, PromiseFrame, PromiseLookUp, PromiseCommit
    DEF Next, Handle, Finished, Promise!Next
<1> QED
  BY <1>1, <1>2, ExpiryInductive, PTL DEF Spec, KeepsPromise, Promise!Spec
=============================================================================
