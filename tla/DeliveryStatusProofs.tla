------------------------ MODULE DeliveryStatusProofs ------------------------
(***************************************************************************)
(* Proofs about DeliveryStatus, for any notices, messages and batches.     *)
(* SInv is the inductive invariant.                                        *)
(***************************************************************************)
EXTENDS DeliveryStatus, FiniteSetTheorems, TLAPS

Live == Working \cup {"responded"}

\* Some event of es announces status s of message m.
Told(es, m, s) == \E i \in 1 .. Len(es) : es[i].msg = m /\ es[i].status = s

\* What is queued and answered, by the place of the coroutine.
Shape ==
    \A n \in Notice :
        /\ pc[n] \in Working => item[n] \in 1 .. Len(Batch[n]) /\ answer[n] = "none"
        /\ pc[n] = "new" => answer[n] = "none"
        /\ pc[n] = "responded" => answer[n] = "ok"
        /\ pc[n] = "audit" => Now(n).kind \notin {"read", "other"}
        /\ pc[n] \notin Live => queued[n] = <<>>
        /\ pc[n] = "find" => Len(queued[n]) < item[n]
        /\ pc[n] = "audit" => Len(queued[n]) <= item[n]
        /\ pc[n] = "responded" => Len(queued[n]) <= Len(Batch[n])

\* A session has loaded only rows there are, and nothing else to write.
Objects ==
    \A n \in Notice, m \in Message :
        /\ loaded[n][m] = Absent <=> dirty[n][m] = Absent
        /\ loaded[n][m] # Absent => rows[m] # Absent

\* A status that a session will write is announced by an event it has queued.
Caused ==
    \A n \in Notice, m \in Message :
        dirty[n][m].status # loaded[n][m].status => Told(queued[n], m, dirty[n][m].status)

\* What a notice has queued is audited, but for the status it is at.
Reads(n) == \E j \in DOMAIN Batch[n] : Batch[n][j].kind = "read"

Recorded ==
    \A n \in Notice : \A i \in 1 .. Len(queued[n]) :
        /\ queued[n][i].by = n
        /\ \/ Reads(n)
           \/ <<queued[n][i].msg, queued[n][i].status, n>> \in audit
           \/ /\ pc[n] = "audit"
              /\ queued[n][i].msg = Now(n).msg
              /\ queued[n][i].status = Announced(n)

\* Only notices that are done for good have events.
Finished ==
    \A i \in 1 .. Len(log) : pc[log[i].by] = "done" /\ answer[log[i].by] = "ok"

SInv ==
    /\ TypeOK /\ Shape /\ Objects /\ Caused /\ Recorded /\ Finished
    /\ StatusAnnounced /\ StatusAudited /\ AnnouncedOnce

-----------------------------------------------------------------------------
\* A batch is a sequence of items.
LEMMA BatchType ==
    ASSUME NEW n \in Notice
    PROVE  /\ Len(Batch[n]) \in Nat
           /\ DOMAIN Batch[n] = 1 .. Len(Batch[n])
           /\ \A i \in 1 .. Len(Batch[n]) : Batch[n][i] \in Item
           /\ Batch[n] = <<>> <=> Len(Batch[n]) = 0
<1>1. Batch[n] \in Seq(Item)
  BY DeliveryStatusAssumption
<1> QED
  BY <1>1

\* A row that is there is not the absent one.
LEMMA RowType ==
    /\ Absent \notin Row
    /\ \A r \in Row : /\ r.status \in Status
                      /\ r.detail \in Notice \cup {NoNotice}
                      /\ r.at \in Notice \cup {NoNotice}
                      /\ r = [status |-> r.status, detail |-> r.detail, at |-> r.at]
BY DEF Absent, Row, Status

\* The status at hand is one of the batch, and one that can be stored.
LEMMA ItemType ==
    ASSUME NEW n \in Notice, item[n] \in 1 .. Len(Batch[n])
    PROVE  /\ Now(n) \in Item
           /\ Now(n).kind # "other" => Announced(n) \in Status
           /\ Now(n).kind = "read" => Reads(n)
<1>1. Now(n) \in Item
  BY BatchType DEF Now
<1>2. Now(n).kind \in Kind
  BY <1>1 DEF Item
<1>3. Now(n).kind # "other" => Announced(n) \in Status
  BY <1>2 DEF Announced, StatusOf, Kind, Status
<1>4. Now(n).kind = "read" => Reads(n)
  BY BatchType DEF Reads, Now
<1> QED
  BY <1>1, <1>3, <1>4

\* What is written is a row; if it has another status, that is announced.
LEMMA WrittenType ==
    ASSUME NEW n \in Notice, item[n] \in 1 .. Len(Batch[n]), Now(n).kind # "other",
           NEW row \in Row
    PROVE  /\ Written(n, row) \in Row
           /\ Written(n, row).status \in {row.status, Announced(n)}
<1>1. CASE Now(n).kind = "read"
  <2>1. Written(n, row) = [row EXCEPT !.detail = n]
    BY <1>1 DEF Written
  <2> QED
    BY <2>1, RowType DEF Row
<1>2. CASE Now(n).kind # "read"
  <2> DEFINE text == IF Now(n).text THEN n ELSE NoNotice
             time == IF Now(n).kind = "delivered" THEN n ELSE row.at
  <2>1. text \in Notice \cup {NoNotice} /\ time \in Notice \cup {NoNotice}
    BY RowType
  <2>2. Announced(n) \in Status /\ Announced(n) = StatusOf[Now(n).kind]
    BY <1>2, ItemType DEF Announced
  <2>3. Written(n, row) = [status |-> Announced(n), detail |-> text, at |-> time]
    BY <1>2, <2>2 DEF Written
  <2> HIDE DEF text, time
  <2> QED
    BY <2>1, <2>2, <2>3 DEF Row
<1> QED
  BY <1>1, <1>2

\* Where a notice is after Proceed.
LEMMA ProceedIs ==
    ASSUME TypeOK, NEW n \in Notice, Proceed(n), item[n] \in 1 .. Len(Batch[n])
    PROVE  /\ pc' \in [Notice -> Working \cup {"new", "responded", "done"}]
           /\ item' \in [Notice -> Nat]
           /\ answer' \in [Notice -> {"none", "ok", "error"}]
           /\ \A c \in Notice : c # n => /\ pc'[c] = pc[c]
                                         /\ item'[c] = item[c]
                                         /\ answer'[c] = answer[c]
           /\ \/ /\ pc'[n] = "responded"
                 /\ answer'[n] = "ok"
                 /\ item[n] = Len(Batch[n])
              \/ /\ pc'[n] = "find"
                 /\ item'[n] = item[n] + 1
                 /\ item'[n] \in 1 .. Len(Batch[n])
                 /\ answer'[n] = answer[n]
<1>1. Len(Batch[n]) \in Nat /\ item[n] \in Nat
  BY BatchType
<1>2. CASE item[n] = Len(Batch[n])
  <2>1. /\ pc' = [pc EXCEPT ![n] = "responded"]
        /\ answer' = [answer EXCEPT ![n] = "ok"]
        /\ item' = item
    BY <1>2 DEF Proceed, Goto
  <2> QED
    BY <1>2, <2>1 DEF TypeOK
<1>3. CASE item[n] # Len(Batch[n])
  <2>1. /\ pc' = [pc EXCEPT ![n] = "find"]
        /\ item' = [item EXCEPT ![n] = item[n] + 1]
        /\ answer' = answer
    BY <1>3 DEF Proceed, Goto
  <2>2. item[n] + 1 \in Nat /\ item[n] + 1 \in 1 .. Len(Batch[n])
    BY <1>1, <1>3
  <2>3. pc'[n] = "find" /\ item'[n] = item[n] + 1 /\ answer'[n] = answer[n]
    BY <2>1 DEF TypeOK
  <2>4. pc' \in [Notice -> Working \cup {"new", "responded", "done"}]
    BY <2>1 DEF TypeOK, Working
  <2>5. item' \in [Notice -> Nat]
    BY <2>1, <2>2 DEF TypeOK
  <2>6. \A c \in Notice : c # n => pc'[c] = pc[c] /\ item'[c] = item[c]
    BY <2>1 DEF TypeOK
  <2>7. answer' \in [Notice -> {"none", "ok", "error"}]
    BY <2>1 DEF TypeOK
  <2> QED
    BY <2>1, <2>2, <2>3, <2>4, <2>5, <2>6, <2>7
<1> QED
  BY <1>2, <1>3

\* The initial state satisfies the invariant.
LEMMA InitSInv == Init => SInv
<1> SUFFICES ASSUME Init PROVE SInv
  OBVIOUS
<1>1. TypeOK
  BY DEF Init, TypeOK, Empty, Working
<1>2. Len(log) = 0 /\ DOMAIN log = {}
  BY DEF Init
<1>3. \A n \in Notice : Len(queued[n]) = 0
  BY DEF Init
<1>4. Shape
  BY <1>3 DEF Init, Shape, Working, Live
<1>5. Objects /\ Caused /\ Recorded
  BY <1>3 DEF Init, Objects, Caused, Recorded, Empty
<1>6. Finished /\ StatusAudited
  BY <1>2 DEF Finished, StatusAudited
<1>7. StatusAnnounced
  BY DEF StatusAnnounced, Init, Empty, Absent, Status
<1>8. AnnouncedOnce
  <2> SUFFICES ASSUME NEW n \in Notice
               PROVE  Cardinality({i \in DOMAIN log : log[i].by = n}) <= Len(Batch[n])
    BY DEF AnnouncedOnce
  <2>1. {i \in DOMAIN log : log[i].by = n} = {}
    BY <1>2
  <2> QED
    BY <2>1, FS_EmptySet, BatchType
<1> QED
  BY <1>1, <1>4, <1>5, <1>6, <1>7, <1>8 DEF SInv

-----------------------------------------------------------------------------
\* What holds of events and rows stays, while neither is written.
LEMMA LogKept ==
    ASSUME SInv, UNCHANGED log, audit \subseteq audit'
    PROVE  StatusAudited' /\ AnnouncedOnce' /\ (UNCHANGED rows => StatusAnnounced')
BY DEF SInv, StatusAudited, AnnouncedOnce, StatusAnnounced

\* A message that is new has no status that was announced.
LEMMA SendStep ==
    ASSUME SInv, NEW m \in Message, Send(m)
    PROVE  SInv'
<1> USE DEF SInv
<1> DEFINE new == [status |-> "queued", detail |-> NoNotice, at |-> NoNotice]
<1>1. new \in Row
  BY DEF Row, Status
<1>2. rows' \in [Message -> Row \cup {Absent}]
  BY <1>1 DEF Send, TypeOK
<1>3. \A l \in Message : rows'[l] = IF l = m THEN new ELSE rows[l]
  BY DEF Send, TypeOK
<1>4. TypeOK'
  BY <1>2 DEF Send, TypeOK
<1>5. Shape' /\ Caused' /\ Recorded' /\ Finished'
  BY DEF Send, Shape, Caused, Recorded, Finished, Now, Announced
<1>6. Objects'
  BY <1>1, <1>3, RowType DEF Send, Objects
<1>7. StatusAnnounced'
  BY <1>3 DEF StatusAnnounced, Send
<1>8. StatusAudited' /\ AnnouncedOnce'
  BY LogKept DEF Send
<1> QED
  BY <1>4, <1>5, <1>6, <1>7, <1>8

\* A delivered notice has nothing queued yet.
LEMMA DeliverStep ==
    ASSUME SInv, NEW n \in Notice, Deliver(n)
    PROVE  SInv'
<1> USE DEF SInv
<1>0. /\ pc[n] = "new" /\ queued[n] = <<>> /\ Len(queued[n]) = 0
      /\ UNCHANGED <<rows, log, audit, loaded, dirty, queued, faults>>
  BY DEF Deliver, Shape, Live, Working
<1>1. CASE Batch[n] = <<>>
  <2>1. /\ pc' = [pc EXCEPT ![n] = "responded"]
        /\ answer' = [answer EXCEPT ![n] = "ok"]
        /\ item' = item
    BY <1>1 DEF Deliver, Goto
  <2>2. TypeOK'
    BY <1>0, <2>1 DEF TypeOK, Working
  <2>3. Shape'
    BY <1>0, <2>1, BatchType DEF Shape, TypeOK, Live, Working, Now
  <2>4. Recorded'
    BY <1>0, <2>1 DEF Recorded, TypeOK, Now, Announced
  <2>5. Finished'
    BY <1>0, <2>1 DEF Finished, TypeOK
  <2> QED
    BY <1>0, <2>2, <2>3, <2>4, <2>5, LogKept DEF Objects, Caused
<1>2. CASE Batch[n] # <<>>
  <2>1. /\ pc' = [pc EXCEPT ![n] = "find"]
        /\ item' = [item EXCEPT ![n] = 1]
        /\ answer' = answer
    BY <1>2 DEF Deliver, Goto
  <2>2. TypeOK'
    BY <1>0, <2>1 DEF TypeOK, Working
  <2>3. Shape'
    BY <1>0, <1>2, <2>1, BatchType DEF Shape, TypeOK, Live, Working, Now
  <2>4. Recorded'
    BY <1>0, <2>1 DEF Recorded, TypeOK, Now, Announced
  <2>5. Finished'
    BY <1>0, <2>1 DEF Finished, TypeOK
  <2> QED
    BY <1>0, <2>2, <2>3, <2>4, <2>5, LogKept DEF Objects, Caused
<1> QED
  BY <1>1, <1>2

-----------------------------------------------------------------------------
(* Steps of a notice that is being handled. *)

\* Going on along the batch keeps the invariant, if what is queued by then is
\* audited, and no more than the statuses passed.
LEMMA AdvanceKeeps ==
    ASSUME SInv, NEW n \in Notice, pc[n] \in Working, Proceed(n),
           UNCHANGED <<rows, log, faults>>,
           audit \subseteq audit', audit' \subseteq Message \X Status \X Notice,
           loaded' \in [Notice -> [Message -> Row \cup {Absent}]],
           dirty' \in [Notice -> [Message -> Row \cup {Absent}]],
           queued' \in [Notice -> Seq(Event)],
           Objects', Caused',
           \A c \in Notice : c # n => queued'[c] = queued[c],
           Len(queued'[n]) <= item[n],
           \A i \in 1 .. Len(queued'[n]) :
              /\ queued'[n][i].by = n
              /\ Reads(n) \/ <<queued'[n][i].msg, queued'[n][i].status, n>> \in audit'
    PROVE  SInv'
<1> USE DEF SInv
<1>1. item[n] \in 1 .. Len(Batch[n]) /\ answer[n] = "none"
  BY DEF Shape
<1>2. /\ pc' \in [Notice -> Working \cup {"new", "responded", "done"}]
      /\ item' \in [Notice -> Nat]
      /\ answer' \in [Notice -> {"none", "ok", "error"}]
      /\ \A c \in Notice : c # n => /\ pc'[c] = pc[c]
                                    /\ item'[c] = item[c]
                                    /\ answer'[c] = answer[c]
      /\ \/ /\ pc'[n] = "responded"
            /\ answer'[n] = "ok"
            /\ item[n] = Len(Batch[n])
         \/ /\ pc'[n] = "find"
            /\ item'[n] = item[n] + 1
            /\ item'[n] \in 1 .. Len(Batch[n])
            /\ answer'[n] = answer[n]
  BY <1>1, ProceedIs
<1>3. TypeOK'
  BY <1>2 DEF TypeOK
<1>4. \A c \in Notice : c # n => Now(c)' = Now(c) /\ Announced(c)' = Announced(c)
  BY <1>2 DEF Now, Announced
<1>5. Shape'
  <2> SUFFICES ASSUME NEW c \in Notice
               PROVE  /\ pc'[c] \in Working => item'[c] \in 1 .. Len(Batch[c]) /\ answer'[c] = "none"
                      /\ pc'[c] = "new" => answer'[c] = "none"
                      /\ pc'[c] = "responded" => answer'[c] = "ok"
                      /\ pc'[c] = "audit" => Now(c)'.kind \notin {"read", "other"}
                      /\ pc'[c] \notin Live => queued'[c] = <<>>
                      /\ pc'[c] = "find" => Len(queued'[c]) < item'[c]
                      /\ pc'[c] = "audit" => Len(queued'[c]) <= item'[c]
                      /\ pc'[c] = "responded" => Len(queued'[c]) <= Len(Batch[c])
    BY DEF Shape
  <2>1. CASE c # n
    BY <2>1, <1>2, <1>4 DEF Shape
  <2>2. CASE c = n
    <3>1. Len(queued'[n]) \in Nat /\ Len(Batch[n]) \in Nat
      BY BatchType
    <3> QED
      BY <2>2, <3>1, <1>1, <1>2 DEF Live, Working
  <2> QED
    BY <2>1, <2>2
<1>6. Recorded'
  <2> SUFFICES ASSUME NEW c \in Notice, NEW i \in 1 .. Len(queued'[c])
               PROVE  /\ queued'[c][i].by = c
                      /\ \/ Reads(c)
                         \/ <<queued'[c][i].msg, queued'[c][i].status, c>> \in audit'
                         \/ /\ pc'[c] = "audit"
                            /\ queued'[c][i].msg = Now(c)'.msg
                            /\ queued'[c][i].status = Announced(c)'
    BY DEF Recorded, Reads
  <2>1. CASE c # n
    <3>1. queued'[c] = queued[c] /\ pc'[c] = pc[c]
      BY <2>1, <1>2
    <3>2. Now(c)' = Now(c) /\ Announced(c)' = Announced(c)
      BY <2>1, <1>4
    <3>3. i \in 1 .. Len(queued[c])
      BY <3>1
    <3> QED
      BY <3>1, <3>2, <3>3 DEF Recorded
  <2> QED
    BY <2>1
<1>7. Finished'
  <2> SUFFICES ASSUME NEW i \in 1 .. Len(log)
               PROVE  pc'[log[i].by] = "done" /\ answer'[log[i].by] = "ok"
    BY DEF Finished
  <2>1. log[i] \in Event
    BY DEF TypeOK
  <2>2. log[i].by \in Notice /\ log[i].by # n
    BY <2>1 DEF Event, Finished, Working
  <2> QED
    BY <2>2, <1>2 DEF Finished
<1> QED
  BY <1>3, <1>5, <1>6, <1>7, LogKept

\* A status nobody knows, or of a message that is not there, is passed over.
LEMMA PassStep ==
    ASSUME SInv, NEW n \in Notice, Find(n), Now(n).kind = "other" \/ Target(n) = {}
    PROVE  SInv'
<1> USE DEF SInv
<1>1. /\ pc[n] = "find" /\ Proceed(n)
      /\ UNCHANGED <<rows, log, audit, faults, loaded, dirty, queued>>
  BY DEF Find
<1>2. item[n] \in Nat /\ Len(queued[n]) \in Nat /\ Len(queued[n]) < item[n]
  BY <1>1 DEF Shape, TypeOK
<1>3. \A i \in 1 .. Len(queued[n]) :
        /\ queued[n][i].by = n
        /\ Reads(n) \/ <<queued[n][i].msg, queued[n][i].status, n>> \in audit
  BY <1>1 DEF Recorded
<1>4. Objects' /\ Caused'
  BY <1>1 DEF Objects, Caused
<1>5. Len(queued'[n]) <= item[n]
  BY <1>1, <1>2
<1>6. pc[n] \in Working
  BY <1>1 DEF Working
<1> QED
  BY <1>1, <1>3, <1>4, <1>5, <1>6, AdvanceKeeps DEF TypeOK

\* A status that is audited is that of the event queued for it.
LEMMA AuditStep ==
    ASSUME SInv, NEW n \in Notice, Audit(n)
    PROVE  SInv'
<1> USE DEF SInv
<1>1. /\ pc[n] = "audit" /\ Proceed(n) /\ pc[n] \in Working
      /\ audit' = audit \cup {<<Now(n).msg, Announced(n), n>>}
      /\ UNCHANGED <<rows, log, faults, loaded, dirty, queued>>
  BY DEF Audit, Working
<1>2. Now(n).msg \in Message /\ Announced(n) \in Status
  BY <1>1, ItemType DEF Shape, Item
<1>3. \A i \in 1 .. Len(queued[n]) :
        /\ queued[n][i].by = n
        /\ Reads(n) \/ <<queued[n][i].msg, queued[n][i].status, n>> \in audit'
  BY <1>1 DEF Recorded
<1>4. Objects' /\ Caused'
  BY <1>1 DEF Objects, Caused
<1>5. Len(queued'[n]) <= item[n]
  BY <1>1 DEF Shape
<1>6. audit' \subseteq Message \X Status \X Notice
  BY <1>1, <1>2 DEF TypeOK
<1> QED
  BY <1>1, <1>3, <1>4, <1>5, <1>6, AdvanceKeeps DEF TypeOK

\* The event that Find queues for a message.
New(n, m) == [msg |-> m, status |-> Announced(n), by |-> n]

\* What Find does to the session, when it finds message m.
Writes(n, m) ==
    /\ loaded' = [loaded EXCEPT ![n][m] = IF @ = Absent THEN rows[m] ELSE @]
    /\ dirty' = [dirty EXCEPT ![n][m] = Written(n, Object(n, m))]
    /\ queued' = [queued EXCEPT ![n] = Append(@, New(n, m))]

\* The queue then ends in the new event.
LEMMA QueueGrows ==
    ASSUME TypeOK, NEW n \in Notice, NEW m \in Message, Writes(n, m),
           Announced(n) \in Status
    PROVE  /\ queued' \in [Notice -> Seq(Event)]
           /\ Len(queued'[n]) = Len(queued[n]) + 1
           /\ \A i \in 1 .. Len(queued[n]) : queued'[n][i] = queued[n][i]
           /\ queued'[n][Len(queued[n]) + 1] = New(n, m)
           /\ \A c \in Notice : c # n => queued'[c] = queued[c]
<1>1. New(n, m) \in Event /\ queued[n] \in Seq(Event)
  BY DEF New, Event, TypeOK
<1>2. queued' = [queued EXCEPT ![n] = Append(queued[n], New(n, m))]
  BY DEF Writes
<1> DEFINE longer == Append(queued[n], New(n, m))
<1>3. /\ longer \in Seq(Event)
      /\ Len(longer) = Len(queued[n]) + 1
      /\ \A i \in 1 .. Len(queued[n]) : longer[i] = queued[n][i]
      /\ longer[Len(queued[n]) + 1] = New(n, m)
  BY <1>1
<1> HIDE DEF longer
<1>4. queued' = [queued EXCEPT ![n] = longer]
  BY <1>2 DEF longer
<1>5. queued'[n] = longer /\ \A c \in Notice : c # n => queued'[c] = queued[c]
  BY <1>4 DEF TypeOK
<1>6. queued' \in [Notice -> Seq(Event)]
  BY <1>3, <1>4 DEF TypeOK
<1> QED
  BY <1>3, <1>5, <1>6

\* A message written has been loaded, is a row, and its status is announced.
LEMMA WritesKeep ==
    ASSUME SInv, NEW n \in Notice, NEW m \in Message, Writes(n, m), UNCHANGED rows,
           rows[m] # Absent, item[n] \in 1 .. Len(Batch[n]), Now(n).kind # "other"
    PROVE  /\ loaded' \in [Notice -> [Message -> Row \cup {Absent}]]
           /\ dirty' \in [Notice -> [Message -> Row \cup {Absent}]]
           /\ Objects' /\ Caused'
<1> USE DEF SInv
<1> DEFINE was == IF loaded[n][m] = Absent THEN rows[m] ELSE loaded[n][m]
           is == Written(n, Object(n, m))
<1>1. was \in Row
  BY DEF TypeOK
<1>2. Object(n, m) \in Row
  BY DEF TypeOK, Object
<1>3. is \in Row /\ is.status \in {Object(n, m).status, Announced(n)}
  BY <1>2, WrittenType
<1>4. was # Absent /\ is # Absent
  BY <1>1, <1>3, RowType
<1>5. dirty[n][m] = Absent => Object(n, m) = was
  BY DEF Object, Objects
<1>6. dirty[n][m] # Absent => Object(n, m) = dirty[n][m] /\ was = loaded[n][m]
  BY DEF Object, Objects
<1>7. loaded' = [loaded EXCEPT ![n][m] = was] /\ dirty' = [dirty EXCEPT ![n][m] = is]
  BY DEF Writes
<1> HIDE DEF was, is
<1>8. /\ loaded' \in [Notice -> [Message -> Row \cup {Absent}]]
      /\ dirty' \in [Notice -> [Message -> Row \cup {Absent}]]
  BY <1>1, <1>3, <1>7 DEF TypeOK
<1>9. /\ loaded'[n][m] = was /\ dirty'[n][m] = is
      /\ \A c \in Notice, l \in Message : c # n \/ l # m =>
           loaded'[c][l] = loaded[c][l] /\ dirty'[c][l] = dirty[c][l]
  BY <1>7 DEF TypeOK
<1>10. Objects'
  BY <1>4, <1>9 DEF Objects
<1>11. /\ \A i \in 1 .. Len(queued[n]) : queued'[n][i] = queued[n][i]
       /\ Len(queued'[n]) = Len(queued[n]) + 1
       /\ queued'[n][Len(queued[n]) + 1] = New(n, m)
       /\ \A c \in Notice : c # n => queued'[c] = queued[c]
       /\ Len(queued[n]) \in Nat
  BY QueueGrows, ItemType DEF TypeOK
<1>12. Told(queued'[n], m, Announced(n))
  BY <1>11 DEF Told, New
<1>13. \A l, s : Told(queued[n], l, s) => Told(queued'[n], l, s)
  BY <1>11 DEF Told
<1>14. is.status # was.status => Told(queued'[n], m, is.status)
  BY <1>3, <1>5, <1>6, <1>12, <1>13 DEF Caused
<1>15. Caused'
  BY <1>9, <1>11, <1>13, <1>14 DEF Caused
<1> QED
  BY <1>8, <1>10, <1>15

\* A status that is known, of a message that is there, is written and queued.
LEMMA WriteStep ==
    ASSUME SInv, NEW n \in Notice, Find(n), ~(Now(n).kind = "other" \/ Target(n) = {})
    PROVE  SInv'
<1> USE DEF SInv
<1>1. PICK m \in Target(n) :
        /\ Writes(n, m)
        /\ IF Now(n).kind = "read" THEN Proceed(n)
           ELSE Goto(n, "audit") /\ UNCHANGED <<item, answer>>
  BY DEF Find, Writes, New
<1>2. /\ pc[n] = "find" /\ pc[n] \in Working
      /\ UNCHANGED <<rows, log, audit, faults>>
  BY DEF Find, Working
<1>3. item[n] \in 1 .. Len(Batch[n]) /\ answer[n] = "none" /\ Len(queued[n]) < item[n]
  BY <1>2 DEF Shape
<1>4. Now(n) \in Item /\ Announced(n) \in Status
  BY <1>3, ItemType
<1>5. m \in Message /\ rows[m] # Absent
  BY <1>4 DEF Target, Latest, Item
<1>6. Now(n).kind # "read" => m = Now(n).msg
  BY DEF Target
<1>7. /\ loaded' \in [Notice -> [Message -> Row \cup {Absent}]]
      /\ dirty' \in [Notice -> [Message -> Row \cup {Absent}]]
      /\ Objects' /\ Caused'
  BY <1>1, <1>2, <1>3, <1>5, WritesKeep
<1>8. /\ queued' \in [Notice -> Seq(Event)]
      /\ Len(queued'[n]) = Len(queued[n]) + 1
      /\ \A i \in 1 .. Len(queued[n]) : queued'[n][i] = queued[n][i]
      /\ queued'[n][Len(queued[n]) + 1] = New(n, m)
      /\ \A c \in Notice : c # n => queued'[c] = queued[c]
  BY <1>1, <1>4, <1>5, QueueGrows
<1>9. Len(queued[n]) \in Nat /\ item[n] \in Nat
  BY DEF TypeOK
<1>10. Len(queued'[n]) <= item[n]
  BY <1>3, <1>8, <1>9
<1>11. \A i \in 1 .. Len(queued'[n]) : i \in 1 .. Len(queued[n]) \/ i = Len(queued[n]) + 1
  BY <1>8, <1>9
<1>12. \A i \in 1 .. Len(queued[n]) :
         /\ queued[n][i].by = n
         /\ Reads(n) \/ <<queued[n][i].msg, queued[n][i].status, n>> \in audit
  BY <1>2 DEF Recorded
<1>13. New(n, m).by = n /\ New(n, m).msg = m /\ New(n, m).status = Announced(n)
  BY DEF New
<1>14. CASE Now(n).kind = "read"
  <2>1. Proceed(n)
    BY <1>1, <1>14
  <2>2. Reads(n)
    BY <1>3, <1>14, ItemType
  <2>3. \A i \in 1 .. Len(queued'[n]) :
          /\ queued'[n][i].by = n
          /\ Reads(n) \/ <<queued'[n][i].msg, queued'[n][i].status, n>> \in audit'
    BY <1>8, <1>11, <1>12, <1>13, <2>2
  <2>4. audit' \subseteq Message \X Status \X Notice
    BY <1>2 DEF TypeOK
  <2> QED
    BY <1>2, <1>7, <1>8, <1>10, <2>1, <2>3, <2>4, AdvanceKeeps
<1>15. CASE Now(n).kind # "read"
  <2>1. pc' = [pc EXCEPT ![n] = "audit"] /\ UNCHANGED <<item, answer>>
    BY <1>1, <1>15 DEF Goto
  <2>2. TypeOK'
    BY <1>2, <1>7, <1>8, <2>1 DEF TypeOK, Working
  <2>3. /\ pc'[n] = "audit"
        /\ \A c \in Notice : c # n => pc'[c] = pc[c]
        /\ \A c \in Notice : Now(c)' = Now(c) /\ Announced(c)' = Announced(c)
    BY <2>1 DEF TypeOK, Now, Announced
  <2>4. Shape'
    BY <1>3, <1>8, <1>10, <1>15, <2>1, <2>3 DEF Shape, Live, Working
  <2>5. Recorded'
    <3> SUFFICES ASSUME NEW c \in Notice, NEW i \in 1 .. Len(queued'[c])
                 PROVE  /\ queued'[c][i].by = c
                        /\ \/ Reads(c)
                           \/ <<queued'[c][i].msg, queued'[c][i].status, c>> \in audit'
                           \/ /\ pc'[c] = "audit"
                              /\ queued'[c][i].msg = Now(c)'.msg
                              /\ queued'[c][i].status = Announced(c)'
      BY DEF Recorded, Reads
    <3>1. CASE c = n
      BY <3>1, <1>2, <1>6, <1>8, <1>11, <1>12, <1>13, <1>15, <2>3
    <3>2. CASE c # n
      BY <3>2, <1>2, <1>8, <2>3 DEF Recorded
    <3> QED
      BY <3>1, <3>2
  <2>6. Finished'
    <3> SUFFICES ASSUME NEW i \in 1 .. Len(log)
                 PROVE  pc'[log[i].by] = "done" /\ answer[log[i].by] = "ok"
      BY <1>2, <2>1 DEF Finished
    <3>1. log[i] \in Event
      BY DEF TypeOK
    <3>2. log[i].by \in Notice /\ log[i].by # n
      BY <1>2, <3>1 DEF Event, Finished
    <3> QED
      BY <3>2, <2>3 DEF Finished
  <2> QED
    BY <1>2, <1>7, <2>2, <2>4, <2>5, <2>6, LogKept
<1> QED
  BY <1>14, <1>15

-----------------------------------------------------------------------------
(* Steps that end a session. *)

\* A session that forgets what it did keeps the invariant.
LEMMA ForgetKeeps ==
    ASSUME SInv, NEW n \in Notice, pc[n] \in Live, Forget(n), Goto(n, "done"),
           NEW a \in {"none", "ok", "error"}, answer' = [answer EXCEPT ![n] = a],
           UNCHANGED <<rows, log, item>>, faults' \in Nat,
           audit \subseteq audit', audit' \subseteq Message \X Status \X Notice
    PROVE  SInv'
<1> USE DEF SInv
<1>1. /\ pc' = [pc EXCEPT ![n] = "done"]
      /\ loaded' = [loaded EXCEPT ![n] = Empty]
      /\ dirty' = [dirty EXCEPT ![n] = Empty]
      /\ queued' = [queued EXCEPT ![n] = <<>>]
  BY DEF Forget, Goto
<1>2. Empty \in [Message -> Row \cup {Absent}] /\ <<>> \in Seq(Event)
  BY DEF Empty
<1>3. TypeOK'
  BY <1>1, <1>2 DEF TypeOK
<1>4. /\ pc'[n] = "done" /\ queued'[n] = <<>> /\ loaded'[n] = Empty /\ dirty'[n] = Empty
      /\ Len(queued'[n]) = 0
      /\ \A c \in Notice : c # n => /\ pc'[c] = pc[c] /\ queued'[c] = queued[c]
                                    /\ loaded'[c] = loaded[c] /\ dirty'[c] = dirty[c]
                                    /\ answer'[c] = answer[c]
      /\ \A c \in Notice : Now(c)' = Now(c) /\ Announced(c)' = Announced(c)
  BY <1>1 DEF TypeOK, Now, Announced
<1>5. Shape'
  BY <1>4 DEF Shape, Live, Working
<1>6. Objects' /\ Caused'
  BY <1>4 DEF Objects, Caused, Empty
<1>7. Recorded'
  <2> SUFFICES ASSUME NEW c \in Notice, NEW i \in 1 .. Len(queued'[c])
               PROVE  /\ queued'[c][i].by = c
                      /\ \/ Reads(c)
                         \/ <<queued'[c][i].msg, queued'[c][i].status, c>> \in audit'
                         \/ /\ pc'[c] = "audit"
                            /\ queued'[c][i].msg = Now(c)'.msg
                            /\ queued'[c][i].status = Announced(c)'
    BY DEF Recorded, Reads
  <2>1. c # n
    BY <1>4
  <2> QED
    BY <2>1, <1>4 DEF Recorded
<1>8. Finished'
  <2> SUFFICES ASSUME NEW i \in 1 .. Len(log)
               PROVE  pc'[log[i].by] = "done" /\ answer'[log[i].by] = "ok"
    BY DEF Finished
  <2>1. log[i] \in Event
    BY DEF TypeOK
  <2>2. log[i].by \in Notice /\ log[i].by # n
    BY <2>1 DEF Event, Finished, Live, Working
  <2> QED
    BY <2>2, <1>4 DEF Finished
<1> QED
  BY <1>3, <1>5, <1>6, <1>7, <1>8, LogKept

\* An UPDATE writes a row, whose status is the stored one or was announced.
LEMMA MergedType ==
    ASSUME SInv, NEW n \in Notice, NEW m \in Message, loaded[n][m] # Absent
    PROVE  /\ Merged(n, m) \in Row
           /\ \/ Merged(n, m).status = rows[m].status
              \/ Told(queued[n], m, Merged(n, m).status)
<1> USE DEF SInv
<1>1. loaded[n][m] \in Row /\ dirty[n][m] \in Row /\ rows[m] \in Row
  BY DEF TypeOK, Objects
<1>2. /\ rows[m].status \in Status /\ dirty[n][m].status \in Status
      /\ rows[m].detail \in Notice \cup {NoNotice}
      /\ dirty[n][m].detail \in Notice \cup {NoNotice}
      /\ rows[m].at \in Notice \cup {NoNotice}
      /\ dirty[n][m].at \in Notice \cup {NoNotice}
  BY <1>1, RowType
<1> DEFINE Column(c) == IF dirty[n][m][c] # loaded[n][m][c] THEN dirty[n][m][c] ELSE rows[m][c]
<1>3. DOMAIN rows[m] = {"status", "detail", "at"}
  BY <1>1 DEF Row
<1>4. Merged(n, m) = [c \in {"status", "detail", "at"} |-> Column(c)]
  BY <1>3 DEF Merged
<1>5. /\ Merged(n, m).status = Column("status")
      /\ Merged(n, m).detail = Column("detail")
      /\ Merged(n, m).at = Column("at")
  BY <1>4
<1>6. Merged(n, m) = [status |-> Column("status"), detail |-> Column("detail"), at |-> Column("at")]
  BY <1>4
<1>7. Column("status") \in Status
  BY <1>2
<1>8. Column("detail") \in Notice \cup {NoNotice} /\ Column("at") \in Notice \cup {NoNotice}
  BY <1>2
<1>9. dirty[n][m].status # loaded[n][m].status => Told(queued[n], m, dirty[n][m].status)
  BY DEF Caused
<1>10. \/ Column("status") = rows[m].status
       \/ Told(queued[n], m, Column("status"))
  BY <1>9
<1> HIDE DEF Column
<1> QED
  BY <1>5, <1>6, <1>7, <1>8, <1>10 DEF Row

\* The log grows by what the notice has queued, all of it its own and audited.
LEMMA LogGrows ==
    ASSUME SInv, NEW n \in Notice, Commit(n)
    PROVE  /\ log' \in Seq(Event)
           /\ Len(log') = Len(log) + Len(queued[n])
           /\ \A i \in 1 .. Len(log) : log'[i] = log[i]
           /\ \A i \in 1 .. Len(log') : i \notin 1 .. Len(log) =>
                /\ i - Len(log) \in 1 .. Len(queued[n])
                /\ log'[i] = queued[n][i - Len(log)]
           /\ \A j \in 1 .. Len(queued[n]) :
                /\ Len(log) + j \in 1 .. Len(log')
                /\ log'[Len(log) + j] = queued[n][j]
<1> USE DEF SInv
<1>1. log \in Seq(Event) /\ queued[n] \in Seq(Event) /\ log' = log \o queued[n]
  BY DEF TypeOK, Commit
<1>2. /\ Len(log) \in Nat /\ Len(queued[n]) \in Nat
      /\ log' \in Seq(Event)
      /\ Len(log') = Len(log) + Len(queued[n])
      /\ \A i \in 1 .. Len(log) + Len(queued[n]) :
           log'[i] = IF i <= Len(log) THEN log[i] ELSE queued[n][i - Len(log)]
  BY <1>1
<1>3. \A j \in 1 .. Len(queued[n]) :
        /\ Len(log) + j \in 1 .. Len(log')
        /\ ~(Len(log) + j <= Len(log)) /\ (Len(log) + j) - Len(log) = j
  BY <1>2
<1>4. \A j \in 1 .. Len(queued[n]) : log'[Len(log) + j] = queued[n][j]
  BY <1>2, <1>3
<1> QED
  BY <1>2, <1>3, <1>4

\* What a notice commits was announced, audited, and is committed for good.
LEMMA CommitStep ==
    ASSUME SInv, NEW n \in Notice, Commit(n)
    PROVE  SInv'
<1> USE DEF SInv
<1>1. /\ pc[n] = "responded"
      /\ rows' = [m \in Message |-> IF loaded[n][m] = Absent THEN rows[m] ELSE Merged(n, m)]
      /\ pc' = [pc EXCEPT ![n] = "done"]
      /\ loaded' = [loaded EXCEPT ![n] = Empty]
      /\ dirty' = [dirty EXCEPT ![n] = Empty]
      /\ queued' = [queued EXCEPT ![n] = <<>>]
      /\ UNCHANGED <<audit, item, answer, faults>>
  BY DEF Commit, Forget, Goto
<1>2. /\ log' \in Seq(Event)
      /\ Len(log') = Len(log) + Len(queued[n])
      /\ \A i \in 1 .. Len(log) : log'[i] = log[i]
      /\ \A i \in 1 .. Len(log') : i \notin 1 .. Len(log) =>
           i - Len(log) \in 1 .. Len(queued[n]) /\ log'[i] = queued[n][i - Len(log)]
      /\ \A j \in 1 .. Len(queued[n]) :
           Len(log) + j \in 1 .. Len(log') /\ log'[Len(log) + j] = queued[n][j]
  BY LogGrows
<1>3. /\ Len(log) \in Nat /\ DOMAIN log = 1 .. Len(log)
      /\ Len(log') \in Nat /\ DOMAIN log' = 1 .. Len(log')
      /\ Len(queued[n]) \in Nat /\ Len(queued[n]) <= Len(Batch[n])
      /\ Len(Batch[n]) \in Nat
  BY <1>1, <1>2, BatchType DEF TypeOK, Shape
<1>4. answer[n] = "ok"
  BY <1>1 DEF Shape
<1>5. \A m \in Message : rows'[m] = IF loaded[n][m] = Absent THEN rows[m] ELSE Merged(n, m)
  BY <1>1
<1>6. \A m \in Message : loaded[n][m] # Absent =>
         /\ Merged(n, m) \in Row
         /\ \/ Merged(n, m).status = rows[m].status
            \/ Told(queued[n], m, Merged(n, m).status)
  BY MergedType
<1>7. /\ pc'[n] = "done" /\ queued'[n] = <<>> /\ loaded'[n] = Empty /\ dirty'[n] = Empty
      /\ Len(queued'[n]) = 0
      /\ \A c \in Notice : c # n => /\ pc'[c] = pc[c] /\ queued'[c] = queued[c]
                                    /\ loaded'[c] = loaded[c] /\ dirty'[c] = dirty[c]
      /\ \A c \in Notice : Now(c)' = Now(c) /\ Announced(c)' = Announced(c)
  BY <1>1 DEF TypeOK, Now, Announced
<1>8. TypeOK'
  <2>1. rows' \in [Message -> Row \cup {Absent}]
    BY <1>1, <1>6 DEF TypeOK
  <2>2. Empty \in [Message -> Row \cup {Absent}] /\ <<>> \in Seq(Event)
    BY DEF Empty
  <2> QED
    BY <1>1, <1>2, <2>1, <2>2 DEF TypeOK
<1>9. Shape'
  BY <1>1, <1>4, <1>7 DEF Shape, Live, Working
<1>10. Objects' /\ Caused'
  <2>1. \A m \in Message : rows[m] # Absent => rows'[m] # Absent
    BY <1>5, <1>6, RowType
  <2> QED
    BY <1>7, <2>1 DEF Objects, Caused, Empty
<1>11. Recorded'
  <2> SUFFICES ASSUME NEW c \in Notice, NEW i \in 1 .. Len(queued'[c])
               PROVE  /\ queued'[c][i].by = c
                      /\ \/ Reads(c)
                         \/ <<queued'[c][i].msg, queued'[c][i].status, c>> \in audit'
                         \/ /\ pc'[c] = "audit"
                            /\ queued'[c][i].msg = Now(c)'.msg
                            /\ queued'[c][i].status = Announced(c)'
    BY DEF Recorded, Reads
  <2>1. c # n
    BY <1>7
  <2> QED
    BY <1>1, <2>1, <1>7 DEF Recorded
<1>12. \A j \in 1 .. Len(queued[n]) :
         /\ queued[n][j].by = n
         /\ Reads(n) \/ <<queued[n][j].msg, queued[n][j].status, n>> \in audit
  BY <1>1 DEF Recorded
<1>13. \A i \in 1 .. Len(log) : log[i].by \in Notice /\ log[i].by # n
  <2> SUFFICES ASSUME NEW i \in 1 .. Len(log)
               PROVE  log[i].by \in Notice /\ log[i].by # n
    OBVIOUS
  <2>1. log[i] \in Event
    BY DEF TypeOK
  <2> QED
    BY <1>1, <2>1 DEF Event, Finished
<1>14. Finished'
  <2> SUFFICES ASSUME NEW i \in 1 .. Len(log')
               PROVE  pc'[log'[i].by] = "done" /\ answer[log'[i].by] = "ok"
    BY <1>1 DEF Finished
  <2>1. CASE i \in 1 .. Len(log)
    BY <2>1, <1>2, <1>7, <1>13 DEF Finished
  <2>2. CASE i \notin 1 .. Len(log)
    <3>1. log'[i].by = n
      BY <2>2, <1>2, <1>12
    <3> QED
      BY <3>1, <1>4, <1>7
  <2> QED
    BY <2>1, <2>2
<1>15. StatusAnnounced'
  <2> SUFFICES ASSUME NEW m \in Message, rows'[m].status \in Status \ {"queued"}
               PROVE  \E i \in 1 .. Len(log') : log'[i].msg = m /\ log'[i].status = rows'[m].status
    BY <1>3 DEF StatusAnnounced
  <2>1. CASE rows'[m].status = rows[m].status
    <3>1. PICK i \in 1 .. Len(log) : log[i].msg = m /\ log[i].status = rows[m].status
      BY <1>3, <2>1 DEF StatusAnnounced
    <3>2. i \in 1 .. Len(log')
      BY <1>2, <1>3
    <3> QED
      BY <1>2, <2>1, <3>1, <3>2
  <2>2. CASE Told(queued[n], m, rows'[m].status)
    <3>1. PICK j \in 1 .. Len(queued[n]) :
            queued[n][j].msg = m /\ queued[n][j].status = rows'[m].status
      BY <2>2 DEF Told
    <3>2. Len(log) + j \in 1 .. Len(log') /\ log'[Len(log) + j] = queued[n][j]
      BY <1>2
    <3> QED
      BY <3>1, <3>2
  <2> QED
    BY <1>5, <1>6, <2>1, <2>2
<1>16. StatusAudited'
  <2> SUFFICES ASSUME NEW i \in 1 .. Len(log')
               PROVE  \/ Reads(log'[i].by)
                      \/ <<log'[i].msg, log'[i].status, log'[i].by>> \in audit
    BY <1>1, <1>3 DEF StatusAudited, Reads
  <2>1. CASE i \in 1 .. Len(log)
    BY <2>1, <1>2, <1>3 DEF StatusAudited, Reads
  <2>2. CASE i \notin 1 .. Len(log)
    BY <2>2, <1>2, <1>12
  <2> QED
    BY <2>1, <2>2
<1>17. AnnouncedOnce'
  <2> SUFFICES ASSUME NEW c \in Notice
               PROVE  Cardinality({i \in DOMAIN log' : log'[i].by = c}) <= Len(Batch[c])
    BY DEF AnnouncedOnce
  <2>1. CASE c # n
    <3> DEFINE was == {i \in DOMAIN log : log[i].by = c}
               is == {i \in DOMAIN log' : log'[i].by = c}
    <3>1. was = is
      <4>1. ASSUME NEW i \in was PROVE i \in is
        BY <1>2, <1>3
      <4>2. ASSUME NEW i \in is PROVE i \in was
        <5>1. i \in 1 .. Len(log') /\ log'[i].by = c
          BY <1>3
        <5>2. i \in 1 .. Len(log)
          BY <1>2, <1>12, <2>1, <5>1
        <5> QED
          BY <1>2, <1>3, <5>1, <5>2
      <4> QED
        BY <4>1, <4>2
    <3> QED
      BY <3>1 DEF AnnouncedOnce
  <2>2. CASE c = n
    <3> DEFINE own == {i \in DOMAIN log' : log'[i].by = n}
               tail == Len(log) + 1 .. Len(log) + Len(queued[n])
    <3>1. own \subseteq tail
      BY <1>2, <1>3, <1>13
    <3>2. IsFiniteSet(tail) /\ Cardinality(tail) = Len(queued[n])
      <4>1. Len(log) + 1 \in Int /\ Len(log) + Len(queued[n]) \in Int
        BY <1>3
      <4>2. /\ IsFiniteSet(tail)
            /\ Cardinality(tail) = IF Len(log) + 1 > Len(log) + Len(queued[n]) THEN 0
                                   ELSE Len(log) + Len(queued[n]) - (Len(log) + 1) + 1
        BY <4>1, FS_Interval
      <4> QED
        BY <1>3, <4>2
    <3> HIDE DEF own, tail
    <3>3. Cardinality(own) <= Cardinality(tail) /\ IsFiniteSet(own)
      BY <3>1, <3>2, FS_Subset
    <3>4. Cardinality(own) \in Nat
      BY <3>3, FS_CardinalityType
    <3>5. Cardinality(own) <= Len(Batch[n])
      BY <1>3, <3>2, <3>3, <3>4
    <3> QED
      BY <2>2, <3>5 DEF own
  <2> QED
    BY <2>1, <2>2
<1> QED
  BY <1>8, <1>9, <1>10, <1>11, <1>14, <1>15, <1>16, <1>17

\* An exception rolls back, with or without the record.
LEMMA FailStep ==
    ASSUME SInv, NEW n \in Notice, Fail(n)
    PROVE  SInv'
<1> USE DEF SInv
<1>1. /\ pc[n] \in Working /\ Forget(n) /\ Goto(n, "done")
      /\ answer' = [answer EXCEPT ![n] = "error"]
      /\ UNCHANGED <<rows, log, item>>
      /\ faults' \in Nat
  BY DEF Fail, Raise, Fault, TypeOK
<1>2. CASE UNCHANGED audit
  BY <1>1, <1>2, ForgetKeeps DEF Live, TypeOK
<1>3. CASE pc[n] = "audit" /\ audit' = audit \cup {<<Now(n).msg, Announced(n), n>>}
  <2>1. Now(n).msg \in Message /\ Announced(n) \in Status
    BY <1>1, <1>3, ItemType DEF Shape, Item
  <2>2. audit' \subseteq Message \X Status \X Notice /\ audit \subseteq audit'
    BY <1>3, <2>1 DEF TypeOK
  <2> QED
    BY <1>1, <2>2, ForgetKeeps DEF Live
<1> QED
  BY <1>2, <1>3 DEF Fail

\* A lost COMMIT forgets everything; the answer stands.
LEMMA CommitFailsStep ==
    ASSUME SInv, NEW n \in Notice, CommitFails(n)
    PROVE  SInv'
<1> USE DEF SInv
<1>1. /\ pc[n] \in Live /\ Forget(n) /\ Goto(n, "done")
      /\ answer[n] \in {"none", "ok", "error"}
      /\ answer' = [answer EXCEPT ![n] = answer[n]]
      /\ UNCHANGED <<rows, log, item, audit>>
      /\ faults' \in Nat
  BY DEF CommitFails, Fault, TypeOK, Live
<1> QED
  BY <1>1, ForgetKeeps DEF TypeOK

\* Only a notice whose events are not in the log is sent again.
LEMMA RedeliverStep ==
    ASSUME SInv, NEW n \in Notice, Redeliver(n)
    PROVE  SInv'
<1> USE DEF SInv
<1>1. /\ pc[n] = "done" /\ answer[n] = "error"
      /\ pc' = [pc EXCEPT ![n] = "new"]
      /\ answer' = [answer EXCEPT ![n] = "none"]
      /\ UNCHANGED <<rows, log, audit, item, loaded, dirty, queued, faults>>
  BY DEF Redeliver, Goto
<1>2. /\ pc'[n] = "new" /\ answer'[n] = "none" /\ queued[n] = <<>>
      /\ \A c \in Notice : c # n => pc'[c] = pc[c] /\ answer'[c] = answer[c]
      /\ \A c \in Notice : Now(c)' = Now(c) /\ Announced(c)' = Announced(c)
  BY <1>1 DEF TypeOK, Now, Announced, Shape, Live, Working
<1>3. TypeOK'
  BY <1>1 DEF TypeOK
<1>4. Shape'
  BY <1>1, <1>2 DEF Shape, Live, Working
<1>5. Recorded'
  BY <1>1, <1>2 DEF Recorded, Reads
<1>6. Finished'
  <2> SUFFICES ASSUME NEW i \in 1 .. Len(log)
               PROVE  pc'[log[i].by] = "done" /\ answer'[log[i].by] = "ok"
    BY <1>1 DEF Finished
  <2>1. log[i] \in Event
    BY DEF TypeOK
  <2>2. log[i].by \in Notice /\ log[i].by # n
    BY <1>1, <2>1 DEF Event, Finished
  <2> QED
    BY <2>2, <1>2 DEF Finished
<1> QED
  BY <1>1, <1>3, <1>4, <1>5, <1>6, LogKept DEF Objects, Caused

-----------------------------------------------------------------------------
\* Every step keeps the invariant.
LEMMA NextSInv == SInv /\ [Next]_vars => SInv'
<1> SUFFICES ASSUME SInv, [Next]_vars PROVE SInv'
  OBVIOUS
<1>1. CASE UNCHANGED vars
  <2>1. UNCHANGED <<rows, log, audit, pc, item, loaded, dirty, queued, answer, faults>>
    BY <1>1 DEF vars
  <2>2. Shape' /\ Recorded' /\ Finished'
    BY <2>1 DEF SInv, Shape, Recorded, Finished, Now, Announced, Reads
  <2>3. Objects' /\ Caused' /\ TypeOK'
    BY <2>1 DEF SInv, Objects, Caused, TypeOK
  <2> QED
    BY <2>1, <2>2, <2>3, LogKept DEF SInv
<1>2. CASE \E m \in Message : Send(m)
  BY <1>2, SendStep
<1>3. ASSUME NEW n \in Notice, Find(n) PROVE SInv'
  BY <1>3, PassStep, WriteStep
<1>4. ASSUME NEW n \in Notice,
             Deliver(n) \/ Audit(n) \/ Commit(n) \/ Fail(n) \/ CommitFails(n) \/ Redeliver(n)
      PROVE  SInv'
  BY <1>4, DeliverStep, AuditStep, CommitStep, FailStep, CommitFailsStep, RedeliverStep
<1> QED
  BY <1>1, <1>2, <1>3, <1>4 DEF Next

\* The invariant holds in every reachable state.
LEMMA Invariance == Spec => []SInv
<1> QED
  BY InitSInv, NextSInv, PTL DEF Spec

\* The variables of the webhooks and of their sessions stay in their types.
THEOREM TypeCorrect == Spec => []TypeOK
<1>1. SInv => TypeOK
  BY DEF SInv
<1> QED
  BY <1>1, Invariance, PTL

\* Whatever sessions overwrite of each other, the status of a message was announced.
THEOREM NothingUnannounced == Spec => []StatusAnnounced
<1>1. SInv => StatusAnnounced
  BY DEF SInv
<1> QED
  BY <1>1, Invariance, PTL

\* What was announced is in the audit chain.
THEOREM NothingUnaudited == Spec => []StatusAudited
<1>1. SInv => StatusAudited
  BY DEF SInv
<1> QED
  BY <1>1, Invariance, PTL

\* However often a notice fails and is sent again, it announces what it says once.
THEOREM NothingTwice == Spec => []AnnouncedOnce
<1>1. SInv => AnnouncedOnce
  BY DEF SInv
<1> QED
  BY <1>1, Invariance, PTL
-----------------------------------------------------------------------------
(* The status and its event. *)

\* Only POST /outbound and the commit of a notice write rows or the log.
LEMMA RowsFrame ==
    ASSUME [Next]_vars
    PROVE  \/ UNCHANGED <<rows, log>>
           \/ \E m \in Message : Send(m)
           \/ \E n \in Notice : Commit(n)
<1>1. ASSUME NEW n \in Notice,
             Deliver(n) \/ Find(n) \/ Audit(n) \/ Fail(n) \/ CommitFails(n) \/ Redeliver(n)
      PROVE  UNCHANGED <<rows, log>>
  BY <1>1 DEF Deliver, Find, Audit, Fail, Raise, CommitFails, Redeliver
<1>2. UNCHANGED vars => UNCHANGED <<rows, log>>
  BY DEF vars
<1> QED
  BY <1>1, <1>2 DEF Next

\* What a commit makes of a row: nothing, if the session never loaded it, else
\* a row whose status it keeps or whose new status is announced.
LEMMA CommitWrites ==
    ASSUME SInv, NEW n \in Notice, Commit(n), NEW m \in Message
    PROVE  /\ loaded[n][m] = Absent => rows'[m] = rows[m]
           /\ loaded[n][m] # Absent =>
                /\ rows'[m] = Merged(n, m)
                /\ rows'[m] \in Row
                /\ rows'[m].status = rows[m].status \/ Told(queued[n], m, rows'[m].status)
<1>1. rows' = [l \in Message |-> IF loaded[n][l] = Absent THEN rows[l] ELSE Merged(n, l)]
  BY DEF Commit
<1>2. rows'[m] = IF loaded[n][m] = Absent THEN rows[m] ELSE Merged(n, m)
  BY <1>1
<1> QED
  BY <1>2, MergedType

\* The commit that changes the status of a row announces the new one, however
\* many notices there are and whatever columns they overwrite of each other.
THEOREM ChangesAreAnnounced == Spec => NoSilentChange
<1>1. ASSUME SInv, [Next]_vars, NEW m \in Message
      PROVE  Announces(m)
  <2>1. ASSUME NEW l \in Message, Send(l) PROVE Announces(m)
    BY <1>1, <2>1 DEF Send, SInv, TypeOK, Announces
  <2>2. ASSUME NEW n \in Notice, Commit(n) PROVE Announces(m)
    <3> SUFFICES ASSUME rows'[m].status # rows[m].status
                 PROVE  \E i \in DOMAIN log' : /\ i > Len(log)
                                               /\ log'[i].msg = m
                                               /\ log'[i].status = rows'[m].status
      BY DEF Announces
    <3>1. Told(queued[n], m, rows'[m].status)
      BY <1>1, <2>2, CommitWrites
    <3>2. PICK j \in 1 .. Len(queued[n]) :
            queued[n][j].msg = m /\ queued[n][j].status = rows'[m].status
      BY <3>1 DEF Told
    <3>3. Len(log) \in Nat /\ Len(queued[n]) \in Nat
      BY <1>1 DEF SInv, TypeOK
    <3>4. log' \in Seq(Event) /\ Len(log) + j \in 1 .. Len(log') /\ log'[Len(log) + j] = queued[n][j]
      BY <1>1, <2>2, LogGrows
    <3>5. Len(log) + j > Len(log)
      BY <3>3
    <3>6. DOMAIN log' = 1 .. Len(log')
      BY <3>4
    <3> QED
      BY <3>2, <3>4, <3>5, <3>6
  <2>3. CASE UNCHANGED <<rows, log>>
    BY <2>3 DEF Announces
  <2> QED
    BY <1>1, <2>1, <2>2, <2>3, RowsFrame
<1>2. SInv /\ [Next]_vars => [\A m \in Message : Announces(m)]_vars
  BY <1>1
<1> QED
  BY <1>2, Invariance, PTL DEF Spec, NoSilentChange

-----------------------------------------------------------------------------
(* Notices that do not meet. *)

\* No two sessions have the same message loaded.
OneAtATime ==
    \A m \in Message : \A b, c \in Notice :
        loaded[b][m] # Absent /\ loaded[c][m] # Absent => b = c

\* The i-th of es is the last of its message.
Last(es, i) == \A j \in 1 .. Len(es) : es[j].msg = es[i].msg => j <= i

\* The last event about a message has the message's status.
LoggedLast ==
    \A i \in 1 .. Len(log) :
        /\ rows[log[i].msg] # Absent
        /\ Last(log, i) => rows[log[i].msg].status = log[i].status

\* The status a session loaded is still the stored one.
LoadedCurrent ==
    \A n \in Notice, m \in Message :
        loaded[n][m] # Absent => loaded[n][m].status = rows[m].status

\* The last event a session queued about a message has the status it will write.
QueuedLast ==
    \A n \in Notice : \A i \in 1 .. Len(queued[n]) :
        /\ loaded[n][queued[n][i].msg] # Absent
        /\ Last(queued[n], i) => dirty[n][queued[n][i].msg].status = queued[n][i].status

Agreed == LoggedLast /\ LoadedCurrent /\ QueuedLast

\* Events are about messages.
LEMMA EventTypes ==
    ASSUME TypeOK
    PROVE  /\ Len(log) \in Nat
           /\ \A i \in 1 .. Len(log) : log[i].msg \in Message
           /\ \A n \in Notice : /\ Len(queued[n]) \in Nat
                                /\ \A i \in 1 .. Len(queued[n]) : queued[n][i].msg \in Message
<1>1. \A e \in Event : e.msg \in Message
  BY DEF Event
<1>2. ASSUME NEW es \in Seq(Event)
      PROVE  Len(es) \in Nat /\ \A i \in 1 .. Len(es) : es[i].msg \in Message
  BY <1>1
<1> QED
  BY <1>2 DEF TypeOK

\* A session that forgets keeps what the others agree with.
LEMMA ForgetAgrees ==
    ASSUME SInv, Agreed, NEW n \in Notice, Forget(n), UNCHANGED <<rows, log>>
    PROVE  Agreed'
<1>1. /\ loaded'[n] = Empty /\ queued'[n] = <<>> /\ Len(queued'[n]) = 0
      /\ \A c \in Notice : c # n => /\ queued'[c] = queued[c]
                                    /\ loaded'[c] = loaded[c]
                                    /\ dirty'[c] = dirty[c]
  BY DEF Forget, SInv, TypeOK
<1>2. LoggedLast'
  BY DEF Agreed, LoggedLast, Last
<1>3. LoadedCurrent'
  BY <1>1 DEF Agreed, LoadedCurrent, Empty
<1>4. QueuedLast'
  BY <1>1 DEF Agreed, QueuedLast, Last
<1> QED
  BY <1>2, <1>3, <1>4 DEF Agreed

\* A status that is written and queued agrees with its session.
LEMMA WriteAgrees ==
    ASSUME SInv, Agreed, NEW n \in Notice, ~Reads(n), Find(n)
    PROVE  Agreed'
<1> USE DEF SInv
<1>1. CASE UNCHANGED <<loaded, dirty, queued>>
  <2>1. UNCHANGED <<rows, log>>
    BY DEF Find
  <2> QED
    BY <1>1, <2>1 DEF Agreed, LoggedLast, LoadedCurrent, QueuedLast, Last
<1>2. CASE ~UNCHANGED <<loaded, dirty, queued>>
  <2>1. PICK m \in Target(n) : Writes(n, m)
    BY <1>2 DEF Find, Writes, New
  <2>2. UNCHANGED <<rows, log>> /\ Now(n).kind # "other" /\ item[n] \in 1 .. Len(Batch[n])
    BY <1>2 DEF Find, Shape, Working
  <2>3. Now(n).kind # "read" /\ Now(n) \in Item
    BY <2>2, ItemType
  <2>4. m \in Message /\ rows[m] # Absent
    BY <2>3 DEF Target, Item
  <2>5. Announced(n) \in Status /\ Written(n, Object(n, m)).status = Announced(n)
    BY <2>2, <2>3, ItemType DEF Announced, Written
  <2>6. /\ Len(queued'[n]) = Len(queued[n]) + 1
        /\ \A i \in 1 .. Len(queued[n]) : queued'[n][i] = queued[n][i]
        /\ queued'[n][Len(queued[n]) + 1] = New(n, m)
        /\ \A c \in Notice : c # n => queued'[c] = queued[c]
    BY <2>1, <2>4, <2>5, QueueGrows
  <2>7. /\ loaded'[n][m] = (IF loaded[n][m] = Absent THEN rows[m] ELSE loaded[n][m])
        /\ dirty'[n][m].status = Announced(n)
        /\ \A c \in Notice, l \in Message : c # n \/ l # m =>
             loaded'[c][l] = loaded[c][l] /\ dirty'[c][l] = dirty[c][l]
    BY <2>1, <2>4, <2>5 DEF Writes, TypeOK
  <2>8. LoggedLast'
    BY <2>2 DEF Agreed, LoggedLast, Last
  <2>9. LoadedCurrent'
    BY <2>2, <2>7 DEF Agreed, LoadedCurrent
  <2>10. QueuedLast'
    <3> SUFFICES ASSUME NEW c \in Notice, NEW i \in 1 .. Len(queued'[c])
                 PROVE  /\ loaded'[c][queued'[c][i].msg] # Absent
                        /\ Last(queued'[c], i)
                             => dirty'[c][queued'[c][i].msg].status = queued'[c][i].status
      BY DEF QueuedLast
    <3>1. CASE c # n
      <4>1. queued'[c] = queued[c] /\ queued[c][i].msg \in Message
        BY <3>1, <2>6, EventTypes
      <4> QED
        BY <3>1, <4>1, <2>7 DEF Agreed, QueuedLast
    <3>2. CASE c = n /\ i = Len(queued[n]) + 1
      <4>1. queued'[c][i] = New(n, m) /\ New(n, m).msg = m /\ New(n, m).status = Announced(n)
        BY <3>2, <2>6 DEF New
      <4>2. loaded'[n][m] # Absent
        BY <2>4, <2>7
      <4> QED
        BY <3>2, <4>1, <4>2, <2>7
    <3>3. CASE c = n /\ i # Len(queued[n]) + 1
      <4>1. i \in 1 .. Len(queued[n])
        BY <3>3, <2>6, EventTypes
      <4>2. queued'[c][i] = queued[n][i] /\ queued[n][i].msg \in Message
        BY <3>3, <4>1, <2>6, EventTypes
      <4>3. loaded[n][queued[n][i].msg] # Absent
        BY <4>1 DEF Agreed, QueuedLast
      <4>4. CASE queued[n][i].msg = m
        <5>1. ~Last(queued'[c], i)
          <6>1. Len(queued[n]) + 1 \in 1 .. Len(queued'[n]) /\ ~(Len(queued[n]) + 1 <= i)
            BY <4>1, <2>6, EventTypes
          <6>2. queued'[n][Len(queued[n]) + 1].msg = m
            BY <2>6 DEF New
          <6> QED
            BY <3>3, <4>2, <4>4, <6>1, <6>2 DEF Last
        <5> QED
          BY <3>3, <4>2, <4>3, <4>4, <5>1, <2>4, <2>7
      <4>5. CASE queued[n][i].msg # m
        <5>1. Last(queued'[c], i) => Last(queued[n], i)
          BY <3>3, <4>1, <4>2, <2>6, EventTypes DEF Last
        <5> QED
          BY <3>3, <4>1, <4>2, <4>3, <4>5, <5>1, <2>7 DEF Agreed, QueuedLast
      <4> QED
        BY <4>4, <4>5
    <3> QED
      BY <3>1, <3>2, <3>3
  <2> QED
    BY <2>8, <2>9, <2>10 DEF Agreed
<1> QED
  BY <1>1, <1>2

\* A commit nobody interferes with leaves each row with the status of its last
\* event.
LEMMA CommitAgrees ==
    ASSUME SInv, Agreed, OneAtATime, NEW n \in Notice, Commit(n)
    PROVE  Agreed'
<1> USE DEF SInv
<1>1. /\ loaded'[n] = Empty /\ queued'[n] = <<>> /\ Len(queued'[n]) = 0
      /\ \A c \in Notice : c # n => /\ queued'[c] = queued[c]
                                    /\ loaded'[c] = loaded[c]
                                    /\ dirty'[c] = dirty[c]
  BY DEF Commit, Forget, TypeOK
<1>2. ASSUME NEW m \in Message
      PROVE  /\ rows[m] # Absent => rows'[m] # Absent
             /\ loaded[n][m] # Absent => rows'[m].status = dirty[n][m].status
  <2>1. CASE loaded[n][m] = Absent
    BY <2>1, CommitWrites
  <2>2. CASE loaded[n][m] # Absent
    <3>1. rows'[m] = Merged(n, m) /\ rows'[m] # Absent
      BY <2>2, CommitWrites, RowType
    <3>2. rows[m] \in Row /\ loaded[n][m].status = rows[m].status
      BY <2>2 DEF TypeOK, Objects, Agreed, LoadedCurrent
    <3>3. "status" \in DOMAIN rows[m]
      BY <3>2 DEF Row
    <3>4. Merged(n, m)["status"] = IF dirty[n][m]["status"] # loaded[n][m]["status"]
                                     THEN dirty[n][m]["status"] ELSE rows[m]["status"]
      BY <3>3 DEF Merged
    <3>5. Merged(n, m).status = dirty[n][m].status
      BY <3>2, <3>4
    <3> QED
      BY <3>1, <3>5
  <2> QED
    BY <2>1, <2>2
<1>3. LoggedLast'
  <2> SUFFICES ASSUME NEW i \in 1 .. Len(log')
               PROVE  /\ rows'[log'[i].msg] # Absent
                      /\ Last(log', i) => rows'[log'[i].msg].status = log'[i].status
    BY DEF LoggedLast
  <2> DEFINE m == log'[i].msg
  <2>1. CASE i \in 1 .. Len(log)
    <3>1. log'[i] = log[i] /\ m \in Message /\ rows[m] # Absent
      BY <2>1, LogGrows, EventTypes DEF Agreed, LoggedLast
    <3>2. ASSUME Last(log', i) PROVE rows'[m].status = log[i].status
      <4>1. Last(log, i)
        <5>1. \A j \in 1 .. Len(log) : log'[j] = log[j] /\ j \in 1 .. Len(log')
          BY LogGrows, EventTypes
        <5> QED
          BY <2>1, <3>1, <3>2, <5>1 DEF Last
      <4>2. \A j \in 1 .. Len(queued[n]) : queued[n][j].msg # m
        <5> SUFFICES ASSUME NEW j \in 1 .. Len(queued[n]), queued[n][j].msg = m
                     PROVE  FALSE
          OBVIOUS
        <5>1. Len(log) + j \in 1 .. Len(log') /\ log'[Len(log) + j] = queued[n][j]
          BY LogGrows
        <5>2. Len(log) + j <= i
          BY <3>2, <5>1 DEF Last
        <5> QED
          BY <2>1, <5>2, EventTypes
      <4>3. rows'[m].status = rows[m].status
        BY <3>1, <4>2, CommitWrites DEF Told
      <4> QED
        BY <2>1, <3>1, <4>1, <4>3 DEF Agreed, LoggedLast
    <3> QED
      BY <1>2, <3>1, <3>2
  <2>2. CASE i \notin 1 .. Len(log)
    <3> DEFINE j == i - Len(log)
    <3>1. j \in 1 .. Len(queued[n]) /\ log'[i] = queued[n][j]
      BY <2>2, LogGrows
    <3>2. m \in Message /\ loaded[n][m] # Absent
      BY <3>1, EventTypes DEF Agreed, QueuedLast
    <3>3. rows[m] # Absent
      BY <3>2 DEF Objects
    <3>4. ASSUME Last(log', i) PROVE rows'[m].status = log'[i].status
      <4>1. Last(queued[n], j)
        <5> SUFFICES ASSUME NEW k \in 1 .. Len(queued[n]), queued[n][k].msg = queued[n][j].msg
                     PROVE  k <= j
          BY DEF Last
        <5>1. Len(log) + k \in 1 .. Len(log') /\ log'[Len(log) + k] = queued[n][k]
          BY LogGrows
        <5>2. Len(log) + k <= i
          BY <3>1, <3>4, <5>1 DEF Last
        <5> QED
          BY <5>2, EventTypes
      <4>2. dirty[n][m].status = queued[n][j].status
        BY <3>1, <4>1 DEF Agreed, QueuedLast
      <4> QED
        BY <1>2, <3>1, <3>2, <4>2
    <3> QED
      BY <1>2, <3>2, <3>3, <3>4
  <2> QED
    BY <2>1, <2>2
<1>4. LoadedCurrent'
  <2> SUFFICES ASSUME NEW c \in Notice, NEW m \in Message, loaded'[c][m] # Absent
               PROVE  loaded'[c][m].status = rows'[m].status
    BY DEF LoadedCurrent
  <2>1. c # n /\ loaded'[c] = loaded[c]
    BY <1>1 DEF Empty
  <2>2. loaded[n][m] = Absent
    BY <2>1 DEF OneAtATime
  <2>3. rows'[m] = rows[m]
    BY <2>2, CommitWrites
  <2> QED
    BY <2>1, <2>3 DEF Agreed, LoadedCurrent
<1>5. QueuedLast'
  BY <1>1 DEF Agreed, QueuedLast, Last
<1> QED
  BY <1>3, <1>4, <1>5 DEF Agreed

\* Where no provider reports reads, every step keeps the status and the last
\* event in agreement, as long as no two notices have the same message loaded.
LEMMA AgreedStep ==
    ASSUME \A n \in Notice : ~Reads(n), SInv, Agreed, OneAtATime, [Next]_vars
    PROVE  Agreed'
<1>1. ASSUME NEW m \in Message, Send(m) PROVE Agreed'
  <2>1. /\ rows[m] = Absent /\ UNCHANGED <<log, loaded, dirty, queued>>
        /\ rows' = [rows EXCEPT ![m] = [status |-> "queued", detail |-> NoNotice,
                                        at |-> NoNotice]]
    BY <1>1 DEF Send
  <2>2. \A l \in Message : l # m => rows'[l] = rows[l]
    BY <2>1 DEF SInv, TypeOK
  <2>3. \A n \in Notice : loaded[n][m] = Absent
    BY <2>1 DEF SInv, Objects
  <2>4. \A i \in 1 .. Len(log) : log[i].msg # m /\ log[i].msg \in Message
    BY <2>1, EventTypes DEF SInv, Agreed, LoggedLast
  <2>5. LoggedLast'
    <3>1. \A i \in 1 .. Len(log) : rows'[log[i].msg] = rows[log[i].msg]
      BY <2>2, <2>4
    <3> SUFFICES ASSUME NEW i \in 1 .. Len(log)
                 PROVE  /\ rows'[log[i].msg] # Absent
                        /\ Last(log, i) => rows'[log[i].msg].status = log[i].status
      BY <2>1 DEF LoggedLast, Last
    <3> QED
      BY <3>1 DEF Agreed, LoggedLast
  <2>6. LoadedCurrent'
    BY <2>1, <2>2, <2>3 DEF Agreed, LoadedCurrent
  <2>7. QueuedLast'
    BY <2>1 DEF Agreed, QueuedLast, Last
  <2> QED
    BY <2>5, <2>6, <2>7 DEF Agreed
<1>2. ASSUME NEW n \in Notice, Deliver(n) \/ Audit(n) \/ Redeliver(n) PROVE Agreed'
  <2>1. UNCHANGED <<rows, log, loaded, dirty, queued>>
    BY <1>2 DEF Deliver, Audit, Redeliver
  <2> QED
    BY <2>1 DEF Agreed, LoggedLast, LoadedCurrent, QueuedLast, Last
<1>3. ASSUME NEW n \in Notice, Fail(n) \/ CommitFails(n) PROVE Agreed'
  BY <1>3, ForgetAgrees DEF Fail, Raise, CommitFails
<1>4. CASE UNCHANGED vars
  BY <1>4 DEF vars, Agreed, LoggedLast, LoadedCurrent, QueuedLast, Last
<1> QED
  BY <1>1, <1>2, <1>3, <1>4, WriteAgrees, CommitAgrees DEF Next

\* The lost update needs two notices at once: where no provider reports reads,
\* and no two notices ever have the same message loaded, the status of a message
\* is always the one its last event announced.
THEOREM ApartNothingIsLost ==
    ASSUME \A n \in Notice : ~Reads(n)
    PROVE  Spec /\ []OneAtATime => []LastEventIsStatus
<1>1. Init => Agreed
  BY DEF Init, Agreed, LoggedLast, LoadedCurrent, QueuedLast, Empty
<1>2. SInv /\ Agreed /\ OneAtATime /\ [Next]_vars => Agreed'
  BY AgreedStep
<1>3. SInv /\ Agreed => LastEventIsStatus
  <2> SUFFICES ASSUME SInv, Agreed, NEW m \in Message, NEW i \in DOMAIN log, log[i].msg = m,
                      \A j \in DOMAIN log : log[j].msg = m => j <= i
               PROVE  rows[m].status = log[i].status
    BY DEF LastEventIsStatus
  <2>1. DOMAIN log = 1 .. Len(log)
    BY DEF SInv, TypeOK
  <2> QED
    BY <2>1 DEF Agreed, LoggedLast, Last
<1> QED
  BY <1>1, <1>2, <1>3, Invariance, PTL DEF Spec
=============================================================================
