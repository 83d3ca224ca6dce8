--------------------------- MODULE ServiceProofs ---------------------------
(* Proofs about Service, for any requests at once and any number of failures. *)
EXTENDS Service, Integers, TLAPS

\* What is left of the order at each point of the shutdown.
Rest1 == <<"database">>
Rest2 == <<"notaio", "database">>
Rest3 == <<"medici", "notaio", "database">>
Rest4 == <<"redis", "medici", "notaio", "database">>
Rest5 == <<"events", "redis", "medici", "notaio", "database">>

\* The clients that are still to be closed.
Unclosed ==
    CASE left = <<>>  -> {}
      [] left = Rest1 -> {"database"}
      [] left = Rest2 -> {"notaio", "database"}
      [] left = Rest3 -> {"medici", "notaio", "database"}
      [] OTHER        -> Client

Types ==
    /\ phase \in {"down", "serving", "draining", "ending"}
    /\ left \in {<<>>, Rest1, Rest2, Rest3, Rest4, Rest5, Order}
    /\ task \in [Task -> Alive \cup {"cancelled"} \cup Ended]
    /\ req \in [Request -> Client \cup {"none", "running"}]
    /\ open \subseteq Client
    /\ closed \subseteq Client
    /\ raised \in BOOLEAN

\* By the phase of the process.
Phases ==
    /\ phase # "ending" => left = <<>>
    /\ phase = "down" => \A t \in Task : task[t] \in Ended
    /\ phase \notin {"serving", "draining"} => \A r \in Request : req[r] = "none"
    /\ phase \in {"serving", "draining"} => closed = {}

\* By how far the shutdown has come.
Shutdown ==
    phase = "ending" =>
        /\ left # Order => task["outbox"] \in Ended
        /\ left \notin {Order, Rest5} => task["events"] \in Ended
        /\ left \in {Order, Rest5} => closed = {}
        /\ raised \/ open \subseteq Unclosed
        /\ left # <<>> => closed \cap Unclosed = {}

IInv == Types /\ Phases /\ Shutdown /\ open \cap closed = {}

-----------------------------------------------------------------------------
\* The rests follow one another and all differ.
LEMMA Rests ==
    /\ Head(Order) = "outbox" /\ Tail(Order) = Rest5
    /\ Head(Rest5) = "events" /\ Tail(Rest5) = Rest4
    /\ Head(Rest4) = "redis" /\ Tail(Rest4) = Rest3
    /\ Head(Rest3) = "medici" /\ Tail(Rest3) = Rest2
    /\ Head(Rest2) = "notaio" /\ Tail(Rest2) = Rest1
    /\ Head(Rest1) = "database" /\ Tail(Rest1) = <<>>
BY DEF Order, Rest1, Rest2, Rest3, Rest4, Rest5

\* They are all different.
LEMMA RestsDiffer ==
    /\ Order \notin {<<>>, Rest1, Rest2, Rest3, Rest4, Rest5}
    /\ Rest5 \notin {<<>>, Rest1, Rest2, Rest3, Rest4}
    /\ Rest4 \notin {<<>>, Rest1, Rest2, Rest3}
    /\ Rest3 \notin {<<>>, Rest1, Rest2}
    /\ Rest2 \notin {<<>>, Rest1}
    /\ Rest1 # <<>>
<1>1. Order # <<>> /\ Order # Rest1 /\ Order # Rest2 /\ Order # Rest3 /\ Order # Rest4 /\ Order # Rest5
  BY DEF Rest1, Rest2, Rest3, Rest4, Rest5, Order
<1>2. Rest5 # <<>> /\ Rest5 # Rest1 /\ Rest5 # Rest2 /\ Rest5 # Rest3 /\ Rest5 # Rest4
  BY DEF Rest1, Rest2, Rest3, Rest4, Rest5
<1>3. Rest4 # <<>> /\ Rest4 # Rest1 /\ Rest4 # Rest2 /\ Rest4 # Rest3
  BY DEF Rest1, Rest2, Rest3, Rest4
<1>4. Rest3 # <<>> /\ Rest3 # Rest1 /\ Rest3 # Rest2
  BY DEF Rest1, Rest2, Rest3
<1>5. Rest2 # <<>> /\ Rest2 # Rest1
  BY DEF Rest1, Rest2
<1>6. Rest1 # <<>>
  BY DEF Rest1
<1> QED
  BY <1>1, <1>2, <1>3, <1>4, <1>5, <1>6

\* Where shutdown is, its rest begins with what it is at.
LEMMA Where ==
    ASSUME Types, NEW x, At(x)
    PROVE  \/ x = "outbox" /\ left = Order /\ Tail(left) = Rest5
           \/ x = "events" /\ left = Rest5 /\ Tail(left) = Rest4
           \/ x = "redis" /\ left = Rest4 /\ Tail(left) = Rest3
           \/ x = "medici" /\ left = Rest3 /\ Tail(left) = Rest2
           \/ x = "notaio" /\ left = Rest2 /\ Tail(left) = Rest1
           \/ x = "database" /\ left = Rest1 /\ Tail(left) = <<>>
BY Rests DEF Types, At

-----------------------------------------------------------------------------
(* The invariant. *)

\* It holds initially.
LEMMA InitInv == Init => IInv
BY DEF Init, IInv, Types, Phases, Shutdown, Ended, Client

\* Start and the end of the process.
LEMMA PhaseStep ==
    ASSUME IInv, Start \/ Terminate \/ Drained \/ Exit \/ Crash
    PROVE  IInv'
<1> USE DEF IInv
<1>1. CASE Start
  BY <1>1 DEF Start, Types, Phases, Shutdown, Alive, Client, Ended
<1>2. CASE Terminate
  BY <1>2 DEF Terminate, Types, Phases, Shutdown
<1>3. CASE Drained
  <2>1. Types' /\ Phases'
    BY <1>3 DEF Drained, Types, Phases
  <2>2. left' = Order /\ closed' = {} /\ open' \subseteq Client
    BY <1>3 DEF Drained, Types, Phases
  <2>3. Unclosed' = Client
    BY <2>2, RestsDiffer DEF Unclosed
  <2> QED
    BY <2>1, <2>2, <2>3, RestsDiffer, <1>3 DEF Drained, Shutdown
<1>4. CASE Exit
  BY <1>4 DEF Exit, Types, Phases, Shutdown, Ended
<1>5. CASE Crash
  BY <1>5 DEF Crash, Types, Phases, Shutdown, Ended, Client
<1> QED
  BY <1>1, <1>2, <1>3, <1>4, <1>5

\* A drain that is not over still finds all clients open.
LEMMA Unended ==
    ASSUME IInv, NEW t \in Task, task[t] \notin Ended
    PROVE  /\ closed = {}
           /\ phase # "down"
           /\ phase = "ending" => Unclosed = Client
<1>1. phase = "ending" => left \in {Order, Rest5}
  BY DEF IInv, Shutdown, Task
<1> QED
  BY <1>1, RestsDiffer DEF IInv, Types, Phases, Shutdown, Unclosed

\* Steps of a drain before it is awaited.
LEMMA DrainStep ==
    ASSUME IInv, NEW t \in Task,
           Poll(t) \/ Polled(t) \/ PollFails(t) \/ Cancel(t) \/ Unwind(t)
    PROVE  IInv'
<1>1. task[t] \notin Ended /\ phase' = phase /\ left' = left /\ req' = req
      /\ closed' = closed /\ raised' = raised
  BY DEF Poll, Polled, PollFails, Cancel, Unwind, Ended, Alive
<1>2. open' \in {open, open \cup Uses(t)} /\ Uses(t) \subseteq Client
  BY DEF Poll, Polled, PollFails, Cancel, Unwind, Uses, Client
<1>3. \E s \in Alive \cup {"cancelled"} \cup Ended : SetTask(t, s)
  BY DEF Poll, Polled, PollFails, Cancel, Unwind, Alive, Ended
<1>4. task' \in [Task -> Alive \cup {"cancelled"} \cup Ended]
      /\ \A u \in Task \ {t} : task'[u] = task[u]
  BY <1>3 DEF SetTask, IInv, Types
<1>5. closed = {} /\ phase # "down" /\ (phase = "ending" => Unclosed = Client)
  BY <1>1, Unended
<1>6. Types'
  BY <1>1, <1>2, <1>4 DEF IInv, Types
<1>7. Phases'
  BY <1>1, <1>5 DEF IInv, Phases
<1>8. Unclosed' = Unclosed
  BY <1>1 DEF Unclosed
<1>9. Shutdown'
  <2>1. ASSUME phase = "ending", left # Order PROVE task'["outbox"] \in Ended
    BY <2>1, <1>1, <1>4 DEF IInv, Shutdown, Task
  <2>2. ASSUME phase = "ending", left \notin {Order, Rest5} PROVE task'["events"] \in Ended
    BY <2>2, <1>1, <1>4 DEF IInv, Shutdown, Task
  <2> QED
    BY <2>1, <2>2, <1>1, <1>5, <1>6, <1>8 DEF Shutdown, Types
<1> QED
  BY <1>1, <1>5, <1>6, <1>7, <1>9 DEF IInv

\* Steps of a request.
LEMMA RequestStep ==
    ASSUME IInv, NEW r \in Request,
           Arrive(r) \/ Leave(r) \/ Respond(r) \/ (\E c \in Client : Use(r, c))
    PROVE  IInv'
<1>1. phase \in {"serving", "draining"}
  BY DEF Arrive, Leave, Respond, Use, IInv, Types, Phases, Client
<1>2. closed = {}
  BY <1>1 DEF IInv, Phases
<1>3. UNCHANGED <<phase, left, task, closed, raised>>
  BY DEF Arrive, Leave, Respond, Use
<1>4. open' \subseteq Client
  BY DEF Arrive, Leave, Respond, Use, IInv, Types
<1>5. req' \in [Request -> Client \cup {"none", "running"}]
  BY DEF Arrive, Leave, Respond, Use, IInv, Types
<1> QED
  BY <1>1, <1>2, <1>3, <1>4, <1>5 DEF IInv, Types, Phases, Shutdown

\* A drain is awaited.
LEMMA AwaitStep ==
    ASSUME IInv, NEW t \in Task, Await(t)
    PROVE  IInv'
<1>1. phase = "ending" /\ task[t] \in Ended /\ left' = Tail(left)
      /\ UNCHANGED <<phase, task, req, open, closed, raised>>
  BY DEF Await, At
<1>2. \/ t = "outbox" /\ left = Order /\ left' = Rest5
      \/ t = "events" /\ left = Rest5 /\ left' = Rest4
  BY <1>1, Where DEF Await, Task, IInv
<1>3. closed = {} /\ Unclosed' = Client
  BY <1>1, <1>2, RestsDiffer DEF IInv, Shutdown, Unclosed
<1>4. Types' /\ Phases'
  BY <1>1, <1>2 DEF IInv, Types, Phases
<1>5. Shutdown'
  BY <1>1, <1>2, <1>3, <1>4, RestsDiffer DEF IInv, Shutdown, Types
<1> QED
  BY <1>1, <1>3, <1>4, <1>5 DEF IInv

\* A client is closed, or its close raises.
LEMMA CloseStep ==
    ASSUME IInv, NEW c \in Client, Close(c) \/ CloseFails(c)
    PROVE  IInv'
<1>1. phase = "ending" /\ At(c) /\ UNCHANGED <<phase, task, req>>
  BY DEF Close, CloseFails, At
<1>2. left \in {Rest1, Rest2, Rest3, Rest4}
  BY <1>1, Where DEF IInv, Client
<1>3. \A t \in Task : task[t] \in Ended
  BY <1>1, <1>2, RestsDiffer DEF IInv, Shutdown, Task
<1>4. CASE CloseFails(c)
  BY <1>1, <1>3, <1>4, RestsDiffer DEF CloseFails, IInv, Types, Phases, Shutdown, Task
<1>5. CASE Close(c)
  <2>1. left' = Tail(left) /\ open' = open \ {c} /\ closed' = closed \cup {c} /\ raised' = raised
    BY <1>5 DEF Close
  <2>2. Unclosed' = Unclosed \ {c} /\ left' \in {<<>>, Rest1, Rest2, Rest3}
    BY <1>1, <2>1, Where, RestsDiffer DEF IInv, Unclosed, Client
  <2>3. Types' /\ Phases'
    BY <1>1, <2>1, <2>2 DEF IInv, Types, Phases
  <2>4. Shutdown'
    BY <1>1, <1>2, <1>3, <2>1, <2>2, RestsDiffer DEF IInv, Shutdown, Task
  <2> QED
    BY <2>1, <2>3, <2>4 DEF IInv
<1> QED
  BY <1>4, <1>5

\* Every step preserves it.
LEMMA NextInv == IInv /\ [Next]_vars => IInv'
<1> SUFFICES ASSUME IInv, [Next]_vars PROVE IInv'
  OBVIOUS
<1>1. CASE UNCHANGED vars
  BY <1>1 DEF vars, IInv, Types, Phases, Shutdown, Unclosed
<1>2. CASE Start \/ Terminate \/ Drained \/ Exit \/ Crash
  BY <1>2, PhaseStep
<1>3. CASE \E t \in Task : Poll(t) \/ Polled(t) \/ PollFails(t) \/ Cancel(t) \/ Unwind(t)
  BY <1>3, DrainStep
<1>4. CASE \E t \in Task : Await(t)
  BY <1>4, AwaitStep
<1>5. CASE \E r \in Request :
             Arrive(r) \/ Leave(r) \/ Respond(r) \/ (\E c \in Client : Use(r, c))
  BY <1>5, RequestStep
<1>6. CASE \E c \in Client : Close(c) \/ CloseFails(c)
  BY <1>6, CloseStep
<1> QED
  BY <1>1, <1>2, <1>3, <1>4, <1>5, <1>6 DEF Next, Finally

\* The invariant holds in every reachable state.
LEMMA Invariance == Spec => []IInv
BY InitInv, NextInv, PTL DEF Spec

-----------------------------------------------------------------------------
(* The theorems. *)

\* Clients outlive the requests and the drains that use them.
THEOREM ClientsStayOpen == Spec => []ClientsOutliveUsers
<1>1. IInv => ClientsOutliveUsers
  <2> SUFFICES ASSUME IInv PROVE ClientsOutliveUsers
    OBVIOUS
  <2>1. \A r \in Request : req[r] \notin closed
    <3>1. "none" \notin Client
      BY DEF Client
    <3> QED
      BY <3>1 DEF IInv, Types, Phases
  <2>2. ASSUME NEW t \in Task, task[t] \in {"polling", "cancelled"}
        PROVE  Uses(t) \cap closed = {}
    <3>1. task[t] \notin Ended
      BY <2>2 DEF Ended
    <3> QED
      BY <3>1, Unended
  <2> QED
    BY <2>1, <2>2 DEF IInv, ClientsOutliveUsers
<1> QED
  BY <1>1, Invariance, PTL

\* A shutdown ends the drains and closes the clients, unless a close raises.
THEOREM StopIsClean == Spec => []CleanStop
<1>1. IInv => CleanStop
  <2> SUFFICES ASSUME IInv, phase = "ending", left = <<>>
               PROVE  (\A t \in Task : task[t] \in Ended) /\ (open = {} \/ raised)
    BY DEF CleanStop
  <2>1. \A t \in Task : task[t] \in Ended
    BY RestsDiffer DEF IInv, Shutdown, Task
  <2>2. Unclosed = {}
    BY RestsDiffer DEF Unclosed
  <2>3. open = {} \/ raised
    BY <2>2 DEF IInv, Shutdown
  <2> QED
    BY <2>1, <2>3
<1> QED
  BY <1>1, Invariance, PTL

-----------------------------------------------------------------------------
(* Shutdown gets nearer to its end. *)

\* How long the rests are.
LEMMA Lengths ==
    /\ Len(Order) = 6 /\ Len(Rest5) = 5 /\ Len(Rest4) = 4 /\ Len(Rest3) = 3
    /\ Len(Rest2) = 2 /\ Len(Rest1) = 1 /\ Len(<<>>) = 0
BY DEF Order, Rest1, Rest2, Rest3, Rest4, Rest5

\* Each step of lifespan makes the rest one shorter.
LEMMA TailIsShorter ==
    ASSUME NEW l \in {Rest1, Rest2, Rest3, Rest4, Rest5, Order}
    PROVE  Len(l) \in 1 .. 6 /\ Len(Tail(l)) = Len(l) - 1
<1>1. CASE l = Order
  <2>1. Tail(l) = Rest5
    BY <1>1, Rests
  <2>2. Len(l) = 6 /\ Len(Tail(l)) = 5
    BY <1>1, <2>1, Lengths
  <2> QED
    BY <2>2
<1>2. CASE l = Rest5
  <2>1. Tail(l) = Rest4
    BY <1>2, Rests
  <2>2. Len(l) = 5 /\ Len(Tail(l)) = 4
    BY <1>2, <2>1, Lengths
  <2> QED
    BY <2>2
<1>3. CASE l = Rest4
  <2>1. Tail(l) = Rest3
    BY <1>3, Rests
  <2>2. Len(l) = 4 /\ Len(Tail(l)) = 3
    BY <1>3, <2>1, Lengths
  <2> QED
    BY <2>2
<1>4. CASE l = Rest3
  <2>1. Tail(l) = Rest2
    BY <1>4, Rests
  <2>2. Len(l) = 3 /\ Len(Tail(l)) = 2
    BY <1>4, <2>1, Lengths
  <2> QED
    BY <2>2
<1>5. CASE l = Rest2
  <2>1. Tail(l) = Rest1
    BY <1>5, Rests
  <2>2. Len(l) = 2 /\ Len(Tail(l)) = 1
    BY <1>5, <2>1, Lengths
  <2> QED
    BY <2>2
<1>6. CASE l = Rest1
  <2>1. Tail(l) = <<>>
    BY <1>6, Rests
  <2>2. Len(l) = 1 /\ Len(Tail(l)) = 0
    BY <1>6, <2>1, Lengths
  <2> QED
    BY <2>2
<1> QED
  BY <1>1, <1>2, <1>3, <1>4, <1>5, <1>6

\* What is left is counted in numbers.
LEMMA Counts ==
    ASSUME Types
    PROVE  /\ Len(left) \in 0 .. 6
           /\ \A t \in Task : DrainLeft(t) \in 0 .. 2
           /\ phase = "ending" => ToDo > 0
<1>1. Len(left) \in 0 .. 6
  BY Lengths DEF Types
<1>2. \A t \in Task : DrainLeft(t) \in 0 .. 2
  BY DEF DrainLeft
<1>3. DrainLeft("outbox") \in 0 .. 2 /\ DrainLeft("events") \in 0 .. 2
  BY <1>2 DEF Task
<1>4. phase = "ending" => ToDo > 0
  BY <1>1, <1>3 DEF ToDo
<1> QED
  BY <1>1, <1>2, <1>4

\* A drain that takes a step has no more to do than before.
LEMMA DrainAdvances ==
    ASSUME IInv, NEW t \in Task,
           Poll(t) \/ Polled(t) \/ PollFails(t) \/ Cancel(t) \/ Unwind(t)
    PROVE  /\ UNCHANGED <<phase, left>>
           /\ DrainLeft(t)' <= DrainLeft(t)
           /\ Cancel(t) \/ Unwind(t) => DrainLeft(t)' < DrainLeft(t)
           /\ \A u \in Task \ {t} : DrainLeft(u)' = DrainLeft(u)
<1>1. PICK s \in Alive \cup {"cancelled"} \cup Ended :
        /\ task' = [task EXCEPT ![t] = s]
        /\ UNCHANGED <<phase, left>>
        /\ s \in Alive => task[t] \in Alive
        /\ task[t] \in Alive \cup {"cancelled"}
        /\ Cancel(t) => task[t] \in Alive /\ s = "cancelled"
        /\ Unwind(t) => task[t] = "cancelled" /\ s \in Ended
        /\ task[t] = "cancelled" => s \in Ended
  BY DEF Poll, Polled, PollFails, Cancel, Unwind, SetTask, Alive, Ended
<1>2. task'[t] = s /\ \A u \in Task \ {t} : task'[u] = task[u]
  BY <1>1 DEF IInv, Types
<1>3. \A u \in Task \ {t} : DrainLeft(u)' = DrainLeft(u)
  BY <1>2 DEF DrainLeft
<1>4. DrainLeft(t)' <= DrainLeft(t)
  BY <1>1, <1>2 DEF DrainLeft, Alive, Ended
<1>5. Cancel(t) \/ Unwind(t) => DrainLeft(t)' < DrainLeft(t)
  BY <1>1, <1>2 DEF DrainLeft, Alive, Ended
<1> QED
  BY <1>1, <1>3, <1>4, <1>5

\* Every step advances a shutdown, or leaves it where it is.
LEMMA ShutdownStep ==
    ASSUME IInv, [Next]_vars, phase \in {"draining", "ending"}
    PROVE  ToDo' <= ToDo /\ (Finally => ToDo' < ToDo)
<1> DEFINE o == DrainLeft("outbox")
           e == DrainLeft("events")
           L == Len(left)
<1>0. /\ o \in 0 .. 2 /\ e \in 0 .. 2 /\ L \in 0 .. 6
      /\ o' \in 0 .. 2 /\ e' \in 0 .. 2
  <2>1. IInv'
    BY NextInv
  <2> QED
    BY <2>1, Counts DEF DrainLeft, IInv, Task
<1>1. ToDo = (IF phase = "draining" THEN 8 ELSE L + 1) + o + e
  BY <1>0, Lengths DEF ToDo
<1>2. phase' \notin {"draining", "ending"} => ToDo' = 0
  BY DEF ToDo
<1>3. ASSUME phase' = "ending" PROVE ToDo' = Len(left') + 1 + o' + e'
  BY <1>3 DEF ToDo
<1>4. ASSUME phase' = "draining" PROVE ToDo' = 8 + o' + e'
  BY <1>0, <1>4, Lengths DEF ToDo
<1> HIDE DEF o, e
<1>5. ASSUME UNCHANGED <<phase, left>> PROVE ToDo' - ToDo = (o' - o) + (e' - e)
  <2>1. CASE phase = "draining"
    BY <1>0, <1>1, <1>4, <1>5, <2>1
  <2>2. CASE phase = "ending"
    BY <1>0, <1>1, <1>3, <1>5, <2>2
  <2> QED
    BY <2>1, <2>2
<1>6. ToDo \in Nat /\ ToDo > 0
  BY <1>0, <1>1
<1>7. ASSUME NEW t \in Task,
             Poll(t) \/ Polled(t) \/ PollFails(t) \/ Cancel(t) \/ Unwind(t)
      PROVE  ToDo' <= ToDo /\ (Cancel(t) \/ Unwind(t) => ToDo' < ToDo)
  <2>1. /\ UNCHANGED <<phase, left>>
        /\ DrainLeft(t)' <= DrainLeft(t)
        /\ Cancel(t) \/ Unwind(t) => DrainLeft(t)' < DrainLeft(t)
        /\ \A u \in Task \ {t} : DrainLeft(u)' = DrainLeft(u)
    BY <1>7, DrainAdvances
  <2>2. ToDo' - ToDo = (o' - o) + (e' - e) /\ ToDo' \in Int
    <3>1. ToDo' \in Int
      <4>1. CASE phase = "draining"
        BY <1>0, <1>4, <2>1, <4>1
      <4>2. CASE phase = "ending"
        BY <1>0, <1>3, <2>1, <4>2
      <4> QED
        BY <4>1, <4>2
    <3> QED
      BY <1>5, <2>1, <3>1
  <2>3. CASE t = "outbox"
    <3>1. e' = e /\ o' <= o /\ (Cancel(t) \/ Unwind(t) => o' < o)
      BY <2>1, <2>3 DEF o, e, Task
    <3> QED
      BY <1>0, <1>6, <2>2, <3>1
  <2>4. CASE t = "events"
    <3>1. o' = o /\ e' <= e /\ (Cancel(t) \/ Unwind(t) => e' < e)
      BY <2>1, <2>4 DEF o, e, Task
    <3> QED
      BY <1>0, <1>6, <2>2, <3>1
  <2> QED
    BY <2>3, <2>4 DEF Task
<1>8. ASSUME phase = "ending", phase' = "ending", UNCHANGED task, left # <<>>,
             left' = Tail(left) \/ left' = <<>>
      PROVE  ToDo' < ToDo
  <2>1. o' = o /\ e' = e
    BY <1>8 DEF o, e, DrainLeft
  <2>2. Len(left') < L /\ Len(left') \in Nat
    <3>1. left \in {Rest1, Rest2, Rest3, Rest4, Rest5, Order}
      BY <1>8 DEF IInv, Types
    <3>2. Len(left) \in 1 .. 6 /\ Len(Tail(left)) = Len(left) - 1
      BY <3>1, TailIsShorter
    <3>3. Len(<<>>) = 0
      BY Lengths
    <3>4. left' = Tail(left) \/ left' = <<>>
      BY <1>8
    <3> QED
      BY <3>2, <3>3, <3>4
  <2> QED
    BY <1>0, <1>1, <1>3, <1>8, <2>1, <2>2
<1>9. ASSUME NEW t \in Task, Await(t) PROVE ToDo' < ToDo
  BY <1>8, <1>9 DEF Await, At
<1>10. ASSUME NEW c \in Client, Close(c) \/ CloseFails(c) PROVE ToDo' < ToDo
  BY <1>8, <1>10 DEF Close, CloseFails, At
<1>11. CASE Drained
  <2>1. phase = "draining" /\ phase' = "ending" /\ Len(left') = 6
    BY <1>11, Lengths DEF Drained
  <2>2. o' = o /\ e' = e
    BY <1>11 DEF Drained, o, e, DrainLeft
  <2> QED
    BY <1>0, <1>1, <1>3, <2>1, <2>2
<1>12. CASE Exit \/ Crash
  <2>1. phase' = "down"
    BY <1>12 DEF Exit, Crash
  <2> QED
    BY <1>2, <1>6, <2>1
<1>13. ASSUME UNCHANGED <<phase, left, task>> PROVE ToDo' = ToDo
  BY <1>13 DEF ToDo, DrainLeft
<1>14. Finally => ToDo' < ToDo
  BY <1>7, <1>9, <1>10, <1>11, <1>12 DEF Finally
<1>15. ToDo' < ToDo => ToDo' <= ToDo
  <2>1. ToDo' \in Int
    <3>1. phase' = "ending" => Len(left') \in 0 .. 6
      <4>1. IInv'
        BY NextInv
      <4>2. left' \in {<<>>, Rest1, Rest2, Rest3, Rest4, Rest5, Order}
        BY <4>1 DEF IInv, Types
      <4> QED
        BY <4>2, Lengths
    <3> QED
      BY <1>0, <1>2, <1>3, <1>4, <3>1
  <2> QED
    BY <1>6, <2>1
<1>16. ToDo' <= ToDo
  <2>1. CASE UNCHANGED vars
    BY <1>6, <1>13, <2>1 DEF vars
  <2>2. CASE Start \/ Terminate
    BY <2>2 DEF Start, Terminate
  <2>3. ASSUME NEW r \in Request,
               Arrive(r) \/ Leave(r) \/ Respond(r) \/ (\E c \in Client : Use(r, c))
        PROVE  ToDo' <= ToDo
    <3>1. UNCHANGED <<phase, left, task>>
      BY <2>3 DEF Arrive, Leave, Respond, Use
    <3> QED
      BY <1>6, <1>13, <3>1
  <2> QED
    BY <1>7, <1>10, <1>12, <1>14, <1>15, <2>1, <2>2, <2>3 DEF Next
<1> QED
  BY <1>14, <1>16

\* Once a shutdown has begun, every step of lifespan brings it nearer to its end
\* and nothing else takes it back.
THEOREM ShutdownAdvances == Spec => ShutdownNears
<1>1. IInv /\ [Next]_vars => [Advances]_vars
  BY ShutdownStep DEF Advances
<1> QED
  BY <1>1, Invariance, PTL DEF Spec, ShutdownNears
=============================================================================
