------------------------ MODULE LaneExactlyOnceProofs ------------------------
(***************************************************************************)
(* While nothing fails, a notification is delivered or dead-lettered once, *)
(* for any notifications, lanes, workers and limits.                       *)
(***************************************************************************)
EXTENDS LaneDuplicatesProofs

(***************************************************************************)
(* The inductive invariant                                                 *)
(***************************************************************************)
\* A worker that nothing happened to: it serves over two open connections, or
\* was not started, and only the publish it waits for is on the wire.
Steady(w) ==
  /\ pc[w] \notin {"nack", "returned"}
  /\ main[w] \in {"off", "serving"}
  /\ main[w] = "off" <=> pc[w] = "off"
  /\ main[w] = "serving" => pubUp[w] /\ consUp[w]
  /\ pc[w] = "off" => held[w] = {} /\ inbox[w] = <<>> /\ ~consUp[w]
  /\ conf[w] \in {"none", "pending", "ack"}
  /\ wire[w] # <<>> => Len(wire[w]) = 1 /\ conf[w] = "pending"

\* A handler has done with copy i what there is to do, but for the Ack.
Spent(i) ==
  \E w \in Worker :
    cur[w] = i /\ (pc[w] = "settle" \/ (pc[w] = "confirm" /\ conf[w] = "ack"))

Open(m) == {i \in InLane(m) : ~Spent(i)}

\* Either one copy is still to be worked on, the youngest, or the notification
\* has its one outcome.
Once ==
  \A m \in Msg :
    /\ sends[m] <= 1
    /\ sends[m] > 0 => Known(m) /\ InDead(m) = {}
    /\ \A i, j \in InDead(m) : i = j
    /\ \A i \in Open(m) :
         /\ sends[m] = 0 /\ InDead(m) = {}
         /\ \A j \in Copies : store[j].id = m => j <= i

Undisturbed ==
  faults = 0 => (\A w \in Worker : Steady(w)) /\ Once

(***************************************************************************)
(* The steps that remain                                                   *)
(***************************************************************************)
\* What a step without a fault can be: nothing stops, is refused or given up.
CalmStep(w) ==
  \/ Start(w) \/ Deliver(w) \/ BrokerTakes(w) \/ Take(w)
  \/ Drop(w) \/ PassLimiter(w) \/ SendOk(w) \/ SendFails(w)
  \/ Retry(w) \/ DeadLetter(w) \/ Confirmed(w) \/ Ack(w)

LEMMA FaultsStay ==
  ASSUME TypeOK, [Next]_vars, faults' = 0
  PROVE  faults = 0
BY FaultsStep DEF TypeOK

LEMMA CalmCases ==
  ASSUME TypeOK, [Next]_vars, faults = 0, faults' = 0, \A w \in Worker : Steady(w)
  PROVE  \/ \E m \in Msg : Enqueue(m)
         \/ \E w \in Worker : CalmStep(w)
         \/ UNCHANGED vars
<1>1. ~Fault
  BY DEF Fault
<1>2. \A w \in Worker : /\ pc[w] \notin {"nack", "returned"} /\ conf[w] # "nack"
                        /\ main[w] \in {"off", "serving"}
                        /\ pc[w] # "off" => main[w] = "serving"
                        /\ main[w] = "serving" => consUp[w]
  BY DEF Steady
<1>3. ASSUME NEW w \in Worker, Start(w) \/ Deliver(w) \/ BrokerTakes(w) \/ BrokerRefuses(w)
      PROVE  CalmStep(w)
  BY <1>1, <1>3 DEF CalmStep, BrokerRefuses
<1>4. ASSUME NEW w \in Worker, Handle(w)
      PROVE  CalmStep(w)
  <2>1. ~LimiterCancelled(w)
    BY <1>2 DEF LimiterCancelled, Move, Cancelled
  <2>2. ~SendAmbiguous(w)
    BY <1>1 DEF SendAmbiguous
  <2>3. ~ConfirmNacked(w)
    BY <1>2 DEF ConfirmNacked
  <2>4. ~ConfirmAbandoned(w)
    BY <1>1, <1>2 DEF ConfirmAbandoned, Move, Cancelled
  <2>5. ~Nack(w)
    BY <1>2 DEF Nack, Settle, Move
  <2> QED
    BY <1>4, <2>1, <2>2, <2>3, <2>4, <2>5 DEF Handle, CalmStep
<1>5. ASSUME NEW w \in Worker, RunReturns(w) \/ RunDrained(w)
      PROVE  FALSE
  BY <1>2, <1>5 DEF RunReturns, RunDrained, Move, Cancelled
<1>6. ASSUME NEW w \in Worker, Shutdown(w)
      PROVE  FALSE
  BY <1>2, <1>6 DEF Shutdown, ClosePublisher, CloseConsumer, Exit
<1>7. ASSUME NEW w \in Worker, Fail(w)
      PROVE  FALSE
  BY <1>1, <1>7 DEF Fail, Signal, Crash, LosePublisherConn, LoseConsumerConn
<1> QED
  BY <1>3, <1>4, <1>5, <1>6, <1>7 DEF Next, StepOf, Run, CalmStep

(***************************************************************************)
(* Each part of the invariant is kept                                      *)
(***************************************************************************)
LEMMA SteadyStep ==
  ASSUME TypeOK, ConfirmOwn, \A w \in Worker : Steady(w),
         (\E m \in Msg : Enqueue(m)) \/ (\E w \in Worker : CalmStep(w)) \/ UNCHANGED vars
  PROVE  \A w \in Worker : Steady(w)'
<1> USE DEF brokerVars, handlerVars, procVars, pubVars, history
<1>1. CASE UNCHANGED vars \/ \E m \in Msg : Enqueue(m)
  BY <1>1 DEF vars, Enqueue, Steady
<1>2. ASSUME NEW w \in Worker, NEW v \in Worker, v # w, CalmStep(w)
      PROVE  Steady(v)'
  <2>1. CASE Start(w) \/ Deliver(w) \/ BrokerTakes(w) \/ Take(w)
    BY <1>2, <2>1 DEF TypeOK, Steady, Start, Deliver, BrokerTakes, Answer, Take, Move
  <2>2. CASE Drop(w) \/ PassLimiter(w) \/ SendOk(w) \/ SendFails(w)
    BY <1>2, <2>2 DEF TypeOK, Steady, Drop, PassLimiter, SendOk, SendFails, Move
  <2>3. CASE Retry(w) \/ DeadLetter(w) \/ Confirmed(w) \/ Ack(w)
    BY <1>2, <2>3 DEF TypeOK, Steady, Retry, DeadLetter, Publish, Confirmed, Ack, Settle, Move
  <2> QED
    BY <1>2, <2>1, <2>2, <2>3 DEF CalmStep
<1>3. ASSUME NEW w \in Worker, CalmStep(w)
      PROVE  Steady(w)'
  <2>1. CASE Start(w)
    BY <2>1 DEF TypeOK, Steady, Start, Move
  <2>2. CASE Deliver(w)
    BY <2>2 DEF TypeOK, Steady, Deliver
  <2>3. CASE BrokerTakes(w)
    <3>1. wire'[w] = <<>>
      <4>1. wire[w] \in Seq(Copy) /\ wire[w] # <<>> /\ Len(wire[w]) = 1 /\ wire' = [wire EXCEPT ![w] = Tail(wire[w])]
        BY <2>3 DEF BrokerTakes, Steady, TypeOK
      <4>2. Tail(wire[w]) \in Seq(Copy) /\ Len(Tail(wire[w])) = 0
        BY <4>1, HeadTailProperties, EmptySeq
      <4> QED
        BY <4>1, <4>2, EmptySeq DEF TypeOK
    <3> QED
      BY <2>3, <3>1 DEF TypeOK, Steady, BrokerTakes, Answer
  <2>4. CASE Take(w)
    BY <2>4 DEF TypeOK, Steady, Take, Move
  <2>5. CASE Drop(w) \/ PassLimiter(w) \/ SendOk(w) \/ SendFails(w)
    BY <2>5 DEF TypeOK, Steady, Drop, PassLimiter, SendOk, SendFails, Move
  <2>6. CASE Retry(w) \/ DeadLetter(w)
    <3>1. PICK c : Publish(w, c) /\ pc[w] = "failed"
      BY <2>6 DEF Retry, DeadLetter
    <3>2. pubUp[w] /\ wire[w] = <<>>
      BY <3>1 DEF Steady, ConfirmOwn, TypeOK
    <3>3. wire'[w] = <<c>> /\ conf'[w] = "pending" /\ pc'[w] = "confirm"
      BY <3>1, <3>2 DEF Publish, TypeOK
    <3> QED
      BY <3>1, <3>2, <3>3 DEF Publish, Steady
  <2>7. CASE Confirmed(w)
    BY <2>7 DEF TypeOK, Steady, Confirmed, Move
  <2>8. CASE Ack(w)
    BY <2>8 DEF TypeOK, Steady, Ack, Settle, Move
  <2> QED
    BY <1>3, <2>1, <2>2, <2>3, <2>4, <2>5, <2>6, <2>7, <2>8 DEF CalmStep
<1> QED
  BY <1>1, <1>2, <1>3

\* What a handler works on is the copy of its notification still open.
LEMMA HandledIsOpen ==
  ASSUME TypeOK, Deliveries, \A v \in Worker : Steady(v), Once, NEW w \in Worker, Handling(w),
         pc[w] # "settle", pc[w] = "confirm" => conf[w] # "ack"
  PROVE  /\ Handled(w).id \in Msg
         /\ Open(Handled(w).id) = {cur[w]}
<1>1. cur[w] \in Copies /\ Handled(w).id \in Msg
  BY HandledType
<1>2. \A v \in Worker : Handling(v) =>
        cur[v] \in held[v] /\ cur[v] \in Pending /\ store[cur[v]].key # Dead
  BY DEF Deliveries, InHand, Steady, Handling
<1>3. ~Spent(cur[w])
  <2>1. ASSUME NEW v \in Worker, cur[v] = cur[w], pc[v] = "settle" \/ pc[v] = "confirm"
        PROVE  v = w
    BY <1>2, <2>1 DEF Deliveries, Handling, Steps
  <2> QED
    BY <2>1 DEF Spent
<1>4. cur[w] \in Open(Handled(w).id)
  BY <1>2, <1>3 DEF Open, InLane, PendingOf, Handled
<1>5. ASSUME NEW j \in Open(Handled(w).id) PROVE j = cur[w]
  <2>1. \A k \in Open(Handled(w).id) : k \in Copies /\ store[k].id = Handled(w).id
    BY DEF Open, InLane, PendingOf, Pending
  <2>2. j <= cur[w] /\ cur[w] <= j
    BY <1>1, <1>4, <1>5, <2>1 DEF Once
  <2>3. j \in Nat /\ cur[w] \in Nat
    BY <1>4, <1>5, <2>1 DEF Copies
  <2> QED
    BY <2>2, <2>3
<1> QED
  BY <1>1, <1>4, <1>5

\* A new copy is the youngest.
LEMMA AppendedCopy ==
  ASSUME TypeOK, NEW c \in Copy, store' = Append(store, c), UNCHANGED acked
  PROVE  \E last \in Nat :
           /\ Copies' = Copies \cup {last}
           /\ \A i \in Copies : i < last /\ store'[i] = store[i]
           /\ store'[last] = c
           /\ Pending' = Pending \cup {last}
<1> DEFINE last == Len(store) + 1
<1>1. /\ Len(store) \in Nat
      /\ Len(store') = last
      /\ store'[last] = c
      /\ \A i \in Copies : store'[i] = store[i]
  BY AppendProperties, LenProperties DEF TypeOK, Copies
<1>2. Copies' = Copies \cup {last} /\ last \notin acked /\ \A i \in Copies : i < last
  BY <1>1 DEF Copies, TypeOK
<1>3. Pending' = Pending \cup {last}
  BY <1>2 DEF Pending
<1>4. last \in Nat
  BY <1>1
<1> HIDE DEF last
<1> QED
  BY <1>1, <1>2, <1>3, <1>4

LEMMA OnceKept ==
  ASSUME Once, UNCHANGED <<store, sends>>, \A m \in Msg : Open(m)' \subseteq Open(m)
  PROVE  Once'
BY DEF Once, Known, InDead, Copies

\* The steps that neither deliver nor add or acknowledge a copy.
LEMMA QuietStep ==
  ASSUME TypeOK, Once, NEW w \in Worker,
         \/ Start(w) \/ Deliver(w) \/ Take(w) \/ Drop(w) \/ PassLimiter(w) \/ SendFails(w)
         \/ Retry(w) \/ DeadLetter(w) \/ Confirmed(w)
  PROVE  Once'
<1>1. UNCHANGED <<store, acked, sends>>
  BY DEF Start, Deliver, Take, Drop, PassLimiter, SendFails, Retry, DeadLetter, Publish,
         Confirmed, brokerVars, history
<1>2. \A v \in Worker : v # w => UNCHANGED <<cur[v], pc[v], conf[v]>>
  BY DEF TypeOK, Start, Deliver, Take, Drop, PassLimiter, SendFails, Retry, DeadLetter, Publish,
         Confirmed, Move, pubVars
<1>3. \/ ~(pc[w] = "settle" \/ (pc[w] = "confirm" /\ conf[w] = "ack"))
      \/ UNCHANGED <<cur[w], pc[w], conf[w]>>
      \/ cur'[w] = cur[w] /\ pc'[w] = "settle"
  BY DEF TypeOK, Start, Deliver, Take, Drop, PassLimiter, SendFails, Retry, DeadLetter,
         Confirmed, Move, pubVars
<1>4. \A i : Spent(i) => Spent(i)'
  BY <1>2, <1>3 DEF Spent
<1>5. \A m \in Msg : Open(m)' \subseteq Open(m)
  BY <1>1, <1>4 DEF Open, InLane, PendingOf, Pending, Copies
<1> QED
  BY <1>1, <1>5, OnceKept

LEMMA EnqueueOnce ==
  ASSUME TypeOK, Once, NEW m \in Msg, Enqueue(m)
  PROVE  Once'
<1>1. FreshCopy(m) \in Copy /\ FreshCopy(m).id = m /\ FreshCopy(m).key # Dead
  BY LaneAssumption DEF FreshCopy, Copy
<1>2. /\ store' = Append(store, FreshCopy(m))
      /\ UNCHANGED <<acked, cur, pc, conf, sends>>
      /\ \A i \in Copies : store[i].id # m
  BY DEF Enqueue, handlerVars, pubVars, history
<1>3. PICK last \in Nat :
        /\ Copies' = Copies \cup {last}
        /\ \A i \in Copies : i < last /\ store'[i] = store[i]
        /\ store'[last] = FreshCopy(m)
        /\ Pending' = Pending \cup {last}
  BY <1>1, <1>2, AppendedCopy
<1>4. \A n \in Msg : InDead(n)' = InDead(n) /\ (Known(n) => Known(n)')
  BY <1>1, <1>3 DEF InDead, Known
<1>5. \A n \in Msg : n # m => Open(n)' \subseteq Open(n)
  <2>1. ASSUME NEW n \in Msg, n # m, NEW j \in Open(n)' PROVE j \in Open(n)
    <3>1. j \in Copies' /\ j \notin acked /\ store'[j].id = n /\ store'[j].key # Dead
      BY <1>2, <2>1 DEF Open, InLane, PendingOf, Pending
    <3>2. j \in Copies /\ store'[j] = store[j]
      BY <1>1, <1>3, <2>1, <3>1
    <3>3. Spent(j) => Spent(j)'
      BY <1>2 DEF Spent
    <3> QED
      BY <2>1, <3>1, <3>2, <3>3 DEF Open, InLane, PendingOf, Pending
  <2> QED
    BY <2>1
<1>6. ASSUME NEW n \in Msg, n # m
      PROVE  \A j \in Copies' : store'[j].id = n => j \in Copies /\ store[j].id = n
  BY <1>1, <1>3, <1>6
<1>7. \A n \in Msg : n = m =>
        /\ sends[n] = 0 /\ InDead(n) = {}
        /\ \A j \in Copies' : store'[j].id = n => j = last
        /\ Open(n)' \subseteq {last}
  <2>1. ~Known(m) /\ sends[m] \in Nat
    BY <1>2 DEF Known, TypeOK
  <2>2. sends[m] = 0
    BY <2>1 DEF Once
  <2>3. InDead(m) = {}
    BY <1>2 DEF InDead
  <2>4. \A j \in Copies' : store'[j].id = m => j = last
    BY <1>2, <1>3
  <2>5. Open(m)' \subseteq Copies' /\ \A j \in Open(m)' : store'[j].id = m
    BY DEF Open, InLane, PendingOf, Pending
  <2> QED
    BY <2>2, <2>3, <2>4, <2>5
<1>8. ASSUME NEW n \in Msg
      PROVE  /\ sends'[n] <= 1
             /\ sends'[n] > 0 => Known(n)' /\ InDead(n)' = {}
             /\ \A i, j \in InDead(n)' : i = j
  BY <1>2, <1>4 DEF Once
<1>9. ASSUME NEW n \in Msg, NEW i \in Open(n)'
      PROVE  /\ sends'[n] = 0 /\ InDead(n)' = {}
             /\ \A j \in Copies' : store'[j].id = n => j <= i
  <2>1. CASE n = m
    <3>1. i = last
      BY <1>7, <1>9, <2>1
    <3>2. sends'[n] = 0 /\ InDead(n)' = {}
      BY <1>2, <1>4, <1>7, <2>1
    <3>3. \A j \in Copies' : store'[j].id = n => j = last
      BY <1>7, <2>1
    <3> QED
      BY <3>1, <3>2, <3>3
  <2>2. CASE n # m
    <3>1. i \in Open(n)
      BY <1>5, <1>9, <2>2
    <3> QED
      BY <1>2, <1>4, <1>6, <2>2, <3>1 DEF Once
  <2> QED
    BY <2>1, <2>2
<1> QED
  BY <1>8, <1>9 DEF Once

LEMMA SendOnce ==
  ASSUME TypeOK, Deliveries, \A v \in Worker : Steady(v), Once, NEW w \in Worker, SendOk(w)
  PROVE  Once'
<1> DEFINE m == Handled(w).id
<1>1. pc[w] = "send" /\ Handling(w)
  BY DEF SendOk, Move, Handling, Steps
<1>2. m \in Msg /\ Open(m) = {cur[w]}
  BY <1>1, HandledIsOpen
<1>3. /\ UNCHANGED <<store, acked, cur, conf>>
      /\ pc' = [pc EXCEPT ![w] = "settle"]
      /\ sends' = [sends EXCEPT ![m] = @ + 1]
  BY DEF SendOk, Move, brokerVars, pubVars
<1>4. sends[m] = 0 /\ InDead(m) = {} /\ Known(m)
  <2>1. cur[w] \in Copies /\ store[cur[w]].id = m
    BY <1>1, HandledType DEF Handled
  <2> QED
    BY <1>2, <2>1 DEF Once, Known
<1>5. \A n : InDead(n)' = InDead(n) /\ Known(n)' = Known(n)
  BY <1>3 DEF InDead, Known, Copies
<1>6. \A i : Spent(i)' <=> Spent(i) \/ i = cur[w]
  BY <1>1, <1>3 DEF Spent, TypeOK
<1>7. \A n \in Msg : Open(n)' = Open(n) \ {cur[w]}
  BY <1>3, <1>6 DEF Open, InLane, PendingOf, Pending, Copies
<1>8. sends'[m] = 1 /\ \A n \in Msg : n # m => sends'[n] = sends[n]
  BY <1>2, <1>3, <1>4 DEF TypeOK
<1>9. Copies' = Copies /\ store' = store
  BY <1>3 DEF Copies
<1> HIDE DEF m
<1> QED
  BY <1>2, <1>4, <1>5, <1>7, <1>8, <1>9 DEF Once

LEMMA TakenOnce ==
  ASSUME TypeOK, ConfirmOwn, Deliveries, \A v \in Worker : Steady(v), Once,
         NEW w \in Worker, BrokerTakes(w)
  PROVE  Once'
<1> DEFINE c == Head(wire[w])
<1>1. /\ wire[w] \in Seq(Copy) /\ wire[w] # <<>> /\ Len(wire[w]) = 1
      /\ conf[w] = "pending" /\ pc[w] = "confirm"
      /\ wire[w][1].id = Handled(w).id
  <2>1. wire[w] \in Seq(Copy) /\ wire[w] # <<>>
    BY DEF TypeOK, BrokerTakes
  <2>2. Len(wire[w]) = 1 /\ conf[w] = "pending"
    BY <2>1 DEF Steady
  <2> QED
    BY <2>1, <2>2 DEF ConfirmOwn
<1>2. c \in Copy /\ c = wire[w][1]
  BY <1>1, HeadTailProperties
<1>m. PICK m \in Msg : m = c.id
  BY <1>2 DEF Copy
<1>3. m = Handled(w).id /\ Open(m) = {cur[w]}
  <2>1. Handling(w) /\ m = Handled(w).id
    BY <1>1, <1>2, <1>m DEF Handling, Steps
  <2> QED
    BY <1>1, <2>1, HandledIsOpen
<1>4. /\ store' = Append(store, c)
      /\ UNCHANGED <<acked, cur, pc, sends>>
      /\ conf' = [conf EXCEPT ![w] = "ack"]
  BY <1>1 DEF BrokerTakes, Answer, handlerVars, history
<1>5. PICK last \in Nat :
        /\ Copies' = Copies \cup {last}
        /\ \A i \in Copies : i < last /\ store'[i] = store[i]
        /\ store'[last] = c
        /\ Pending' = Pending \cup {last}
  BY <1>2, <1>4, AppendedCopy
<1>6. \A i : Spent(i)' <=> Spent(i) \/ i = cur[w]
  BY <1>1, <1>4 DEF Spent, TypeOK
<1>7. sends[m] = 0 /\ InDead(m) = {}
  BY <1>3 DEF Once
<1> HIDE DEF c
<1>8. \A n : InDead(n)' = InDead(n) \cup (IF n = m /\ c.key = Dead THEN {last} ELSE {})
  BY <1>5, <1>m DEF InDead
<1>9. \A n : Open(n)' \subseteq
               (Open(n) \ {cur[w]}) \cup (IF n = m /\ c.key # Dead THEN {last} ELSE {})
  <2>1. \A n : InLane(n)' = InLane(n) \cup (IF n = m /\ c.key # Dead THEN {last} ELSE {})
    BY <1>5, <1>m DEF InLane, PendingOf, Pending
  <2> QED
    BY <1>6, <2>1 DEF Open
<1>10. \A n \in Msg : Known(n) => Known(n)'
  BY <1>5 DEF Known
<1>11. \A n \in Msg : n # m => InDead(n)' = InDead(n) /\ Open(n)' \subseteq Open(n)
  BY <1>8, <1>9
<1>12. \A n \in Msg : n = m =>
         /\ sends[n] = 0
         /\ Open(n)' \subseteq {last} /\ InDead(n)' \subseteq {last}
         /\ Open(n)' # {} => InDead(n)' = {}
  BY <1>3, <1>7, <1>8, <1>9
<1>13. \A j \in Copies' : j <= last
  BY <1>5 DEF Copies
<1>14. ASSUME NEW n \in Msg, n # m
       PROVE  \A j \in Copies' : store'[j].id = n => j \in Copies /\ store[j].id = n
  BY <1>5, <1>14, <1>m
<1>15. ASSUME NEW n \in Msg
       PROVE  /\ sends'[n] <= 1
              /\ sends'[n] > 0 => Known(n)' /\ InDead(n)' = {}
              /\ \A i, j \in InDead(n)' : i = j
  <2>1. CASE n = m
    BY <1>4, <1>12, <2>1
  <2>2. CASE n # m
    BY <1>4, <1>10, <1>11, <2>2 DEF Once
  <2> QED
    BY <2>1, <2>2
<1>16. ASSUME NEW n \in Msg, NEW i \in Open(n)'
       PROVE  /\ sends'[n] = 0 /\ InDead(n)' = {}
              /\ \A j \in Copies' : store'[j].id = n => j <= i
  <2>1. CASE n = m
    BY <1>4, <1>12, <1>13, <1>16, <2>1
  <2>2. CASE n # m
    <3>1. i \in Open(n)
      BY <1>11, <1>16, <2>2
    <3> QED
      BY <1>4, <1>11, <1>14, <2>2, <3>1 DEF Once
  <2> QED
    BY <2>1, <2>2
<1> QED
  BY <1>15, <1>16 DEF Once

LEMMA AckOnce ==
  ASSUME TypeOK, Once, NEW w \in Worker, Steady(w), Ack(w)
  PROVE  Once'
<1>1. pc[w] = "settle" /\ consUp[w]
  BY DEF Ack, Settle, Move, Steady, TypeOK
<1>2. /\ UNCHANGED <<store, sends, conf>>
      /\ acked' = acked \cup {cur[w]}
      /\ \A v \in Worker : v # w => UNCHANGED <<cur[v], pc[v]>>
  BY <1>1 DEF Ack, Settle, Move, TypeOK, pubVars, history
<1>3. \A i : Spent(i) => Spent(i)' \/ i = cur[w]
  BY <1>2 DEF Spent
<1>4. \A m \in Msg : Open(m)' \subseteq Open(m)
  BY <1>2, <1>3 DEF Open, InLane, PendingOf, Pending, Copies
<1> QED
  BY <1>2, <1>4, OnceKept

LEMMA UndisturbedStep ==
  ASSUME TypeOK, ConfirmOwn, Deliveries, Undisturbed, [Next]_vars
  PROVE  Undisturbed'
<1> SUFFICES ASSUME faults' = 0
             PROVE  (\A w \in Worker : Steady(w)') /\ Once'
  BY DEF Undisturbed
<1>1. faults = 0
  BY FaultsStay
<1>2. (\A w \in Worker : Steady(w)) /\ Once
  BY <1>1 DEF Undisturbed
<1>3. (\E m \in Msg : Enqueue(m)) \/ (\E w \in Worker : CalmStep(w)) \/ UNCHANGED vars
  BY <1>1, <1>2, CalmCases
<1>4. \A w \in Worker : Steady(w)'
  BY <1>2, <1>3, SteadyStep
<1>5. ASSUME NEW w \in Worker, CalmStep(w) PROVE Once'
  BY <1>2, <1>5, QuietStep, SendOnce, TakenOnce, AckOnce DEF CalmStep
<1>6. ASSUME UNCHANGED vars PROVE Once'
  <2>1. UNCHANGED <<store, sends, acked, cur, pc, conf>>
    BY <1>6 DEF vars, brokerVars, handlerVars, pubVars, history
  <2>2. \A m \in Msg : Open(m)' \subseteq Open(m)
    BY <2>1 DEF Open, Spent, InLane, PendingOf, Pending, Copies
  <2> QED
    BY <1>2, <2>1, <2>2, OnceKept
<1>7. ASSUME NEW m \in Msg, Enqueue(m) PROVE Once'
  BY <1>2, <1>7, EnqueueOnce
<1>8. Once'
  BY <1>3, <1>5, <1>6, <1>7
<1> QED
  BY <1>4, <1>8

(***************************************************************************)
(* The property                                                            *)
(***************************************************************************)
LEMMA UndisturbedInit ==
  ASSUME Init
  PROVE  Undisturbed
<1>1. Copies = {}
  BY EmptySeq DEF Init, Copies
<1>2. \A w \in Worker : Steady(w)
  BY DEF Init, Steady
<1>3. Once
  BY <1>1 DEF Init, Once, InDead, Open, InLane, PendingOf, Pending
<1> QED
  BY <1>2, <1>3 DEF Undisturbed

LEMMA OnceSuffices ==
  ASSUME TypeOK, Undisturbed
  PROVE  ExactlyOnceUnlessFault
<1> SUFFICES ASSUME faults = 0, NEW m \in Msg
             PROVE  /\ sends[m] + Cardinality(InDead(m)) <= 1
                    /\ \A i, j \in InLane(m) : i < j =>
                         \E w \in Worker : cur[w] = i /\ pc[w] \in {"confirm", "settle"}
  BY DEF ExactlyOnceUnlessFault
<1>1. Once
  BY DEF Undisturbed
<1>2. sends[m] + Cardinality(InDead(m)) <= 1
  <2>1. sends[m] \in Nat /\ sends[m] <= 1
    BY <1>1 DEF Once, TypeOK
  <2>2. CASE InDead(m) = {}
    <3>1. Cardinality(InDead(m)) = 0
      BY <2>2, FS_EmptySet
    <3> QED
      BY <2>1, <3>1
  <2>3. CASE InDead(m) # {}
    <3>1. PICK i : i \in InDead(m)
      BY <2>3
    <3>2. InDead(m) = {i}
      BY <1>1, <3>1 DEF Once
    <3>3. Cardinality(InDead(m)) = 1
      BY <3>2, FS_Singleton
    <3>4. ~(sends[m] > 0)
      BY <1>1, <2>3 DEF Once
    <3> QED
      BY <2>1, <3>3, <3>4
  <2> QED
    BY <2>2, <2>3
<1>3. ASSUME NEW i \in InLane(m), NEW j \in InLane(m), i < j
      PROVE  \E w \in Worker : cur[w] = i /\ pc[w] \in {"confirm", "settle"}
  <2>1. i \in Nat /\ j \in Copies /\ j \in Nat /\ store[j].id = m
    BY DEF InLane, PendingOf, Pending, Copies
  <2>2. ~(j <= i)
    BY <1>3, <2>1
  <2>3. i \notin Open(m)
    BY <1>1, <2>1, <2>2 DEF Once
  <2> QED
    BY <2>3 DEF Open, Spent
<1> QED
  BY <1>2, <1>3

\* While nothing fails and no worker is told to stop, a notification is
\* delivered at most once, is never delivered and also dead-lettered, and has
\* a second copy in its lane only from the confirm of the retry to the Ack of
\* the old delivery (consumer.go:74-119), whatever the numbers of workers on
\* the lane, of notifications and of retries, and the prefetch.
THEOREM ExactlyOnce == Spec => []ExactlyOnceUnlessFault
<1>1. Init => Undisturbed
  BY UndisturbedInit
<1>2. Inductive /\ Accounted /\ Undisturbed /\ [Next]_vars => Undisturbed'
  BY UndisturbedStep DEF Inductive, Accounted
<1>3. Inductive /\ Undisturbed => ExactlyOnceUnlessFault
  BY OnceSuffices DEF Inductive
<1> QED
  BY <1>1, <1>2, <1>3, InductiveInvariant, ClaimsAccounted, PTL DEF Spec

=============================================================================
