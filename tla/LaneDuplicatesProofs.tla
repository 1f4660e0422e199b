------------------------ MODULE LaneDuplicatesProofs ------------------------
(***************************************************************************)
(* Duplicates are bounded by the number of failures, for any               *)
(* notifications, lanes, workers and limits.                               *)
(***************************************************************************)
EXTENDS LaneDeliveryProofs, FiniteSetTheorems

(***************************************************************************)
(* Deliveries: what a worker holds and has in hand                         *)
(***************************************************************************)
\* A delivery of another worker stays pending: an Ack takes only a delivery of
\* the worker that acknowledges.
LEMMA HeldStays ==
  ASSUME TypeOK, Deliveries, [Next]_vars, NEW w \in Worker, NEW i \in held[w],
         acked' # acked => \E v \in Worker : v # w /\ Ack(v)
  PROVE  i \in Pending' /\ store'[i].key # Dead
<1>1. i \in Copies /\ i \in Pending /\ store[i].key # Dead
  BY DEF Deliveries, InHand, Pending
<1>2. i \in Copies' /\ store'[i] = store[i]
  BY <1>1, StoreGrows
<1>3. i \notin acked'
  <2>1. CASE acked' = acked
    BY <1>1, <2>1 DEF Pending
  <2>2. CASE acked' # acked
    <3>1. PICK v \in Worker : v # w /\ Ack(v)
      BY <2>2
    <3>2. consUp[v] /\ acked' = acked \cup {cur[v]} /\ Handling(v)
      BY <2>2, <3>1 DEF Ack, Settle, Move, Handling, Steps
    <3>3. cur[v] \in held[v] /\ i \notin held[v]
      BY <3>1, <3>2 DEF Deliveries, InHand
    <3> QED
      BY <1>1, <3>2, <3>3 DEF Pending
  <2> QED
    BY <2>1, <2>2
<1> QED
  BY <1>1, <1>2, <1>3 DEF Pending

\* A step that touches neither w's deliveries nor its connection.
LEMMA InHandKept ==
  ASSUME TypeOK, Deliveries, [Next]_vars, NEW w \in Worker,
         UNCHANGED <<held[w], inbox[w], consUp[w]>>,
         main'[w] = "off" <=> main[w] = "off", pc'[w] = "off" <=> pc[w] = "off",
         Handling(w)' => Handling(w) /\ cur'[w] = cur[w],
         acked' # acked => \E v \in Worker : v # w /\ Ack(v)
  PROVE  InHand(w)'
<1>1. \A i \in held[w] : i \in Pending' /\ store'[i].key # Dead
  BY HeldStays
<1>2. InHand(w)
  BY DEF Deliveries
<1> QED
  BY <1>1, <1>2 DEF InHand

LEMMA CopiesFinite ==
  ASSUME TypeOK, NEW S \in SUBSET Copies
  PROVE  IsFiniteSet(S) /\ Cardinality(S) \in Nat
<1>1. IsFiniteSet(1 .. Len(store))
  BY FS_Interval DEF TypeOK
<1>2. IsFiniteSet(S)
  BY <1>1, FS_Subset DEF Copies
<1> QED
  BY <1>2, FS_CardinalityType

LEMMA DeliverInHand ==
  ASSUME TypeOK, Deliveries, NEW w \in Worker, Deliver(w)
  PROVE  /\ InHand(w)'
         /\ \A i \in held'[w] : i \in held[w] \/ \A v \in Worker : i \notin held[v]
<1>1. PICK i \in Copies : /\ IsHead(i, Serves[w])
                          /\ held' = [held EXCEPT ![w] = held[w] \cup {i}]
                          /\ inbox' = [inbox EXCEPT ![w] = Append(inbox[w], i)]
  BY DEF Deliver
<1>2. /\ i \in Pending /\ store[i].key # Dead
      /\ \A v \in Worker : i \notin held[v]
  BY <1>1, LaneAssumption DEF IsHead, Ready
<1>3. UNCHANGED <<store, acked, cur, pc, main, consUp>> /\ Pending' = Pending /\ consUp[w]
  BY DEF Deliver, Pending, Copies, procVars
<1> DEFINE n == Len(inbox[w])
<1>4. /\ n \in Nat /\ DOMAIN inbox[w] = 1 .. n /\ DOMAIN inbox'[w] = 1 .. n + 1
      /\ inbox'[w][n + 1] = i
      /\ \A a \in 1 .. n : inbox'[w][a] = inbox[w][a]
  BY <1>1, AppendProperties, LenProperties DEF TypeOK
<1>5. /\ \A a \in DOMAIN inbox'[w] : a \in DOMAIN inbox[w] \/ a = n + 1
      /\ inbox'[w][n + 1] = i /\ n + 1 \notin DOMAIN inbox[w]
  BY <1>4
<1>6. held'[w] = held[w] \cup {i}
  BY <1>1 DEF TypeOK
<1>7. \A a \in DOMAIN inbox[w] : inbox'[w][a] = inbox[w][a] /\ inbox[w][a] \in held[w]
  BY <1>3, <1>4 DEF Deliveries, InHand
<1>8. Prefetch = 0 \/ Cardinality(held'[w]) <= Prefetch
  <2>1. held[w] \subseteq Copies
    BY DEF TypeOK
  <2>2. IsFiniteSet(held[w]) /\ Cardinality(held[w]) \in Nat
    BY <2>1, CopiesFinite
  <2>3. Cardinality(held[w] \cup {i}) = Cardinality(held[w]) + 1
    BY <1>2, <2>2, FS_AddElement
  <2>4. Prefetch = 0 \/ Cardinality(held[w]) < Prefetch
    BY DEF Deliver
  <2> QED
    BY <1>6, <2>2, <2>3, <2>4, LimitAssumption
<1>9. Handling(w)' => Handling(w) /\ cur[w] \in held[w] /\ \A a \in DOMAIN inbox[w] : inbox[w][a] # cur[w]
  BY <1>3 DEF Deliveries, InHand, Handling
<1> HIDE DEF n
<1>10. /\ \A a \in DOMAIN inbox'[w] : inbox'[w][a] \in held'[w]
       /\ \A a, b \in DOMAIN inbox'[w] : inbox'[w][a] = inbox'[w][b] => a = b
       /\ Handling(w)' => /\ cur'[w] \in held'[w]
                          /\ \A a \in DOMAIN inbox'[w] : inbox'[w][a] # cur'[w]
  <2>1. InHand(w)
    BY DEF Deliveries
  <2> QED
    BY <1>2, <1>3, <1>5, <1>6, <1>7, <1>9, <2>1 DEF InHand
<1>11. \A k \in held'[w] : k \in Pending' /\ store'[k].key # Dead
  BY <1>2, <1>3, <1>6 DEF Deliveries, InHand
<1>12. /\ main'[w] = "off" <=> pc'[w] = "off"
       /\ main'[w] # "off" /\ consUp'[w]
  BY <1>3 DEF Deliveries, InHand
<1> QED
  BY <1>2, <1>6, <1>8, <1>10, <1>11, <1>12 DEF InHand

LEMMA TakeInHand ==
  ASSUME TypeOK, Deliveries, NEW w \in Worker, Take(w)
  PROVE  InHand(w)'
<1> DEFINE n == Len(inbox[w])
<1>1. /\ inbox[w] # <<>> /\ cur'[w] = Head(inbox[w]) /\ inbox'[w] = Tail(inbox[w])
      /\ pc[w] = "select" /\ pc'[w] = "process"
      /\ UNCHANGED <<store, acked, held, main, consUp>>
  BY DEF Take, Move, TypeOK, brokerVars, procVars
<1>2. /\ n \in Nat /\ n > 0 /\ DOMAIN inbox[w] = 1 .. n
      /\ DOMAIN Tail(inbox[w]) = 1 .. n - 1
      /\ Head(inbox[w]) = inbox[w][1]
      /\ \A a \in 1 .. n - 1 : Tail(inbox[w])[a] = inbox[w][a + 1]
  <2>1. inbox[w] \in Seq(Copies) /\ inbox[w] # <<>>
    BY <1>1 DEF TypeOK
  <2> QED
    BY <2>1, HeadTailProperties, LenProperties, EmptySeq
<1>3. \A a \in DOMAIN inbox'[w] : /\ a + 1 \in DOMAIN inbox[w] /\ a + 1 # 1 /\ a \in Nat
                                  /\ inbox'[w][a] = inbox[w][a + 1]
  BY <1>1, <1>2
<1>4. 1 \in DOMAIN inbox[w] /\ cur'[w] = inbox[w][1]
  BY <1>1, <1>2
<1> HIDE DEF n
<1>5. InHand(w) /\ main[w] # "off"
  BY <1>1 DEF Deliveries, InHand
<1>6. \A a \in DOMAIN inbox'[w] : inbox'[w][a] # cur'[w]
  BY <1>3, <1>4, <1>5 DEF InHand
<1>7. \A a, b \in DOMAIN inbox'[w] : inbox'[w][a] = inbox'[w][b] => a = b
  <2>1. \A a, b \in DOMAIN inbox'[w] : inbox'[w][a] = inbox'[w][b] => a + 1 = b + 1
    BY <1>3, <1>5 DEF InHand
  <2> QED
    BY <1>3, <2>1
<1>8. consUp[w] => /\ \A a \in DOMAIN inbox'[w] : inbox'[w][a] \in held[w]
                   /\ cur'[w] \in held[w]
  BY <1>3, <1>4, <1>5 DEF InHand
<1>9. Pending' = Pending
  BY <1>1 DEF Pending, Copies
<1> QED
  BY <1>1, <1>5, <1>6, <1>7, <1>8, <1>9 DEF InHand

LEMMA SettleInHand ==
  ASSUME TypeOK, Deliveries, NEW w \in Worker, Ack(w) \/ Nack(w)
  PROVE  InHand(w)'
<1>1. /\ pc[w] \in {"settle", "nack"} /\ pc'[w] = "select"
      /\ held'[w] = held[w] \ {cur[w]}
      /\ UNCHANGED <<store, inbox, main, consUp>>
      /\ acked' \subseteq acked \cup {cur[w]}
  BY DEF Ack, Nack, Settle, Move, TypeOK, procVars
<1>2. InHand(w) /\ Handling(w) /\ ~Handling(w)'
  BY <1>1 DEF Deliveries, Handling, Steps
<1>3. \A i \in held'[w] : i \in Pending' /\ store'[i].key # Dead
  BY <1>1, <1>2 DEF InHand, Pending, Copies
<1>4. consUp[w] => \A a \in DOMAIN inbox[w] : inbox[w][a] \in held'[w]
  BY <1>1, <1>2 DEF InHand
<1>5. Prefetch = 0 \/ Cardinality(held'[w]) <= Prefetch
  <2>1. held[w] \subseteq Copies /\ held'[w] \subseteq held[w]
    BY <1>1 DEF TypeOK
  <2>2. /\ IsFiniteSet(held[w]) /\ Cardinality(held[w]) \in Nat
        /\ Cardinality(held'[w]) \in Nat
    BY <2>1, CopiesFinite
  <2>3. Cardinality(held'[w]) <= Cardinality(held[w])
    BY <2>1, <2>2, FS_Subset
  <2> QED
    BY <1>2, <2>2, <2>3, LimitAssumption DEF InHand
<1>6. ~consUp[w] => held'[w] = {}
  BY <1>1, <1>2 DEF InHand
<1> QED
  BY <1>1, <1>2, <1>3, <1>4, <1>5, <1>6 DEF InHand

LEMMA DropInHand ==
  ASSUME TypeOK, Deliveries, NEW w \in Worker, CloseConsumer(w) \/ LoseConsumerConn(w)
  PROVE  /\ InHand(w)'
         /\ held'[w] = {}
<1>1. InHand(w) /\ main[w] # "off"
  BY DEF Deliveries, InHand, CloseConsumer, LoseConsumerConn
<1>2. /\ main'[w] # "off" /\ held'[w] = {} /\ ~consUp'[w]
      /\ UNCHANGED <<cur, pc>>
  BY <1>1 DEF CloseConsumer, LoseConsumerConn, DropConsumerConn, TypeOK
<1>3. PICK k \in {n \in 0 .. 2 : n <= Len(inbox[w])} : inbox'[w] = SubSeq(inbox[w], 1, k)
  BY DEF CloseConsumer, LoseConsumerConn, DropConsumerConn, TypeOK
<1>4. \A a \in DOMAIN inbox'[w] : a \in DOMAIN inbox[w] /\ inbox'[w][a] = inbox[w][a]
  BY <1>3 DEF TypeOK
<1>5. Handling(w)' <=> Handling(w)
  BY <1>2 DEF Handling
<1>6. Prefetch = 0 \/ Cardinality({}) <= Prefetch
  BY FS_EmptySet, LimitAssumption
<1> QED
  BY <1>1, <1>2, <1>4, <1>5, <1>6 DEF InHand

LEMMA StartStopInHand ==
  ASSUME TypeOK, Deliveries, NEW w \in Worker, Start(w) \/ Exit(w) \/ Crash(w)
  PROVE  /\ InHand(w)'
         /\ held'[w] = {}
<1>1. Prefetch = 0 \/ Cardinality({}) <= Prefetch
  BY FS_EmptySet, LimitAssumption
<1>2. CASE Start(w)
  <2>1. /\ main[w] = "off" /\ inbox[w] = <<>> /\ held[w] = {}
    BY <1>2 DEF Start, Deliveries, InHand
  <2>2. /\ main'[w] = "serving" /\ pc'[w] = "select" /\ inbox'[w] = <<>> /\ held'[w] = {}
    BY <1>2, <2>1 DEF Start, Move, brokerVars, TypeOK
  <2> QED
    BY <1>1, <2>2, EmptySeq DEF InHand, Handling
<1>3. CASE Exit(w) \/ Crash(w)
  <2>1. /\ main'[w] = "off" /\ pc'[w] = "off" /\ inbox'[w] = <<>> /\ held'[w] = {}
        /\ ~consUp'[w]
    BY <1>3 DEF Exit, Crash, Vanish, TypeOK
  <2> QED
    BY <1>1, <2>1, EmptySeq DEF InHand, Handling
<1> QED
  BY <1>2, <1>3

\* The steps of a worker that take, settle or drop no delivery.
LEMMA QuietInHand ==
  ASSUME TypeOK, Deliveries, [Next]_vars, NEW w \in Worker,
         \/ BrokerTakes(w) \/ BrokerRefuses(w)
         \/ Drop(w) \/ PassLimiter(w) \/ LimiterCancelled(w)
         \/ SendOk(w) \/ SendFails(w) \/ SendAmbiguous(w) \/ Retry(w) \/ DeadLetter(w)
         \/ Confirmed(w) \/ ConfirmNacked(w) \/ ConfirmAbandoned(w)
         \/ RunReturns(w) \/ RunDrained(w) \/ Signal(w) \/ ClosePublisher(w)
         \/ LosePublisherConn(w)
  PROVE  InHand(w)' /\ UNCHANGED <<held, acked>>
<1> USE DEF brokerVars, handlerVars, procVars, pubVars
<1>1. CASE \/ BrokerTakes(w) \/ BrokerRefuses(w) \/ Signal(w) \/ ClosePublisher(w)
           \/ LosePublisherConn(w)
  <2>1. /\ UNCHANGED <<held, acked, inbox, cur, pc, consUp>>
        /\ main'[w] = "off" <=> main[w] = "off"
    BY <1>1 DEF TypeOK, BrokerTakes, BrokerRefuses, Signal, ClosePublisher, LosePublisherConn
  <2> QED
    BY <2>1, InHandKept DEF Handling
<1>2. CASE RunReturns(w) \/ RunDrained(w)
  <2>1. /\ UNCHANGED <<held, acked, inbox, cur, consUp>>
        /\ main'[w] = "off" <=> main[w] = "off"
        /\ pc[w] = "select" /\ pc'[w] = "returned"
    BY <1>2 DEF TypeOK, RunReturns, RunDrained, Move
  <2> QED
    BY <2>1, InHandKept DEF Handling
<1>3. CASE \/ Drop(w) \/ PassLimiter(w) \/ LimiterCancelled(w)
           \/ SendOk(w) \/ SendFails(w) \/ SendAmbiguous(w) \/ Retry(w) \/ DeadLetter(w)
           \/ Confirmed(w) \/ ConfirmNacked(w) \/ ConfirmAbandoned(w)
  <2>1. UNCHANGED <<held, acked, inbox, cur, main, consUp>>
    BY <1>3 DEF Drop, PassLimiter, LimiterCancelled, SendOk, SendFails, SendAmbiguous, Retry,
                DeadLetter, Publish, Confirmed, ConfirmNacked, ConfirmAbandoned
  <2>2. /\ pc[w] \in {"process", "send", "failed", "confirm"}
        /\ pc'[w] # "off"
    BY <1>3 DEF TypeOK, Drop, PassLimiter, LimiterCancelled, SendOk, SendFails, SendAmbiguous,
                Retry, DeadLetter, Publish, Confirmed, ConfirmNacked, ConfirmAbandoned, Move
  <2> QED
    BY <2>1, <2>2, InHandKept DEF Handling, Steps
<1> QED
  BY <1>1, <1>2, <1>3

\* The worker that makes the step, and what it then holds.
LEMMA OwnInHand ==
  ASSUME TypeOK, Deliveries, [Next]_vars, NEW w \in Worker, StepOf(w)
  PROVE  /\ InHand(w)'
         /\ \A i \in held'[w] : i \in held[w] \/ \A v \in Worker : i \notin held[v]
         /\ acked' = acked \/ Ack(w)
<1>1. CASE Deliver(w) \/ Take(w)
  <2>1. UNCHANGED acked
    BY <1>1 DEF Deliver, Take, brokerVars
  <2>2. Take(w) => held'[w] = held[w]
    BY DEF Take, brokerVars
  <2> QED
    BY <1>1, <2>1, <2>2, DeliverInHand, TakeInHand
<1>2. CASE Ack(w) \/ Nack(w)
  <2>1. held'[w] \subseteq held[w] /\ (Nack(w) => UNCHANGED acked)
    BY <1>2 DEF Ack, Nack, Settle, TypeOK
  <2> QED
    BY <1>2, <2>1, SettleInHand
<1>3. CASE CloseConsumer(w) \/ LoseConsumerConn(w)
  <2>1. UNCHANGED acked
    BY <1>3 DEF CloseConsumer, LoseConsumerConn
  <2> QED
    BY <1>3, <2>1, DropInHand
<1>4. CASE Start(w) \/ Exit(w) \/ Crash(w)
  <2>1. UNCHANGED acked
    BY <1>4 DEF Start, Exit, Crash, Vanish, brokerVars
  <2> QED
    BY <1>4, <2>1, StartStopInHand
<1>5. CASE \/ BrokerTakes(w) \/ BrokerRefuses(w)
           \/ Drop(w) \/ PassLimiter(w) \/ LimiterCancelled(w)
           \/ SendOk(w) \/ SendFails(w) \/ SendAmbiguous(w) \/ Retry(w) \/ DeadLetter(w)
           \/ Confirmed(w) \/ ConfirmNacked(w) \/ ConfirmAbandoned(w)
           \/ RunReturns(w) \/ RunDrained(w) \/ Signal(w) \/ ClosePublisher(w)
           \/ LosePublisherConn(w)
  BY <1>5, QuietInHand
<1> QED
  BY <1>1, <1>2, <1>3, <1>4, <1>5 DEF StepOf, Run, Handle, Shutdown, Fail

LEMMA DeliveriesStep ==
  ASSUME TypeOK, Deliveries, [Next]_vars
  PROVE  Deliveries'
<1>1. ASSUME UNCHANGED <<held, acked, inbox, cur, pc, main, consUp>>
      PROVE  Deliveries'
  <2>1. \A w \in Worker : InHand(w)'
    BY <1>1, InHandKept DEF Handling
  <2> QED
    BY <1>1, <2>1 DEF Deliveries
<1>2. ASSUME NEW w \in Worker, StepOf(w)
      PROVE  Deliveries'
  <2>1. /\ InHand(w)'
        /\ \A i \in held'[w] : i \in held[w] \/ \A v \in Worker : i \notin held[v]
        /\ acked' = acked \/ Ack(w)
    BY <1>2, OwnInHand
  <2>2. ASSUME NEW v \in Worker, v # w
        PROVE  InHand(v)' /\ held'[v] = held[v]
    <3>1. UNCHANGED <<held[v], inbox[v], cur[v], pc[v], main[v], consUp[v]>>
      BY <1>2, <2>2, OthersAlone
    <3>2. acked' # acked => \E u \in Worker : u # v /\ Ack(u)
      BY <2>1, <2>2
    <3>3. Handling(v)' <=> Handling(v)
      BY <3>1 DEF Handling
    <3> QED
      BY <3>1, <3>2, <3>3, InHandKept
  <2>3. ASSUME NEW u \in Worker, NEW v \in Worker, u # v
        PROVE  held'[u] \cap held'[v] = {}
    BY <2>1, <2>2, <2>3 DEF Deliveries
  <2>4. \A v \in Worker : InHand(v)'
    BY <2>1, <2>2
  <2> QED
    BY <2>3, <2>4 DEF Deliveries
<1>3. ASSUME NEW m \in Msg, Enqueue(m)
      PROVE  UNCHANGED <<held, acked, inbox, cur, pc, main, consUp>>
  BY <1>3 DEF Enqueue, handlerVars, procVars
<1>4. ASSUME UNCHANGED vars
      PROVE  UNCHANGED <<held, acked, inbox, cur, pc, main, consUp>>
  BY <1>4 DEF vars, brokerVars, handlerVars, procVars
<1> QED
  BY <1>1, <1>2, <1>3, <1>4 DEF Next, StepOf

LEMMA DeliveriesInit ==
  ASSUME Init
  PROVE  Deliveries
<1>1. Prefetch = 0 \/ Cardinality({}) <= Prefetch
  BY FS_EmptySet, LimitAssumption
<1>2. ASSUME NEW w \in Worker PROVE InHand(w)
  <2>1. /\ main[w] = "off" /\ pc[w] = "off" /\ inbox[w] = <<>> /\ held[w] = {} /\ ~consUp[w]
    BY DEF Init
  <2> QED
    BY <1>1, <2>1, EmptySeq DEF InHand, Handling
<1> QED
  BY <1>2 DEF Init, Deliveries

(***************************************************************************)
(* Claims: how a step changes them                                         *)
(***************************************************************************)
IsClaim(m, x) ==
  \/ \E i \in CopyClaims(m) : x = <<"copy", i, i>>
  \/ \E w \in HandlerClaims(m) : x = <<"handler", w, w>>
  \/ \E w \in Worker : \E i \in StaleClaims(w, m) : x = <<"stale", w, i>>
  \/ \E w \in Worker : \E k \in WireClaims(w, m) : x = <<"wire", w, k>>

ClaimsAre == \A m \in Msg : \A x : x \in Claims(m) <=> IsClaim(m, x)

\* Claims has nothing but the four kinds, before and after a step.
LEMMA EveryClaim == ClaimsAre
<1> SUFFICES ASSUME NEW m \in Msg, NEW x PROVE x \in Claims(m) <=> IsClaim(m, x)
  BY DEF ClaimsAre
<1>1. x \in TaggedCopies(m) <=> \E i \in CopyClaims(m) : x = <<"copy", i, i>>
  BY DEF TaggedCopies
<1>2. x \in TaggedHandlers(m) <=> \E w \in HandlerClaims(m) : x = <<"handler", w, w>>
  BY DEF TaggedHandlers
<1>3. x \in TaggedStale(m) <=> \E w \in Worker : x \in Tagged("stale", w, StaleClaims(w, m))
  BY DEF TaggedStale
<1>4. x \in TaggedWire(m) <=> \E w \in Worker : x \in Tagged("wire", w, WireClaims(w, m))
  BY DEF TaggedWire
<1>5. x \in TaggedStale(m) <=>
        \E w \in Worker : \E i \in StaleClaims(w, m) : x = <<"stale", w, i>>
  BY <1>3 DEF Tagged
<1>6. x \in TaggedWire(m) <=>
        \E w \in Worker : \E k \in WireClaims(w, m) : x = <<"wire", w, k>>
  BY <1>4 DEF Tagged
<1> QED
  BY <1>1, <1>2, <1>5, <1>6 DEF Claims, IsClaim

LEMMA EveryNextClaim == ClaimsAre'
BY EveryClaim, PTL

\* What a worker that makes no step has claims to.
LEMMA OthersClaims ==
  ASSUME TypeOK, [Next]_vars, NEW v \in Worker, NEW m \in Msg,
         UNCHANGED <<held[v], inbox[v], cur[v], pc[v], main[v], consUp[v], wire[v], conf[v]>>
  PROVE  /\ v \in HandlerClaims(m)' => v \in HandlerClaims(m)
         /\ StaleClaims(v, m)' \subseteq StaleClaims(v, m)
         /\ WireClaims(v, m)' \subseteq WireClaims(v, m)
         /\ \A i : SeesTo(v, i) => SeesTo(v, i)'
<1>1. Working(v)' <=> Working(v)
  BY DEF Working
<1>2. Working(v) => cur[v] \in Copies
  BY DEF TypeOK, Working, Handling, Steps
<1>3. Stale(v)' = Stale(v) /\ Stale(v) \subseteq Copies
  BY DEF Stale, TypeOK
<1>4. \A i \in Copies : store'[i] = store[i]
  BY StoreGrows
<1> QED
  BY <1>1, <1>2, <1>3, <1>4 DEF HandlerClaims, Handled, StaleClaims, WireClaims, SeesTo

\* The claims that a step of worker w, or of the API, makes anew.
LEMMA ClaimsMade ==
  ASSUME TypeOK, [Next]_vars, NEW w, (w \in Worker /\ StepOf(w)) \/ \E n \in Msg : Enqueue(n),
         acked \subseteq acked', NEW m \in Msg, NEW x \in Claims(m)', x \notin Claims(m)
  PROVE  \/ \E i \in Copies' : x = <<"copy", i, i>> /\ store'[i].id = m /\ i \notin Copies
         \/ \E i \in Copies : /\ x = <<"copy", i, i>> /\ store[i].id = m
                              /\ SeesTo(w, i) /\ ~SeesTo(w, i)' /\ i \notin acked'
         \/ /\ x = <<"handler", w, w>>
            /\ w \in HandlerClaims(m)' /\ w \notin HandlerClaims(m)
         \/ w \in Worker /\ \E i \in StaleClaims(w, m)' :
                              x = <<"stale", w, i>> /\ i \notin StaleClaims(w, m)
         \/ w \in Worker /\ \E k \in WireClaims(w, m)' :
                              x = <<"wire", w, k>> /\ k \notin WireClaims(w, m)
<1>1. IsClaim(m, x)' /\ ~IsClaim(m, x)
  BY EveryClaim, EveryNextClaim DEF ClaimsAre
<1>2. ASSUME NEW v \in Worker, v # w
      PROVE  UNCHANGED <<held[v], inbox[v], cur[v], pc[v], main[v], consUp[v], wire[v], conf[v]>>
  BY <1>2, OthersAlone DEF Enqueue, handlerVars, procVars, pubVars
<1>3. ASSUME NEW v \in Worker, v # w
      PROVE  /\ v \in HandlerClaims(m)' => v \in HandlerClaims(m)
             /\ StaleClaims(v, m)' \subseteq StaleClaims(v, m)
             /\ WireClaims(v, m)' \subseteq WireClaims(v, m)
             /\ \A i : SeesTo(v, i) => SeesTo(v, i)'
  BY <1>2, <1>3, OthersClaims
<1>4. \A i \in Copies : store'[i] = store[i]
  BY StoreGrows
<1>5. ASSUME NEW i \in CopyClaims(m)', x = <<"copy", i, i>>
      PROVE  /\ i \in Copies' /\ store'[i].id = m
             /\ i \in Copies => /\ store[i].id = m
                                /\ SeesTo(w, i) /\ ~SeesTo(w, i)' /\ i \notin acked'
  <2>1. i \notin CopyClaims(m)
    BY <1>1, <1>5 DEF IsClaim
  <2>2. i \in Copies' /\ store'[i].id = m
    BY <1>5 DEF CopyClaims, InDead, InLane, PendingOf, Pending
  <2> SUFFICES ASSUME i \in Copies
               PROVE  /\ store[i].id = m
                      /\ SeesTo(w, i) /\ ~SeesTo(w, i)' /\ i \notin acked'
    BY <2>2
  <2>3. i \notin InDead(m)'
    BY <1>4, <2>1 DEF CopyClaims, InDead
  <2>4. i \in InLane(m)' /\ \A v \in Worker : ~SeesTo(v, i)'
    BY <1>5, <2>3 DEF CopyClaims
  <2>5. store[i].id = m /\ i \notin acked' /\ i \in InLane(m)
    BY <1>4, <2>4 DEF InLane, PendingOf, Pending
  <2>6. \E v \in Worker : SeesTo(v, i)
    BY <2>1, <2>5 DEF CopyClaims
  <2>7. \A v \in Worker : v # w => ~SeesTo(v, i)
    BY <1>3, <2>4
  <2> QED
    BY <2>4, <2>5, <2>6, <2>7
<1>6. ASSUME NEW v \in HandlerClaims(m)', x = <<"handler", v, v>>
      PROVE  v = w /\ v \notin HandlerClaims(m)
  <2>1. v \in Worker /\ v \notin HandlerClaims(m)
    BY <1>1, <1>6 DEF IsClaim, HandlerClaims
  <2> QED
    BY <1>3, <1>6, <2>1
<1>7. ASSUME NEW v \in Worker, NEW i \in StaleClaims(v, m)', x = <<"stale", v, i>>
      PROVE  v = w /\ i \notin StaleClaims(v, m)
  <2>1. i \notin StaleClaims(v, m)
    BY <1>1, <1>7 DEF IsClaim
  <2> QED
    BY <1>3, <1>7, <2>1
<1>8. ASSUME NEW v \in Worker, NEW k \in WireClaims(v, m)', x = <<"wire", v, k>>
      PROVE  v = w /\ k \notin WireClaims(v, m)
  <2>1. k \notin WireClaims(v, m)
    BY <1>1, <1>8 DEF IsClaim
  <2> QED
    BY <1>3, <1>8, <2>1
<1>9. \/ \E i \in CopyClaims(m)' : x = <<"copy", i, i>>
      \/ \E v \in HandlerClaims(m)' : x = <<"handler", v, v>>
      \/ \E v \in Worker : \E i \in StaleClaims(v, m)' : x = <<"stale", v, i>>
      \/ \E v \in Worker : \E k \in WireClaims(v, m)' : x = <<"wire", v, k>>
  BY <1>1 DEF IsClaim
<1> QED
  BY <1>5, <1>6, <1>7, <1>8, <1>9

\* The same for a step that stores no copy.
LEMMA NewClaims ==
  ASSUME TypeOK, [Next]_vars, NEW w \in Worker, StepOf(w), UNCHANGED store,
         acked \subseteq acked', NEW m \in Msg, NEW x \in Claims(m)', x \notin Claims(m)
  PROVE  \/ \E i \in Copies : /\ x = <<"copy", i, i>> /\ store[i].id = m
                              /\ SeesTo(w, i) /\ ~SeesTo(w, i)' /\ i \notin acked'
         \/ /\ x = <<"handler", w, w>>
            /\ w \in HandlerClaims(m)' /\ w \notin HandlerClaims(m)
         \/ \E i \in StaleClaims(w, m)' : x = <<"stale", w, i>> /\ i \notin StaleClaims(w, m)
         \/ \E k \in WireClaims(w, m)' : x = <<"wire", w, k>> /\ k \notin WireClaims(w, m)
<1>1. Copies' = Copies
  BY DEF Copies
<1> QED
  BY <1>1, ClaimsMade

(***************************************************************************)
(* The balance: deliveries made and claims left, against faults            *)
(***************************************************************************)
LEMMA FaultsStep ==
  ASSUME TypeOK, [Next]_vars
  PROVE  UNCHANGED faults \/ faults' = faults + 1
<1>1. ASSUME NEW m \in Msg, Enqueue(m) PROVE UNCHANGED faults
  BY <1>1 DEF Enqueue
<1>2. ASSUME NEW w \in Worker, Start(w) \/ Deliver(w) \/ BrokerTakes(w) \/ BrokerRefuses(w)
      PROVE  UNCHANGED faults \/ faults' = faults + 1
  BY <1>2 DEF Start, Deliver, BrokerTakes, BrokerRefuses, Fault
<1>3. ASSUME NEW w \in Worker, Run(w)
      PROVE  UNCHANGED faults \/ faults' = faults + 1
  BY <1>3 DEF Run, Handle, Take, Drop, PassLimiter, LimiterCancelled, SendOk, SendFails,
              SendAmbiguous, Retry, DeadLetter, Publish, Confirmed, ConfirmNacked,
              ConfirmAbandoned, Ack, Nack, Settle, RunReturns, RunDrained, Fault
<1>4. ASSUME NEW w \in Worker, Shutdown(w) \/ Fail(w)
      PROVE  UNCHANGED faults \/ faults' = faults + 1
  BY <1>4 DEF Shutdown, Fail, ClosePublisher, CloseConsumer, Exit, Signal, Crash,
              LosePublisherConn, LoseConsumerConn, Fault
<1> QED
  BY <1>1, <1>2, <1>3, <1>4 DEF Next, StepOf, vars

LEMMA Allowance ==
  ASSUME TypeOK
  PROVE  /\ MostStale \in 1 .. 3
         /\ MostStale * faults \in Nat
         /\ MostStale * (faults + 1) = MostStale * faults + MostStale
<1>1. MostStale = 1 \/ MostStale = 2 \/ MostStale = 3
  BY DEF MostStale
<1>2. faults \in Nat
  BY DEF TypeOK
<1>3. CASE MostStale = 1
  BY <1>2, <1>3
<1>4. CASE MostStale = 2
  BY <1>2, <1>4
<1>5. CASE MostStale = 3
  BY <1>2, <1>5
<1> QED
  BY <1>1, <1>3, <1>4, <1>5

\* A step that costs notification m no further delivery, ...
Free(m) ==
  /\ sends'[m] > sends[m] => Known(m)
  /\ IsFiniteSet(Claims(m)')
  /\ Load(m)' <= Load(m)

\* ... and a fault of worker w, at what it has in hand, that costs some.
Costs(w, m) ==
  /\ faults' = faults + 1 /\ HasInHand(w, m)
  /\ sends'[m] > sends[m] => Known(m)
  /\ IsFiniteSet(Claims(m)')
  /\ Load(m)' <= Load(m) + MostStale

\* Either kind of step keeps the balance.
LEMMA BalanceStep ==
  ASSUME TypeOK, TypeOK', [Next]_vars, NEW m \in Msg, Balanced(m), NEW w,
         Free(m) \/ Costs(w, m)
  PROVE  Balanced(m)'
<1>1. /\ sends[m] \in Nat /\ sends'[m] \in Nat
      /\ IsFiniteSet(Claims(m)')
      /\ sends'[m] > sends[m] => Known(m)
  BY DEF TypeOK, Free, Costs
<1>2. Cardinality(Claims(m)) \in Nat /\ Cardinality(Claims(m)') \in Nat
  BY <1>1, FS_CardinalityType DEF Balanced
<1>3. /\ MostStale \in 1 .. 3 /\ MostStale * faults \in Nat
      /\ MostStale * (faults + 1) = MostStale * faults + MostStale
  BY Allowance
<1>4. UNCHANGED faults \/ faults' = faults + 1
  BY FaultsStep
<1>5. sends'[m] > 0 => Known(m)'
  BY <1>1, KnownStays DEF Balanced
<1>6. MostStale' = MostStale
  BY DEF MostStale
<1>7. sends'[m] + Cardinality(Claims(m)') <= 1 + MostStale * faults'
  <2> DEFINE a == Load(m)
             b == Load(m)'
             p == MostStale * faults
             q == MostStale * faults'
  <2>1. a \in Nat /\ b \in Nat /\ p \in Nat /\ a <= 1 + p
    BY <1>1, <1>2, <1>3 DEF Load, Balanced
  <2>2. q = p \/ q = p + MostStale
    BY <1>3, <1>4
  <2>3. b <= a \/ (b <= a + MostStale /\ q = p + MostStale)
    BY <1>3 DEF Free, Costs
  <2> HIDE DEF a, b, p, q
  <2>4. b <= 1 + q
    BY <1>3, <2>1, <2>2, <2>3
  <2> QED
    BY <2>4 DEF b, q, Load
<1> QED
  BY <1>1, <1>5, <1>6, <1>7 DEF Balanced

LEMMA CountKept ==
  ASSUME TypeOK, TypeOK', NEW m \in Msg, Balanced(m),
         IsFiniteSet(Claims(m)'), Cardinality(Claims(m)') <= Cardinality(Claims(m)),
         UNCHANGED sends
  PROVE  Free(m)
<1>1. /\ sends[m] \in Nat /\ Cardinality(Claims(m)) \in Nat /\ Cardinality(Claims(m)') \in Nat
  BY FS_CardinalityType DEF TypeOK, Balanced
<1> QED
  BY <1>1 DEF Free, Load

LEMMA NothingAdded ==
  ASSUME TypeOK, TypeOK', NEW m \in Msg, Balanced(m),
         Claims(m)' \subseteq Claims(m), sends'[m] = sends[m]
  PROVE  Free(m)
<1>1. /\ sends[m] \in Nat /\ IsFiniteSet(Claims(m)) /\ Cardinality(Claims(m)) \in Nat
  BY FS_CardinalityType DEF TypeOK, Balanced
<1>2. /\ IsFiniteSet(Claims(m)') /\ Cardinality(Claims(m)') <= Cardinality(Claims(m))
      /\ Cardinality(Claims(m)') \in Nat
  BY <1>1, FS_Subset, FS_CardinalityType
<1> QED
  BY <1>1, <1>2 DEF Free, Load

\* A claim moves from one place to the next.
LEMMA ClaimMoves ==
  ASSUME TypeOK, TypeOK', NEW m \in Msg, Balanced(m),
         NEW x \in Claims(m), NEW y, Claims(m)' \subseteq Claims(m) \cup {y}, x \notin Claims(m)',
         sends'[m] = sends[m]
  PROVE  Free(m)
<1>1. /\ sends[m] \in Nat /\ IsFiniteSet(Claims(m)) /\ Cardinality(Claims(m)) \in Nat
  BY FS_CardinalityType DEF TypeOK, Balanced
<1>2. /\ IsFiniteSet(Claims(m) \ {x})
      /\ Cardinality(Claims(m) \ {x}) = Cardinality(Claims(m)) - 1
  BY <1>1, FS_RemoveElement
<1>3. /\ IsFiniteSet((Claims(m) \ {x}) \cup {y})
      /\ Cardinality((Claims(m) \ {x}) \cup {y}) <= Cardinality(Claims(m))
  <2>1. /\ IsFiniteSet((Claims(m) \ {x}) \cup {y})
        /\ Cardinality((Claims(m) \ {x}) \cup {y}) =
             IF y \in Claims(m) \ {x} THEN Cardinality(Claims(m) \ {x})
                                      ELSE Cardinality(Claims(m) \ {x}) + 1
    BY <1>2, FS_AddElement
  <2> QED
    BY <1>1, <1>2, <2>1
<1>4. Claims(m)' \subseteq (Claims(m) \ {x}) \cup {y}
  OBVIOUS
<1>5. /\ IsFiniteSet(Claims(m)')
      /\ Cardinality(Claims(m)') <= Cardinality((Claims(m) \ {x}) \cup {y})
      /\ Cardinality(Claims(m)') \in Nat
      /\ Cardinality((Claims(m) \ {x}) \cup {y}) \in Nat
  BY <1>3, <1>4, FS_Subset, FS_CardinalityType
<1>6. Cardinality(Claims(m)') <= Cardinality(Claims(m))
  BY <1>1, <1>3, <1>5
<1> QED
  BY <1>1, <1>5, <1>6 DEF Free, Load

\* A claim ends in a delivery.
LEMMA ClaimDelivered ==
  ASSUME TypeOK, TypeOK', NEW m \in Msg, Balanced(m),
         NEW x \in Claims(m), Claims(m)' \subseteq Claims(m), x \notin Claims(m)',
         sends'[m] = sends[m] + 1, Known(m)
  PROVE  Free(m)
<1>1. /\ sends[m] \in Nat /\ IsFiniteSet(Claims(m)) /\ Cardinality(Claims(m)) \in Nat
  BY FS_CardinalityType DEF TypeOK, Balanced
<1>2. /\ IsFiniteSet(Claims(m) \ {x})
      /\ Cardinality(Claims(m) \ {x}) = Cardinality(Claims(m)) - 1
  BY <1>1, FS_RemoveElement
<1>3. Claims(m)' \subseteq Claims(m) \ {x}
  OBVIOUS
<1>4. /\ IsFiniteSet(Claims(m)')
      /\ Cardinality(Claims(m)') <= Cardinality(Claims(m)) - 1
      /\ Cardinality(Claims(m)') \in Nat
  BY <1>2, <1>3, FS_Subset, FS_CardinalityType
<1> QED
  BY <1>1, <1>4 DEF Free, Load

LEMMA UnionBound ==
  ASSUME NEW S, NEW T, NEW Y, IsFiniteSet(T), IsFiniteSet(Y), S \subseteq T \cup Y
  PROVE  IsFiniteSet(S) /\ Cardinality(S) <= Cardinality(T) + Cardinality(Y)
<1>1. Cardinality(T) \in Nat /\ Cardinality(Y) \in Nat
  BY FS_CardinalityType
<1>2. /\ IsFiniteSet(T \cup Y) /\ IsFiniteSet(T \cap Y)
      /\ Cardinality(T \cup Y) = Cardinality(T) + Cardinality(Y) - Cardinality(T \cap Y)
  BY FS_Union, FS_Intersection
<1>3. IsFiniteSet(S) /\ Cardinality(S) <= Cardinality(T \cup Y)
  BY <1>2, FS_Subset
<1>4. /\ Cardinality(T \cup Y) \in Nat /\ Cardinality(T \cap Y) \in Nat /\ Cardinality(S) \in Nat
  BY <1>2, <1>3, FS_CardinalityType
<1> QED
  BY <1>1, <1>2, <1>3, <1>4

\* A fault adds claims, or a delivery that settles none.
LEMMA FaultAdds ==
  ASSUME TypeOK, TypeOK', NEW m \in Msg, Balanced(m), faults' = faults + 1,
         NEW w, HasInHand(w, m),
         NEW Y, IsFiniteSet(Y), Claims(m)' \subseteq Claims(m) \cup Y,
         sends'[m] + Cardinality(Y) <= sends[m] + MostStale,
         sends'[m] > sends[m] => Known(m)
  PROVE  Costs(w, m)
<1>1. /\ sends[m] \in Nat /\ sends'[m] \in Nat
      /\ IsFiniteSet(Claims(m)) /\ Cardinality(Claims(m)) \in Nat
      /\ Cardinality(Y) \in Nat
  BY FS_CardinalityType DEF TypeOK, Balanced
<1>2. /\ IsFiniteSet(Claims(m)')
      /\ Cardinality(Claims(m)') <= Cardinality(Claims(m)) + Cardinality(Y)
  BY <1>1, UnionBound
<1>3. Cardinality(Claims(m)') \in Nat /\ MostStale \in 1 .. 3
  BY <1>2, FS_CardinalityType, Allowance
<1>4. sends'[m] + Cardinality(Claims(m)') <= (sends[m] + Cardinality(Claims(m))) + MostStale
  BY <1>1, <1>2, <1>3
<1> QED
  BY <1>2, <1>4 DEF Costs, Load

(***************************************************************************)
(* What each step costs                                                    *)
(***************************************************************************)
\* Steps of the handler and of Run that neither send nor publish.
LEMMA QuietFree ==
  ASSUME TypeOK, Deliveries, [Next]_vars, NEW w \in Worker,
         \/ Drop(w) \/ PassLimiter(w) \/ LimiterCancelled(w) \/ SendFails(w)
         \/ Confirmed(w) \/ ConfirmNacked(w) \/ (ConfirmAbandoned(w) /\ Cancelled(w))
         \/ Ack(w) \/ Nack(w) \/ RunReturns(w),
         NEW m \in Msg, Balanced(m)
  PROVE  Free(m)
<1> USE DEF brokerVars, handlerVars, procVars, pubVars, history
<1>1. StepOf(w) /\ TypeOK'
  BY TypeStep DEF StepOf, Run, Handle
<1>2. UNCHANGED <<store, sends, main, consUp, inbox, wire>>
  BY DEF Drop, PassLimiter, LimiterCancelled, SendFails, Confirmed, ConfirmNacked,
         ConfirmAbandoned, Ack, Nack, Settle, RunReturns
<1>3. acked \subseteq acked'
  BY DEF Drop, PassLimiter, LimiterCancelled, SendFails, Confirmed, ConfirmNacked,
         ConfirmAbandoned, Ack, Nack, Settle, RunReturns
<1>4. ASSUME NEW i, SeesTo(w, i)
      PROVE  SeesTo(w, i)' \/ i \in acked'
  <2>1. /\ main[w] = "serving" /\ i \in held[w] /\ cur[w] = i
        /\ pc[w] \in {"process", "send", "failed", "settle", "confirm"}
        /\ pc[w] = "confirm" => conf[w] \in {"pending", "ack"}
    BY <1>4 DEF SeesTo, Working
  <2>2. CASE Drop(w) \/ PassLimiter(w) \/ SendFails(w)
    <3>1. UNCHANGED <<main, held, cur>> /\ pc'[w] \in {"settle", "send", "failed"}
      BY <2>2 DEF TypeOK, Drop, PassLimiter, SendFails, Move
    <3> QED
      BY <2>1, <3>1 DEF SeesTo, Working
  <2>3. CASE Confirmed(w)
    <3>1. UNCHANGED <<main, held, cur>> /\ pc'[w] = "settle"
      BY <2>3 DEF TypeOK, Confirmed, Move
    <3> QED
      BY <2>1, <3>1 DEF SeesTo
  <2>4. CASE Ack(w)
    <3>1. consUp[w]
      BY <2>1 DEF Deliveries, InHand
    <3> QED
      BY <2>1, <2>4, <3>1 DEF Ack
  <2>5. ~LimiterCancelled(w) /\ ~(ConfirmAbandoned(w) /\ Cancelled(w))
    BY <2>1 DEF LimiterCancelled, Cancelled
  <2>6. ~ConfirmNacked(w) /\ ~Nack(w) /\ ~RunReturns(w)
    BY <2>1 DEF ConfirmNacked, Nack, Settle, RunReturns, Move
  <2> QED
    BY <2>2, <2>3, <2>4, <2>5, <2>6
<1>5. Working(w)' => Working(w) /\ cur'[w] = cur[w]
  BY DEF TypeOK, Working, Drop, PassLimiter, LimiterCancelled, SendFails, Confirmed,
         ConfirmNacked, ConfirmAbandoned, Ack, Nack, Settle, RunReturns, Move
<1>6. /\ w \in HandlerClaims(m)' => w \in HandlerClaims(m)
      /\ StaleClaims(w, m)' = StaleClaims(w, m)
      /\ WireClaims(w, m)' = WireClaims(w, m)
  BY <1>2, <1>5 DEF HandlerClaims, Handled, StaleClaims, Stale, WireClaims
<1>7. Claims(m)' \subseteq Claims(m)
  BY <1>1, <1>2, <1>3, <1>4, <1>6, NewClaims
<1> QED
  BY <1>1, <1>2, <1>7, NothingAdded

\* A worker that delivers nothing more, or has just started.
LEMMA StopFree ==
  ASSUME TypeOK, Deliveries, [Next]_vars, NEW w \in Worker,
         \/ Start(w) \/ Deliver(w) \/ RunDrained(w)
         \/ ClosePublisher(w) \/ CloseConsumer(w) \/ Exit(w),
         NEW m \in Msg, Balanced(m)
  PROVE  Free(m)
<1> USE DEF brokerVars, handlerVars, procVars, pubVars, history
<1>1. StepOf(w) /\ TypeOK'
  BY TypeStep DEF StepOf, Run, Shutdown
<1>2. UNCHANGED <<store, sends, acked>>
  BY DEF Start, Deliver, RunDrained, ClosePublisher, CloseConsumer, Exit, Vanish
<1>3. ASSUME NEW i, SeesTo(w, i)
      PROVE  SeesTo(w, i)'
  <2>1. main[w] = "serving" /\ pc[w] \notin {"off", "select"}
    BY <1>3 DEF SeesTo, Working
  <2>2. Deliver(w)
    BY <2>1 DEF Start, RunDrained, ClosePublisher, CloseConsumer, Exit, Move
  <2>3. UNCHANGED <<main, cur, pc, conf>> /\ held[w] \subseteq held'[w]
    BY <2>2 DEF Deliver, TypeOK
  <2> QED
    BY <1>3, <2>3 DEF SeesTo, Working
<1>4. w \in HandlerClaims(m)' => w \in HandlerClaims(m)
  <2>1. Working(w)' => Working(w) /\ cur'[w] = cur[w]
    BY DEF TypeOK, Working, Start, Deliver, RunDrained, ClosePublisher, CloseConsumer, Exit,
           Vanish, Move
  <2> QED
    BY <1>2, <2>1 DEF HandlerClaims, Handled
<1>5. StaleClaims(w, m)' = {}
  <2>1. main'[w] # "serving" \/ consUp'[w]
    BY DEF TypeOK, Start, Deliver, RunDrained, ClosePublisher, CloseConsumer, Exit, Vanish
  <2> QED
    BY <2>1 DEF StaleClaims, Stale
<1>6. WireClaims(w, m)' \subseteq WireClaims(w, m)
  <2>1. wire'[w] = wire[w] \/ wire'[w] = <<>>
    BY DEF TypeOK, Start, Deliver, RunDrained, ClosePublisher, CloseConsumer, Exit, Vanish
  <2> QED
    BY <2>1, EmptySeq DEF WireClaims
<1>7. Claims(m)' \subseteq Claims(m)
  BY <1>1, <1>2, <1>3, <1>4, <1>5, <1>6, NewClaims
<1> QED
  BY <1>1, <1>2, <1>7, NothingAdded

\* What a worker sees to is in its hand.
LEMMA SeenInHand ==
  ASSUME NEW w \in Worker, NEW m \in Msg, NEW i, SeesTo(w, i), store[i].id = m
  PROVE  HasInHand(w, m)
BY DEF SeesTo, Working, HasInHand, Handling, Handled, Steps

\* Faults that may keep a worker from settling the delivery it handles.
LEMMA FaultCosts ==
  ASSUME TypeOK, Deliveries, [Next]_vars, NEW w \in Worker,
         \/ Signal(w) \/ Crash(w) \/ LosePublisherConn(w)
         \/ (ConfirmAbandoned(w) /\ ~Cancelled(w)),
         NEW m \in Msg, Balanced(m)
  PROVE  Free(m) \/ Costs(w, m)
<1> USE DEF brokerVars, handlerVars, procVars, pubVars, history
<1>1. StepOf(w) /\ TypeOK'
  BY TypeStep DEF StepOf, Run, Handle, Fail
<1>2. UNCHANGED <<store, sends, acked, wire>> /\ faults' = faults + 1
  BY DEF Signal, Crash, LosePublisherConn, ConfirmAbandoned, Vanish, Fault
<1>3. \A i : SeesTo(w, i) => i = cur[w]
  BY DEF SeesTo
<1>4. w \in HandlerClaims(m)' => w \in HandlerClaims(m)
  <2>1. Working(w)' => Working(w) /\ cur'[w] = cur[w]
    BY DEF TypeOK, Working, Signal, Crash, LosePublisherConn, ConfirmAbandoned, Vanish, Move
  <2> QED
    BY <1>2, <2>1 DEF HandlerClaims, Handled
<1>5. StaleClaims(w, m)' \subseteq StaleClaims(w, m)
  <2>1. \/ main'[w] # "serving"
        \/ UNCHANGED <<main, consUp, inbox>>
    BY DEF TypeOK, Signal, Crash, LosePublisherConn, ConfirmAbandoned, Vanish
  <2> QED
    BY <1>2, <2>1 DEF StaleClaims, Stale
<1>6. WireClaims(w, m)' = WireClaims(w, m)
  BY <1>2 DEF WireClaims
<1>7. Claims(m)' \subseteq Claims(m) \cup {<<"copy", cur[w], cur[w]>>}
  BY <1>1, <1>2, <1>3, <1>4, <1>5, <1>6, NewClaims
<1>8. /\ IsFiniteSet({<<"copy", cur[w], cur[w]>>})
      /\ Cardinality({<<"copy", cur[w], cur[w]>>}) = 1
  BY FS_Singleton
<1>9. sends[m] \in Nat /\ MostStale \in 1 .. 3
  BY Allowance DEF TypeOK
<1>10. sends'[m] + Cardinality({<<"copy", cur[w], cur[w]>>}) <= sends[m] + MostStale
  BY <1>2, <1>8, <1>9
<1>11. sends'[m] = sends[m]
  BY <1>2
<1>12. CASE HasInHand(w, m)
  BY <1>1, <1>2, <1>7, <1>8, <1>9, <1>10, <1>11, <1>12, FaultAdds
<1>13. CASE ~HasInHand(w, m)
  <2>1. Claims(m)' \subseteq Claims(m)
    BY <1>1, <1>2, <1>3, <1>4, <1>5, <1>6, <1>13, SeenInHand, NewClaims
  <2> QED
    BY <1>1, <1>11, <2>1, NothingAdded
<1> QED
  BY <1>12, <1>13

LEMMA SendCosts ==
  ASSUME TypeOK, Deliveries, [Next]_vars, NEW w \in Worker,
         SendOk(w) \/ SendAmbiguous(w),
         NEW m \in Msg, Balanced(m)
  PROVE  Free(m) \/ Costs(w, m)
<1> USE DEF brokerVars, procVars, pubVars
<1>1. StepOf(w) /\ TypeOK' /\ pc[w] = "send" /\ Handling(w)
  BY TypeStep DEF StepOf, Run, Handle, SendOk, SendAmbiguous, Move, Handling, Steps
<1>2. UNCHANGED <<store, acked, held, inbox, cur, main, consUp, wire>>
  BY DEF SendOk, SendAmbiguous
<1>3. pc'[w] \in {"settle", "failed"} /\ (SendOk(w) => pc'[w] = "settle")
  BY DEF TypeOK, SendOk, SendAmbiguous, Move
<1>4. \A i : SeesTo(w, i) => SeesTo(w, i)'
  BY <1>2, <1>3 DEF SeesTo, Working
<1>5. /\ w \in HandlerClaims(m)' => w \in HandlerClaims(m)
      /\ StaleClaims(w, m)' = StaleClaims(w, m)
      /\ WireClaims(w, m)' = WireClaims(w, m)
  BY <1>1, <1>2 DEF HandlerClaims, Handled, Working, StaleClaims, Stale, WireClaims
<1>6. Claims(m)' \subseteq Claims(m)
  BY <1>1, <1>2, <1>4, <1>5, NewClaims
<1>7. /\ Handled(w).id \in Msg
      /\ Known(Handled(w).id)
  BY <1>1, HandledType DEF Known, Handled
<1>8. sends' = [sends EXCEPT ![Handled(w).id] = @ + 1]
  BY DEF SendOk, SendAmbiguous
<1>9. /\ sends[m] \in Nat
      /\ m # Handled(w).id => sends'[m] = sends[m]
      /\ m = Handled(w).id => sends'[m] = sends[m] + 1
  BY <1>7, <1>8 DEF TypeOK
<1>10. CASE m # Handled(w).id
  BY <1>1, <1>6, <1>9, <1>10, NothingAdded
<1>11. CASE m = Handled(w).id /\ SendOk(w)
  <2>1. w \in HandlerClaims(m) /\ w \notin HandlerClaims(m)'
    BY <1>1, <1>3, <1>11 DEF HandlerClaims, Working
  <2>2. <<"handler", w, w>> \in Claims(m)
    BY <2>1, EveryClaim DEF ClaimsAre, IsClaim
  <2>3. <<"handler", w, w>> \notin Claims(m)'
    BY <2>1, EveryNextClaim DEF ClaimsAre, IsClaim
  <2> QED
    BY <1>1, <1>6, <1>7, <1>9, <1>11, <2>2, <2>3, ClaimDelivered
<1>12. CASE m = Handled(w).id /\ SendAmbiguous(w)
  <2>1. faults' = faults + 1
    BY <1>12 DEF SendAmbiguous, Fault
  <2>2. Claims(m)' \subseteq Claims(m) \cup {}
    BY <1>6
  <2>3. sends'[m] + Cardinality({}) <= sends[m] + MostStale /\ IsFiniteSet({})
    BY <1>9, <1>12, Allowance, FS_EmptySet
  <2>4. HasInHand(w, m)
    BY <1>1, <1>12 DEF HasInHand
  <2> QED
    BY <1>1, <1>7, <1>12, <2>1, <2>2, <2>3, <2>4, FaultAdds
<1> QED
  BY <1>10, <1>11, <1>12

\* Run picks a delivery: the copy, or the stale delivery, becomes the handler's
\* claim.
LEMMA TakeCosts ==
  ASSUME TypeOK, Deliveries, [Next]_vars, NEW w \in Worker, Take(w), NEW m \in Msg, Balanced(m)
  PROVE  Free(m) \/ Costs(w, m)
<1> USE DEF brokerVars, procVars, pubVars, history
<1>1. StepOf(w) /\ TypeOK' /\ InHand(w)'
  BY TypeStep, TakeInHand DEF StepOf, Run
<1>2. /\ UNCHANGED <<store, acked, held, main, consUp, wire, sends>>
      /\ pc[w] = "select" /\ pc'[w] = "process"
  BY DEF TypeOK, Take, Move
<1>3. PICK i : cur'[w] = i
  OBVIOUS
<1>4. /\ \E a \in DOMAIN inbox[w] : inbox[w][a] = i
      /\ \A a \in DOMAIN inbox'[w] : \E b \in DOMAIN inbox[w] : inbox'[w][a] = inbox[w][b]
  <2>1. /\ inbox[w] \in Seq(Copies) /\ inbox[w] # <<>>
        /\ inbox'[w] = Tail(inbox[w]) /\ i = Head(inbox[w])
    BY <1>3 DEF Take, TypeOK
  <2>2. /\ Len(inbox[w]) \in Nat \ {0} /\ DOMAIN inbox[w] = 1 .. Len(inbox[w])
        /\ i = inbox[w][1] /\ DOMAIN inbox'[w] = 1 .. Len(inbox[w]) - 1
        /\ \A a \in 1 .. Len(inbox[w]) - 1 : inbox'[w][a] = inbox[w][a + 1]
    BY <2>1, HeadTailProperties, LenProperties, EmptySeq
  <2>3. 1 \in DOMAIN inbox[w] /\ inbox[w][1] = i
    BY <2>2
  <2>4. \A a \in DOMAIN inbox'[w] : a + 1 \in DOMAIN inbox[w] /\ inbox'[w][a] = inbox[w][a + 1]
    BY <2>2
  <2> QED
    BY <2>3, <2>4
<1>5. \A a \in DOMAIN inbox'[w] : inbox'[w][a] # i
  BY <1>1, <1>2, <1>3 DEF InHand, Handling, Steps
<1>6. /\ StaleClaims(w, m)' \subseteq StaleClaims(w, m)
      /\ i \notin StaleClaims(w, m)'
      /\ WireClaims(w, m)' = WireClaims(w, m)
      /\ \A j : ~SeesTo(w, j)
  BY <1>2, <1>4, <1>5 DEF StaleClaims, Stale, WireClaims, SeesTo, Working
<1>7. Claims(m)' \subseteq Claims(m) \cup {<<"handler", w, w>>}
  BY <1>1, <1>2, <1>6, NewClaims
<1>8. sends'[m] = sends[m] /\ sends[m] \in Nat
  BY <1>2 DEF TypeOK
<1>9. CASE Cancelled(w) /\ store[i].id = m
  <2>1. faults' = faults + 1
    BY <1>9 DEF Take, Fault
  <2>2. IsFiniteSet({<<"handler", w, w>>}) /\ Cardinality({<<"handler", w, w>>}) = 1
    BY FS_Singleton
  <2>3. sends'[m] + Cardinality({<<"handler", w, w>>}) <= sends[m] + MostStale
    BY <1>8, <2>2, Allowance
  <2>4. HasInHand(w, m)
    BY <1>4, <1>9 DEF HasInHand
  <2> QED
    BY <1>1, <1>7, <1>8, <2>1, <2>2, <2>3, <2>4, FaultAdds
<1>10. CASE store[i].id # m
  <2>1. w \notin HandlerClaims(m)'
    BY <1>2, <1>3, <1>10 DEF HandlerClaims, Handled
  <2>2. <<"handler", w, w>> \notin Claims(m)'
    BY <2>1, EveryNextClaim DEF ClaimsAre, IsClaim
  <2>3. Claims(m)' \subseteq Claims(m)
    BY <1>7, <2>2
  <2> QED
    BY <1>1, <1>8, <2>3, NothingAdded
<1>11. CASE ~Cancelled(w) /\ store[i].id = m /\ consUp[w]
  <2>1. i \in held[w] /\ i \in Pending /\ store[i].key # Dead /\ main[w] = "serving"
    BY <1>4, <1>11 DEF Deliveries, InHand, Cancelled
  <2>2. \A v \in Worker : ~SeesTo(v, i)
    BY <1>6, <2>1 DEF SeesTo, Deliveries
  <2>3. i \in CopyClaims(m)
    BY <1>11, <2>1, <2>2 DEF CopyClaims, InLane, PendingOf
  <2>4. <<"copy", i, i>> \in Claims(m)
    BY <2>3, EveryClaim DEF ClaimsAre, IsClaim
  <2>5. SeesTo(w, i)'
    BY <1>2, <1>3, <2>1 DEF SeesTo, Working
  <2>6. i \notin CopyClaims(m)'
    BY <1>2, <2>1, <2>5 DEF CopyClaims, InDead
  <2>7. <<"copy", i, i>> \notin Claims(m)'
    BY <2>6, EveryNextClaim DEF ClaimsAre, IsClaim
  <2> QED
    BY <1>1, <1>7, <1>8, <2>4, <2>7, ClaimMoves
<1>12. CASE ~Cancelled(w) /\ store[i].id = m /\ ~consUp[w]
  <2>1. i \in StaleClaims(w, m)
    BY <1>4, <1>12 DEF StaleClaims, Stale, Cancelled
  <2>2. <<"stale", w, i>> \in Claims(m)
    BY <2>1, EveryClaim DEF ClaimsAre, IsClaim
  <2>3. <<"stale", w, i>> \notin Claims(m)'
    BY <1>6, EveryNextClaim DEF ClaimsAre, IsClaim
  <2> QED
    BY <1>1, <1>7, <1>8, <2>2, <2>3, ClaimMoves
<1> QED
  BY <1>9, <1>10, <1>11, <1>12

\* The handler's claim goes to the wire, or back to the copy it requeues.
LEMMA PublishFree ==
  ASSUME TypeOK, Deliveries, [Next]_vars, NEW w \in Worker, Retry(w) \/ DeadLetter(w),
         NEW m \in Msg, Balanced(m)
  PROVE  Free(m)
<1> USE DEF brokerVars, procVars, pubVars, history
<1>1. /\ StepOf(w) /\ TypeOK' /\ Publish(w, NextCopy(w))
      /\ pc[w] = "failed" /\ Handling(w)
  BY TypeStep DEF StepOf, Run, Handle, Retry, DeadLetter, NextCopy, Handling, Steps
<1>2. NextCopy(w) \in Copy /\ NextCopy(w).id = Handled(w).id
  BY <1>1, NextCopyType
<1>3. UNCHANGED <<store, acked, held, inbox, cur, main, consUp, sends>>
  BY <1>1 DEF Publish
<1>4. pc'[w] \in {"confirm", "nack"}
  BY <1>1 DEF Publish, TypeOK
<1>5. w \notin HandlerClaims(m)' /\ StaleClaims(w, m)' = StaleClaims(w, m)
  BY <1>3, <1>4 DEF HandlerClaims, Working, StaleClaims, Stale
<1>6. m = Handled(w).id => <<"handler", w, w>> \in Claims(m)
  <2>1. m = Handled(w).id => w \in HandlerClaims(m)
    BY <1>1 DEF HandlerClaims, Working
  <2> QED
    BY <2>1, EveryClaim DEF ClaimsAre, IsClaim
<1>7. <<"handler", w, w>> \notin Claims(m)'
  BY <1>5, EveryNextClaim DEF ClaimsAre, IsClaim
<1>8. sends'[m] = sends[m]
  BY <1>3
<1>9. \E y : /\ Claims(m)' \subseteq Claims(m) \cup {y}
             /\ m # Handled(w).id => Claims(m)' \subseteq Claims(m)
  <2>1. CASE pubUp[w]
    <3> DEFINE n == Len(wire[w])
    <3>1. /\ wire'[w] = Append(wire[w], NextCopy(w)) /\ conf'[w] = "pending"
          /\ pc'[w] = "confirm"
      BY <1>1, <2>1 DEF Publish, TypeOK
    <3>2. wire[w] \in Seq(Copy)
      BY DEF TypeOK
    <3>3. /\ n \in Nat /\ DOMAIN wire[w] = 1 .. n /\ DOMAIN wire'[w] = 1 .. n + 1
          /\ wire'[w][n + 1] = NextCopy(w)
          /\ \A k \in 1 .. n : wire'[w][k] = wire[w][k]
      BY <1>2, <3>1, <3>2, AppendProperties, LenProperties
    <3>4. \A k \in WireClaims(w, m)' :
            k \in WireClaims(w, m) \/ (k = n + 1 /\ m = Handled(w).id)
      BY <1>2, <3>3 DEF WireClaims
    <3>5. \A i : SeesTo(w, i) => SeesTo(w, i)'
      BY <1>3, <3>1 DEF SeesTo
    <3> HIDE DEF n
    <3>6. Claims(m)' \subseteq Claims(m) \cup {<<"wire", w, n + 1>>}
      BY <1>1, <1>3, <1>5, <3>4, <3>5, NewClaims
    <3>7. m # Handled(w).id => Claims(m)' \subseteq Claims(m)
      BY <1>1, <1>3, <1>5, <3>4, <3>5, NewClaims
    <3> QED
      BY <3>6, <3>7
  <2>2. CASE ~pubUp[w]
    <3>1. UNCHANGED wire
      BY <1>1, <2>2 DEF Publish
    <3>2. WireClaims(w, m)' = WireClaims(w, m)
      BY <3>1 DEF WireClaims
    <3>3. \A i : SeesTo(w, i) => i = cur[w]
      BY DEF SeesTo
    <3>4. Claims(m)' \subseteq Claims(m) \cup {<<"copy", cur[w], cur[w]>>}
      BY <1>1, <1>3, <1>5, <3>2, <3>3, NewClaims
    <3>5. m # Handled(w).id => Claims(m)' \subseteq Claims(m)
      BY <1>1, <1>3, <1>5, <3>2, <3>3, NewClaims DEF Handled
    <3> QED
      BY <3>4, <3>5
  <2> QED
    BY <2>1, <2>2
<1> QED
  BY <1>1, <1>6, <1>7, <1>8, <1>9, ClaimMoves, NothingAdded

LEMMA ThreeAtMost ==
  ASSUME NEW a, NEW b, NEW c, NEW S \in SUBSET {a, b, c}
  PROVE  IsFiniteSet(S) /\ Cardinality(S) \in Nat /\ Cardinality(S) <= 3
<1>1. IsFiniteSet({a}) /\ Cardinality({a}) = 1
  BY FS_Singleton
<1>2. /\ IsFiniteSet({a} \cup {b})
      /\ Cardinality({a} \cup {b}) = IF b \in {a} THEN Cardinality({a}) ELSE Cardinality({a}) + 1
  BY <1>1, FS_AddElement
<1>3. /\ IsFiniteSet(({a} \cup {b}) \cup {c})
      /\ Cardinality(({a} \cup {b}) \cup {c}) =
           IF c \in {a} \cup {b} THEN Cardinality({a} \cup {b}) ELSE Cardinality({a} \cup {b}) + 1
  BY <1>2, FS_AddElement
<1>4. Cardinality(({a} \cup {b}) \cup {c}) <= 3
  BY <1>1, <1>2, <1>3
<1>5. S \subseteq ({a} \cup {b}) \cup {c}
  OBVIOUS
<1>6. IsFiniteSet(S) /\ Cardinality(S) <= Cardinality(({a} \cup {b}) \cup {c})
  BY <1>3, <1>5, FS_Subset
<1>7. Cardinality(S) \in Nat /\ Cardinality(({a} \cup {b}) \cup {c}) \in Nat
  BY <1>3, <1>6, FS_CardinalityType
<1> QED
  BY <1>4, <1>6, <1>7

\* A lost consumer connection leaves the worker with the delivery in hand and
\* two forwarded ones, all within the prefetch, which the broker requeues.
LEMMA LoseConsumerCosts ==
  ASSUME TypeOK, Deliveries, [Next]_vars, NEW w \in Worker, LoseConsumerConn(w),
         NEW m \in Msg, Balanced(m)
  PROVE  Free(m) \/ Costs(w, m)
<1> USE DEF brokerVars, handlerVars, procVars, pubVars, history
<1>1. /\ StepOf(w) /\ TypeOK' /\ InHand(w)
      /\ UNCHANGED <<store, acked, cur, pc, main, wire, conf, sends>>
      /\ consUp[w] /\ faults' = faults + 1
  BY TypeStep DEF StepOf, Fail, LoseConsumerConn, Fault, Deliveries
<1>2. PICK k \in 0 .. 2 : k <= Len(inbox[w]) /\ inbox'[w] = SubSeq(inbox[w], 1, k)
  BY DEF LoseConsumerConn, DropConsumerConn, TypeOK
<1>3. PICK a, b : \A j \in DOMAIN inbox'[w] : /\ inbox'[w][j] \in {a, b}
                                              /\ j \in DOMAIN inbox[w]
                                              /\ inbox'[w][j] = inbox[w][j]
  <2>1. inbox[w] \in Seq(Copies) /\ Len(inbox[w]) \in Nat /\ DOMAIN inbox[w] = 1 .. Len(inbox[w])
    BY LenProperties DEF TypeOK
  <2>2. \A j \in DOMAIN inbox'[w] : j \in 1 .. k /\ inbox'[w][j] = inbox[w][j]
    BY <1>2, <2>1
  <2>3. \A j \in DOMAIN inbox'[w] : j \in {1, 2} /\ j \in DOMAIN inbox[w]
    BY <1>2, <2>1, <2>2
  <2>4. \A j \in DOMAIN inbox'[w] : inbox'[w][j] \in {inbox[w][1], inbox[w][2]}
    BY <2>2, <2>3
  <2> QED
    BY <2>2, <2>3, <2>4
<1>4. PICK P : P = {i \in held[w] : SeesTo(w, i) \/ \E j \in DOMAIN inbox'[w] : inbox'[w][j] = i}
  OBVIOUS
<1>5. P \subseteq {cur[w], a, b} /\ P \subseteq held[w]
  BY <1>3, <1>4 DEF SeesTo
<1>6. IsFiniteSet(P) /\ Cardinality(P) \in Nat /\ Cardinality(P) <= MostStale
  <2>1. IsFiniteSet(P) /\ Cardinality(P) \in Nat /\ Cardinality(P) <= 3
    BY <1>5, ThreeAtMost
  <2>2. IsFiniteSet(held[w]) /\ Cardinality(held[w]) \in Nat
    BY CopiesFinite DEF TypeOK
  <2>3. Cardinality(P) <= Cardinality(held[w])
    BY <1>5, <2>2, FS_Subset
  <2>4. Prefetch = 0 \/ Cardinality(held[w]) <= Prefetch
    BY <1>1 DEF InHand
  <2> QED
    BY <2>1, <2>2, <2>3, <2>4, LimitAssumption DEF MostStale
<1> DEFINE tag(i) == IF SeesTo(w, i) THEN <<"copy", i, i>> ELSE <<"stale", w, i>>
<1>7. PICK f : f = [i \in P |-> tag(i)]
  OBVIOUS
<1>8. PICK Y : Y = {f[i] : i \in P}
  OBVIOUS
<1>9. f \in Surjection(P, Y)
  BY <1>7, <1>8 DEF Surjection
<1>10. IsFiniteSet(Y) /\ Cardinality(Y) \in Nat /\ Cardinality(Y) <= MostStale
  <2>1. IsFiniteSet(Y) /\ Cardinality(Y) <= Cardinality(P)
    BY <1>6, <1>9, FS_Surjection
  <2> QED
    BY <1>6, <2>1, FS_CardinalityType, Allowance
<1>11. ASSUME NEW i, SeesTo(w, i) PROVE <<"copy", i, i>> \in Y
  BY <1>4, <1>7, <1>8, <1>11 DEF SeesTo
<1>12. ASSUME NEW i \in StaleClaims(w, m)' PROVE <<"stale", w, i>> \in Y
  <2>1. PICK j \in DOMAIN inbox'[w] : inbox'[w][j] = i
    BY <1>12 DEF StaleClaims, Stale
  <2>2. i \in held[w]
    BY <1>1, <1>3, <2>1 DEF InHand
  <2>3. ~SeesTo(w, i)
    BY <1>1, <1>3, <2>1 DEF InHand, SeesTo, Working, Handling, Steps
  <2> QED
    BY <1>4, <1>7, <1>8, <2>1, <2>2, <2>3
<1>13. WireClaims(w, m)' = WireClaims(w, m)
  BY <1>1 DEF WireClaims
<1>14. w \in HandlerClaims(m)' => w \in HandlerClaims(m)
  BY <1>1 DEF HandlerClaims, Handled, Working
<1>15. Claims(m)' \subseteq Claims(m) \cup Y
  <2> HIDE DEF tag
  <2> QED
    BY <1>1, <1>11, <1>12, <1>13, <1>14, NewClaims
<1>16. sends'[m] = sends[m] /\ sends[m] \in Nat
  BY <1>1 DEF TypeOK
<1>17. sends'[m] + Cardinality(Y) <= sends[m] + MostStale
  BY <1>10, <1>16, Allowance
<1>18. CASE HasInHand(w, m)
  BY <1>1, <1>10, <1>15, <1>16, <1>17, <1>18, FaultAdds
<1>19. CASE ~HasInHand(w, m)
  <2>1. StaleClaims(w, m)' = {}
    BY <1>1, <1>3, <1>19 DEF HasInHand, StaleClaims, Stale
  <2>2. \A i \in Copies : store[i].id = m => ~SeesTo(w, i)
    BY <1>19, SeenInHand
  <2>3. Claims(m)' \subseteq Claims(m)
    BY <1>1, <1>13, <1>14, <2>1, <2>2, NewClaims
  <2> QED
    BY <1>1, <1>16, <2>3, NothingAdded
<1> QED
  BY <1>18, <1>19

\* Reading the first publish moves the others up: what is left on the wire, and
\* the claims elsewhere, count no more than before.
LEMMA WireShift ==
  ASSUME TypeOK, NEW w \in Worker, NEW m \in Msg, IsFiniteSet(Claims(m)),
         wire[w] # <<>>, wire'[w] = Tail(wire[w]),
         NEW T, \A x \in T : \/ \E k \in WireClaims(w, m)' : x = <<"wire", w, k>>
                             \/ x \in Claims(m) /\ \A k : x # <<"wire", w, k>>
  PROVE  /\ IsFiniteSet(T) /\ Cardinality(T) \in Nat
         /\ Cardinality(T) <= Cardinality(Claims(m))
         /\ Head(wire[w]).id = m => Cardinality(T) <= Cardinality(Claims(m)) - 1
<1> DEFINE first == <<"wire", w, 1>>
           rest == Claims(m) \ {first}
<1>1. /\ wire[w] \in Seq(Copy) /\ Len(wire[w]) \in Nat \ {0}
      /\ DOMAIN wire[w] = 1 .. Len(wire[w]) /\ Head(wire[w]) = wire[w][1]
      /\ DOMAIN wire'[w] = 1 .. Len(wire[w]) - 1
      /\ \A k \in 1 .. Len(wire[w]) - 1 : wire'[w][k] = wire[w][k + 1]
  <2>1. wire[w] \in Seq(Copy)
    BY DEF TypeOK
  <2> QED
    BY <2>1, HeadTailProperties, LenProperties, EmptySeq
<1>2. \A k \in WireClaims(w, m)' : k \in Nat /\ k + 1 \in WireClaims(w, m) /\ k + 1 # 1
  BY <1>1 DEF WireClaims
<1>3. \A k \in WireClaims(w, m)' : <<"wire", w, k + 1>> \in rest
  <2>1. \A k \in WireClaims(w, m)' : <<"wire", w, k + 1>> \in Claims(m)
    BY <1>2, EveryClaim DEF ClaimsAre, IsClaim
  <2> QED
    BY <1>2, <2>1
<1>4. Head(wire[w]).id = m => first \in Claims(m)
  <2>1. Head(wire[w]).id = m => 1 \in WireClaims(w, m)
    BY <1>1 DEF WireClaims
  <2> QED
    BY <2>1, EveryClaim DEF ClaimsAre, IsClaim
<1>5. /\ IsFiniteSet(rest) /\ Cardinality(rest) \in Nat /\ Cardinality(Claims(m)) \in Nat
      /\ Cardinality(rest) <= Cardinality(Claims(m))
      /\ Head(wire[w]).id = m => Cardinality(rest) <= Cardinality(Claims(m)) - 1
  <2> HIDE DEF first
  <2>1. /\ IsFiniteSet(rest)
        /\ Cardinality(rest) = IF first \in Claims(m) THEN Cardinality(Claims(m)) - 1
                               ELSE Cardinality(Claims(m))
    BY FS_RemoveElement
  <2>2. Cardinality(rest) \in Nat /\ Cardinality(Claims(m)) \in Nat
    BY <2>1, FS_CardinalityType
  <2> HIDE DEF rest
  <2> QED
    BY <1>4, <2>1, <2>2
<1>6. \A x \in T : (\A k : x # <<"wire", w, k>>) => x \in rest
  OBVIOUS
<1> DEFINE moved(x) == IF \E k : x = <<"wire", w, k>> THEN <<"wire", w, x[3] + 1>> ELSE x
<1>7. PICK f : f = [x \in T |-> moved(x)]
  OBVIOUS
<1>8. \A x \in T : /\ f[x] \in rest
                   /\ \/ \E k \in Nat : x = <<"wire", w, k>> /\ f[x] = <<"wire", w, k + 1>>
                      \/ f[x] = x /\ \A k : x # <<"wire", w, k>>
  <2> HIDE DEF rest
  <2> SUFFICES ASSUME NEW x \in T
               PROVE  /\ f[x] \in rest
                      /\ \/ \E k \in Nat : x = <<"wire", w, k>> /\ f[x] = <<"wire", w, k + 1>>
                         \/ f[x] = x /\ \A k : x # <<"wire", w, k>>
    OBVIOUS
  <2>1. CASE \A k : x # <<"wire", w, k>>
    BY <1>6, <1>7, <2>1
  <2>2. ASSUME NEW k \in WireClaims(w, m)', x = <<"wire", w, k>>
        PROVE  f[x] = <<"wire", w, k + 1>> /\ f[x] \in rest /\ k \in Nat
    BY <1>2, <1>3, <1>7, <2>2
  <2> QED
    BY <2>1, <2>2
<1>9. f \in Injection(T, rest)
  <2> HIDE DEF rest, moved
  <2>1. f \in [T -> rest]
    BY <1>7, <1>8
  <2>2. ASSUME NEW x \in T, NEW y \in T, f[x] = f[y]
        PROVE  x = y
    BY <1>8, <2>2
  <2> QED
    BY <2>1, <2>2 DEF Injection, IsInjective
<1>10. IsFiniteSet(T) /\ Cardinality(T) <= Cardinality(rest)
  BY <1>5, <1>9, FS_Injection
<1>11. Cardinality(T) \in Nat
  BY <1>10, FS_CardinalityType
<1> HIDE DEF first, rest, moved
<1> QED
  BY <1>5, <1>10, <1>11

LEMMA WireRead ==
  ASSUME TypeOK, NEW w \in Worker, NEW m \in Msg, Balanced(m),
         wire[w] # <<>>, wire'[w] = Tail(wire[w]),
         NEW Y, \A x \in Claims(m)' : \/ x \in Claims(m) \cup Y
                                      \/ \E k \in WireClaims(w, m)' : x = <<"wire", w, k>>
  PROVE  \E T : /\ Claims(m)' \subseteq T \cup Y
                /\ IsFiniteSet(T) /\ Cardinality(T) \in Nat
                /\ Cardinality(T) <= Cardinality(Claims(m))
                /\ Head(wire[w]).id = m => Cardinality(T) <= Cardinality(Claims(m)) - 1
<1> DEFINE stays(x) == \/ \E k \in WireClaims(w, m)' : x = <<"wire", w, k>>
                       \/ x \in Claims(m) /\ \A k : x # <<"wire", w, k>>
<1>1. PICK T : T = {x \in Claims(m)' : stays(x)}
  OBVIOUS
<1>2. \A x \in Claims(m)' : stays(x) \/ x \in Y
  <2> SUFFICES ASSUME NEW x \in Claims(m)', x \in Claims(m) PROVE stays(x)
    OBVIOUS
  <2>1. ASSUME NEW k, x = <<"wire", w, k>>
        PROVE  k \in WireClaims(w, m)'
    BY <2>1, EveryNextClaim DEF ClaimsAre, IsClaim
  <2> QED
    BY <2>1
<1>3. \A x \in T : stays(x)
  BY <1>1
<1>4. IsFiniteSet(Claims(m))
  BY DEF Balanced
<1>5. /\ IsFiniteSet(T) /\ Cardinality(T) \in Nat
      /\ Cardinality(T) <= Cardinality(Claims(m))
      /\ Head(wire[w]).id = m => Cardinality(T) <= Cardinality(Claims(m)) - 1
  BY <1>3, <1>4, WireShift
<1> HIDE DEF stays
<1>6. Claims(m)' \subseteq T \cup Y
  BY <1>1, <1>2
<1> QED
  BY <1>5, <1>6

\* The broker stores the first publish on the wire: its claim becomes the
\* copy's.  The handler goes on seeing to the copy it retries.
LEMMA TakenFree ==
  ASSUME TypeOK, Deliveries, [Next]_vars, NEW w \in Worker, BrokerTakes(w),
         NEW m \in Msg, Balanced(m)
  PROVE  Free(m)
<1> USE DEF brokerVars, handlerVars, procVars, history
<1>1. /\ StepOf(w) /\ TypeOK' /\ wire[w] # <<>> /\ wire'[w] = Tail(wire[w])
      /\ store' = Append(store, Head(wire[w]))
      /\ UNCHANGED <<acked, held, inbox, cur, pc, main, consUp, sends>>
  BY TypeStep DEF StepOf, BrokerTakes, TypeOK
<1>2. Head(wire[w]) \in Copy
  BY <1>1, HeadTailProperties DEF TypeOK
<1>3. PICK last \in Nat : /\ Copies' = Copies \cup {last}
                          /\ store'[last] = Head(wire[w])
                          /\ \A i \in Copies : store'[i] = store[i]
  <2>1. /\ Len(store) \in Nat /\ Len(store') = Len(store) + 1
        /\ store'[Len(store) + 1] = Head(wire[w])
        /\ \A i \in Copies : store'[i] = store[i]
    BY <1>1, <1>2, AppendProperties, LenProperties DEF TypeOK, Copies
  <2> QED
    BY <2>1 DEF Copies
<1>4. \A i : SeesTo(w, i) => SeesTo(w, i)'
  <2>1. conf'[w] = conf[w] \/ (conf[w] = "pending" /\ conf'[w] = "ack")
    BY DEF BrokerTakes, Answer, TypeOK
  <2> QED
    BY <1>1, <2>1 DEF SeesTo, Working
<1>5. w \in HandlerClaims(m)' => w \in HandlerClaims(m)
  <2>1. Working(w) => cur[w] \in Copies
    BY DEF TypeOK, Working, Handling, Steps
  <2> QED
    BY <1>1, <1>3, <2>1 DEF HandlerClaims, Handled, Working
<1>6. StaleClaims(w, m)' \subseteq StaleClaims(w, m)
  <2>1. Stale(w)' = Stale(w) /\ Stale(w) \subseteq Copies
    BY <1>1 DEF Stale, TypeOK
  <2> QED
    BY <1>3, <2>1 DEF StaleClaims
<1> DEFINE Y == IF Head(wire[w]).id = m THEN {<<"copy", last, last>>} ELSE {}
<1>7. ASSUME NEW x \in Claims(m)', x \notin Claims(m)
      PROVE  x \in Y \/ \E k \in WireClaims(w, m)' : x = <<"wire", w, k>>
  <2>1. acked \subseteq acked' /\ StepOf(w)
    BY <1>1
  <2>2. \/ \E i \in Copies' : x = <<"copy", i, i>> /\ store'[i].id = m /\ i \notin Copies
        \/ \E k \in WireClaims(w, m)' : x = <<"wire", w, k>>
    BY <1>4, <1>5, <1>6, <1>7, <2>1, ClaimsMade
  <2> QED
    BY <1>3, <2>2
<1>8. /\ IsFiniteSet(Y) /\ Cardinality(Y) \in Nat
      /\ Cardinality(Y) <= IF Head(wire[w]).id = m THEN 1 ELSE 0
  <2>1. CASE Head(wire[w]).id = m
    <3> DEFINE c == <<"copy", last, last>>
    <3>1. Y = {c}
      BY <2>1
    <3> HIDE DEF c, Y
    <3>2. IsFiniteSet(Y) /\ Cardinality(Y) = 1
      BY <3>1, FS_Singleton
    <3> QED
      BY <2>1, <3>2
  <2>2. CASE Head(wire[w]).id # m
    <3>1. Y = {}
      BY <2>2
    <3> HIDE DEF Y
    <3>2. IsFiniteSet(Y) /\ Cardinality(Y) = 0
      BY <3>1, FS_EmptySet
    <3> QED
      BY <2>2, <3>2
  <2> QED
    BY <2>1, <2>2
<1> HIDE DEF Y
<1>9. PICK T : /\ Claims(m)' \subseteq T \cup Y
               /\ IsFiniteSet(T) /\ Cardinality(T) \in Nat
               /\ Cardinality(T) <= Cardinality(Claims(m))
               /\ Head(wire[w]).id = m => Cardinality(T) <= Cardinality(Claims(m)) - 1
  BY <1>1, <1>7, WireRead
<1>10. /\ IsFiniteSet(Claims(m)')
       /\ Cardinality(Claims(m)') <= Cardinality(T) + Cardinality(Y)
  BY <1>8, <1>9, UnionBound
<1>11. /\ Cardinality(Claims(m)) \in Nat /\ Cardinality(Claims(m)') \in Nat
  BY <1>10, FS_CardinalityType DEF Balanced
<1>12. Cardinality(Claims(m)') <= Cardinality(Claims(m))
  BY <1>8, <1>9, <1>10, <1>11
<1> QED
  BY <1>1, <1>10, <1>12, CountKept

\* A publish that the broker refuses is gone; the handler requeues its copy.
LEMMA RefusedCosts ==
  ASSUME TypeOK, Deliveries, [Next]_vars, NEW w \in Worker, BrokerRefuses(w),
         NEW m \in Msg, Balanced(m)
  PROVE  Free(m) \/ Costs(w, m)
<1> USE DEF brokerVars, handlerVars, procVars, history
<1>1. /\ StepOf(w) /\ TypeOK' /\ wire[w] # <<>> /\ wire'[w] = Tail(wire[w])
      /\ UNCHANGED <<store, acked, held, inbox, cur, pc, main, consUp, sends>>
      /\ faults' = faults + 1
  BY TypeStep DEF StepOf, BrokerRefuses, Fault, TypeOK
<1>2. /\ w \in HandlerClaims(m)' => w \in HandlerClaims(m)
      /\ StaleClaims(w, m)' = StaleClaims(w, m)
      /\ \A i : SeesTo(w, i) => i = cur[w]
  BY <1>1 DEF HandlerClaims, Handled, Working, StaleClaims, Stale, SeesTo
<1> DEFINE Y == {<<"copy", cur[w], cur[w]>>}
<1>3. ASSUME NEW x \in Claims(m)', x \notin Claims(m)
      PROVE  x \in Y \/ \E k \in WireClaims(w, m)' : x = <<"wire", w, k>>
  BY <1>1, <1>2, <1>3, NewClaims
<1>4. IsFiniteSet(Y) /\ Cardinality(Y) = 1
  BY FS_Singleton
<1> HIDE DEF Y
<1>5. PICK T : /\ Claims(m)' \subseteq T \cup Y
               /\ IsFiniteSet(T) /\ Cardinality(T) \in Nat
               /\ Cardinality(T) <= Cardinality(Claims(m))
  BY <1>1, <1>3, WireRead
<1>6. /\ IsFiniteSet(Claims(m)')
      /\ Cardinality(Claims(m)') <= Cardinality(T) + Cardinality(Y)
  BY <1>4, <1>5, UnionBound
<1>7. /\ Cardinality(Claims(m)) \in Nat /\ Cardinality(Claims(m)') \in Nat
      /\ sends[m] \in Nat /\ sends'[m] = sends[m]
  BY <1>1, <1>6, FS_CardinalityType DEF Balanced, TypeOK
<1>8. CASE HasInHand(w, m)
  <2>1. MostStale \in 1 .. 3
    BY Allowance
  <2>2. Cardinality(Claims(m)') <= Cardinality(Claims(m)) + MostStale
    BY <1>4, <1>5, <1>6, <1>7, <2>1
  <2>3. Load(m)' <= Load(m) + MostStale
    BY <1>7, <2>1, <2>2 DEF Load
  <2> QED
    BY <1>1, <1>6, <1>7, <1>8, <2>3 DEF Costs
<1>9. CASE ~HasInHand(w, m)
  <2>1. \A i \in Copies : store[i].id = m => ~SeesTo(w, i)
    BY <1>9, SeenInHand
  <2>2. ASSUME NEW x \in Claims(m)', x \notin Claims(m)
        PROVE  \E k \in WireClaims(w, m)' : x = <<"wire", w, k>>
    BY <1>1, <1>2, <2>1, <2>2, NewClaims
  <2>3. PICK S : /\ Claims(m)' \subseteq S \cup {}
                 /\ IsFiniteSet(S) /\ Cardinality(S) \in Nat
                 /\ Cardinality(S) <= Cardinality(Claims(m))
    BY <1>1, <2>2, WireRead
  <2>4. IsFiniteSet(Claims(m)') /\ Cardinality(Claims(m)') <= Cardinality(Claims(m))
    BY <1>7, <2>3, FS_Subset
  <2> QED
    BY <1>1, <2>4, CountKept
<1> QED
  BY <1>8, <1>9

\* A notification the broker has no copy of has no claims.
LEMMA NoClaimsUnknown ==
  ASSUME TypeOK, OnlyDeliverable, NEW m \in Msg, ~Known(m)
  PROVE  Claims(m) = {}
<1>1. CopyClaims(m) = {}
  BY DEF CopyClaims, InDead, InLane, PendingOf, Pending, Known
<1>2. HandlerClaims(m) = {}
  BY DEF HandlerClaims, Working, Handled, Known, TypeOK, Handling, Steps
<1>3. \A w \in Worker : StaleClaims(w, m) = {}
  BY DEF StaleClaims, Stale, Known, TypeOK
<1>4. ASSUME NEW w \in Worker, NEW k \in WireClaims(w, m)
      PROVE  FALSE
  <2>1. k \in 1 .. Len(wire[w]) /\ wire[w][k].id = m
    BY <1>4, LenProperties DEF WireClaims, TypeOK
  <2> QED
    BY <2>1 DEF OnlyDeliverable
<1>5. \A x : ~IsClaim(m, x)
  BY <1>1, <1>2, <1>3, <1>4 DEF IsClaim
<1> QED
  BY <1>5, EveryClaim DEF ClaimsAre

\* The API's publish brings a notification's first claim, and touches no other.
LEMMA EnqueueBalance ==
  ASSUME TypeOK, OnlyDeliverable, [Next]_vars, NEW n \in Msg, Enqueue(n),
         NEW m \in Msg, Balanced(m)
  PROVE  Balanced(m)' /\ (n # m => Free(m))
<1> USE DEF handlerVars, procVars, pubVars, history
<1>1. /\ TypeOK' /\ ~Known(n) /\ store' = Append(store, FreshCopy(n))
      /\ UNCHANGED <<acked, held, inbox, cur, pc, main, consUp, wire, conf, sends, faults>>
  BY TypeStep DEF Enqueue, Known
<1>2. FreshCopy(n).id = n
  BY DEF FreshCopy
<1>3. PICK last \in Nat : Copies' = Copies \cup {last} /\ store'[last] = FreshCopy(n)
  <2>1. FreshCopy(n) \in Copy
    BY LaneAssumption DEF FreshCopy, Copy
  <2>2. /\ Len(store) \in Nat /\ Len(store') = Len(store) + 1
        /\ store'[Len(store) + 1] = FreshCopy(n)
    BY <1>1, <2>1, AppendProperties, LenProperties DEF TypeOK
  <2> QED
    BY <2>2 DEF Copies
<1>4. ASSUME NEW v \in Worker
      PROVE  /\ v \in HandlerClaims(m)' => v \in HandlerClaims(m)
             /\ StaleClaims(v, m)' \subseteq StaleClaims(v, m)
             /\ WireClaims(v, m)' \subseteq WireClaims(v, m)
             /\ \A i : SeesTo(v, i) => SeesTo(v, i)'
  BY <1>1, <1>4, OthersClaims
<1>5. ASSUME NEW x \in Claims(m)', x \notin Claims(m)
      PROVE  n = m /\ x = <<"copy", last, last>>
  <2>1. acked \subseteq acked' /\ \E u \in Msg : Enqueue(u)
    BY <1>1
  <2>2. PICK w : w = w
    OBVIOUS
  <2>3. ASSUME NEW i \in Copies, SeesTo(w, i), ~SeesTo(w, i)' PROVE FALSE
    <3>1. SeesTo(w, i)' <=> SeesTo(w, i)
      BY <1>1 DEF SeesTo, Working
    <3> QED
      BY <2>3, <3>1
  <2>4. HandlerClaims(m)' \subseteq Worker
    BY DEF HandlerClaims
  <2>5. \E i \in Copies' : x = <<"copy", i, i>> /\ store'[i].id = m /\ i \notin Copies
    BY <1>4, <1>5, <2>1, <2>3, <2>4, ClaimsMade
  <2> QED
    BY <1>2, <1>3, <2>5
<1>6. CASE n # m
  <2>1. Free(m)
    BY <1>1, <1>5, <1>6, NothingAdded
  <2> QED
    BY <1>1, <1>6, <2>1, BalanceStep
<1>7. CASE n = m
  <2>1. Claims(m) = {} /\ sends[m] \in Nat /\ ~(sends[m] > 0)
    BY <1>1, <1>7, NoClaimsUnknown DEF Balanced, TypeOK
  <2> DEFINE y == <<"copy", last, last>>
  <2>2. Claims(m)' \subseteq {y}
    BY <1>5, <2>1
  <2> HIDE DEF y
  <2>3. IsFiniteSet({y}) /\ Cardinality({y}) = 1
    BY FS_Singleton
  <2>4. IsFiniteSet(Claims(m)') /\ Cardinality(Claims(m)') <= 1
    BY <2>2, <2>3, FS_Subset
  <2>5. MostStale' = MostStale /\ MostStale * faults \in Nat
    BY Allowance DEF MostStale
  <2>6. sends'[m] = 0 /\ Cardinality(Claims(m)') \in Nat
    BY <1>1, <2>1, <2>4, FS_CardinalityType
  <2>7. sends'[m] + Cardinality(Claims(m)') <= 1 + MostStale * faults
    <3> HIDE DEF MostStale
    <3> DEFINE p == MostStale * faults
    <3>1. p \in Nat
      BY <2>5
    <3> HIDE DEF p
    <3>2. sends'[m] + Cardinality(Claims(m)') <= 1 + p
      BY <2>4, <2>6, <3>1
    <3> QED
      BY <3>2 DEF p
  <2> QED
    BY <1>1, <1>7, <2>4, <2>5, <2>6, <2>7 DEF Balanced
<1> QED
  BY <1>6, <1>7

(***************************************************************************)
(* The inductive invariant and the bound                                   *)
(***************************************************************************)
LEMMA WorkerCosts ==
  ASSUME TypeOK, Deliveries, [Next]_vars, NEW w \in Worker, StepOf(w), NEW m \in Msg, Balanced(m)
  PROVE  Free(m) \/ Costs(w, m)
<1>1. CASE Start(w) \/ Deliver(w) \/ RunDrained(w) \/ Shutdown(w)
  BY <1>1, StopFree DEF Shutdown
<1>2. CASE BrokerTakes(w) \/ BrokerRefuses(w)
  BY <1>2, TakenFree, RefusedCosts
<1>3. CASE Take(w)
  BY <1>3, TakeCosts
<1>4. CASE SendOk(w) \/ SendAmbiguous(w) \/ Retry(w) \/ DeadLetter(w)
  BY <1>4, SendCosts, PublishFree
<1>5. CASE Signal(w) \/ Crash(w) \/ LosePublisherConn(w) \/ LoseConsumerConn(w)
  BY <1>5, FaultCosts, LoseConsumerCosts
<1>6. CASE ConfirmAbandoned(w)
  BY <1>6, QuietFree, FaultCosts
<1>7. CASE \/ Drop(w) \/ PassLimiter(w) \/ LimiterCancelled(w) \/ SendFails(w)
           \/ Confirmed(w) \/ ConfirmNacked(w) \/ Ack(w) \/ Nack(w) \/ RunReturns(w)
  BY <1>7, QuietFree
<1> QED
  BY <1>1, <1>2, <1>3, <1>4, <1>5, <1>6, <1>7 DEF StepOf, Run, Handle, Fail

LEMMA StutterBalance ==
  ASSUME UNCHANGED vars, NEW m \in Msg, Balanced(m)
  PROVE  Balanced(m)'
<1> USE DEF vars, brokerVars, handlerVars, procVars, pubVars, history
<1>1. /\ TaggedCopies(m)' = TaggedCopies(m)
      /\ TaggedHandlers(m)' = TaggedHandlers(m)
  BY DEF TaggedCopies, TaggedHandlers, CopyClaims, HandlerClaims, InDead, InLane, PendingOf,
         Pending, Copies, SeesTo, Working, Handled
<1>2. /\ TaggedStale(m)' = TaggedStale(m)
      /\ TaggedWire(m)' = TaggedWire(m)
  BY DEF TaggedStale, TaggedWire, StaleClaims, WireClaims, Stale, Tagged
<1>3. Claims(m)' = Claims(m)
  BY <1>1, <1>2 DEF Claims
<1>4. Known(m)' = Known(m) /\ MostStale' = MostStale /\ UNCHANGED <<sends, faults>>
  BY DEF Known, Copies, MostStale
<1> QED
  BY <1>3, <1>4 DEF Balanced

LEMMA AccountedStep ==
  ASSUME Inductive, Accounted, [Next]_vars
  PROVE  Accounted'
<1>1. TypeOK /\ OnlyDeliverable /\ Deliveries
  BY DEF Inductive, Accounted
<1>2. ASSUME NEW m \in Msg PROVE Balanced(m)'
  <2>1. Balanced(m)
    BY DEF Accounted
  <2>2. CASE \E n \in Msg : Enqueue(n)
    BY <1>1, <2>1, <2>2, EnqueueBalance
  <2>3. CASE \E w \in Worker : StepOf(w)
    BY <1>1, <2>1, <2>3, TypeStep, WorkerCosts, BalanceStep
  <2>4. CASE UNCHANGED vars
    BY <2>1, <2>4, StutterBalance
  <2> QED
    BY <2>2, <2>3, <2>4 DEF Next, StepOf
<1> QED
  BY <1>1, <1>2, DeliveriesStep DEF Accounted

LEMMA AccountedInit ==
  ASSUME Init
  PROVE  Accounted
<1>1. TypeOK /\ OnlyDeliverable
  BY EmptySeq DEF Init, TypeOK, OnlyDeliverable, Copies, Handling, Steps
<1>2. ASSUME NEW m \in Msg PROVE Balanced(m)
  <2>1. ~Known(m) /\ sends[m] = 0
    BY EmptySeq DEF Init, Known, Copies
  <2>2. Claims(m) = {}
    BY <1>1, <2>1, NoClaimsUnknown
  <2>3. IsFiniteSet(Claims(m)) /\ Cardinality(Claims(m)) = 0
    BY <2>2, FS_EmptySet
  <2>4. MostStale * faults \in Nat
    BY <1>1, Allowance
  <2> DEFINE p == MostStale * faults
  <2> HIDE DEF p
  <2>5. sends[m] + Cardinality(Claims(m)) <= 1 + p
    BY <2>1, <2>3, <2>4 DEF p
  <2> QED
    BY <2>1, <2>3, <2>5 DEF Balanced, p
<1> QED
  BY <1>2, DeliveriesInit DEF Accounted

\* Every dead letter is a claim.
LEMMA AccountedBounds ==
  ASSUME TypeOK, Accounted
  PROVE  DuplicatesBounded
<1> SUFFICES ASSUME NEW m \in Msg
             PROVE  sends[m] + Cardinality(InDead(m)) <= 1 + MostStale * faults
  BY DEF DuplicatesBounded
<1>1. Balanced(m)
  BY DEF Accounted
<1>2. IsFiniteSet(InDead(m)) /\ Cardinality(InDead(m)) \in Nat
  BY CopiesFinite DEF InDead
<1> DEFINE f == [i \in InDead(m) |-> <<"copy", i, i>>]
<1>3. f \in Injection(InDead(m), Claims(m))
  <2>1. ASSUME NEW i \in InDead(m) PROVE <<"copy", i, i>> \in Claims(m)
    <3>1. i \in CopyClaims(m)
      BY DEF CopyClaims
    <3> QED
      BY <3>1 DEF Claims, TaggedCopies
  <2>2. \A i, j \in InDead(m) : <<"copy", i, i>> = <<"copy", j, j>> => i = j
    OBVIOUS
  <2> QED
    BY <2>1, <2>2 DEF Injection, IsInjective
<1>4. Cardinality(InDead(m)) <= Cardinality(Claims(m))
  BY <1>1, <1>3, FS_Injection DEF Balanced, ExistsInjection
<1>5. /\ sends[m] \in Nat /\ Cardinality(Claims(m)) \in Nat
      /\ MostStale * faults \in Nat
  BY <1>1, FS_CardinalityType, Allowance DEF Balanced, TypeOK
<1> DEFINE p == MostStale * faults
<1>6. sends[m] + Cardinality(Claims(m)) <= 1 + p /\ p \in Nat
  BY <1>1, <1>5 DEF Balanced
<1> HIDE DEF p
<1>7. sends[m] + Cardinality(InDead(m)) <= 1 + p
  BY <1>2, <1>4, <1>5, <1>6
<1> QED
  BY <1>7 DEF p

\* No copy is delivered to two workers or twice to one, and what has been
\* delivered, dead-lettered, or may yet be, is paid for by the failures so far
\* (consumer.go:74-119, rabbitmq/consumer.go:38-44).
THEOREM ClaimsAccounted == Spec => []Accounted
<1>1. Init => Accounted
  BY AccountedInit
<1>2. Inductive /\ Accounted /\ [Next]_vars => Accounted'
  BY AccountedStep
<1> QED
  BY <1>1, <1>2, InductiveInvariant, PTL DEF Spec

\* Whatever crashes, closes or times out, a notification is delivered and
\* dead-lettered once, and at most MostStale times more for each failure,
\* signal or late pick there was (consumer.go:100-108, rabbitmq/consumer.go:38-44).
THEOREM FailuresBoundDuplicates == Spec => []DuplicatesBounded
<1>1. Inductive /\ Accounted => DuplicatesBounded
  BY AccountedBounds DEF Inductive
<1> QED
  BY <1>1, ClaimsAccounted, InductiveInvariant, PTL

\* A step that costs a notification further deliveries is a failure, at most
\* MostStale of them, of the worker that has the notification in hand.
LEMMA LocalStep ==
  ASSUME Inductive, Accounted, [Next]_vars
  PROVE  [\A m \in Msg : Known(m) /\ Load(m)' > Load(m) =>
            /\ Load(m)' <= Load(m) + MostStale
            /\ \E w \in Worker : faults' > faults /\ StepOf(w) /\ HasInHand(w, m)]_vars
<1> SUFFICES ASSUME ~UNCHANGED vars, NEW m \in Msg, Known(m), Load(m)' > Load(m)
             PROVE  /\ Load(m)' <= Load(m) + MostStale
                    /\ \E w \in Worker : faults' > faults /\ StepOf(w) /\ HasInHand(w, m)
  OBVIOUS
<1>1. TypeOK /\ TypeOK' /\ OnlyDeliverable /\ Deliveries /\ Balanced(m) /\ faults \in Nat
  BY TypeStep DEF Inductive, Accounted, TypeOK
<1>2. ~Free(m)
  <2>1. Load(m) \in Nat /\ (IsFiniteSet(Claims(m)') => Load(m)' \in Nat)
    BY <1>1, FS_CardinalityType DEF Load, Balanced, TypeOK
  <2> QED
    BY <2>1 DEF Free
<1>3. ASSUME NEW n \in Msg, Enqueue(n) PROVE FALSE
  <2>1. n # m
    BY <1>3 DEF Enqueue, Known
  <2> QED
    BY <1>1, <1>2, <1>3, <2>1, EnqueueBalance
<1>4. PICK w \in Worker : StepOf(w)
  BY <1>3 DEF Next
<1>5. Costs(w, m)
  BY <1>1, <1>2, <1>4, WorkerCosts
<1> QED
  BY <1>1, <1>4, <1>5 DEF Costs

\* A crash, a lost connection, a signal, an ambiguous send or a late confirm
\* costs further deliveries, MostStale at most, only of notifications that its
\* worker has in hand: all others keep what they had coming, whatever fails
\* elsewhere (consumer.go:74-119, rabbitmq/consumer.go:38-44).
THEOREM FailuresCostOnlyWhatIsInHand == Spec => FailuresStayLocal
BY LocalStep, ClaimsAccounted, InductiveInvariant, PTL DEF Spec, FailuresStayLocal

=============================================================================
