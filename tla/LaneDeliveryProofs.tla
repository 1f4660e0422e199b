------------------------- MODULE LaneDeliveryProofs -------------------------
(***************************************************************************)
(* Proofs about LaneDelivery, for every set of notifications, lanes and    *)
(* workers, every retry limit and prefetch, and any number of failures.    *)
(***************************************************************************)
EXTENDS LaneDelivery, SequenceTheorems, TLAPS

USE LaneAssumption, LimitAssumption

\* Storing one more copy keeps the type of what refers to positions.
LEMMA StoreTypeStep ==
  ASSUME TypeOK, NEW c \in Copy, store' = Append(store, c),
         UNCHANGED <<acked, held, inbox, cur, pc>>
  PROVE  /\ store' \in Seq(Copy)
         /\ acked' \subseteq Copies'
         /\ held' \in [Worker -> SUBSET Copies']
         /\ inbox' \in [Worker -> Seq(Copies')]
         /\ cur' \in [Worker -> Nat]
         /\ \A w \in Worker : Handling(w)' => cur'[w] \in Copies'
<1>1. /\ store' \in Seq(Copy)
      /\ Len(store') = Len(store) + 1
      /\ Len(store) \in Nat
  BY AppendProperties DEF TypeOK
<1>2. Copies \subseteq Copies'
  BY <1>1 DEF Copies
<1>3. Seq(Copies) \subseteq Seq(Copies')
  BY <1>2, SeqMonotonic
<1> QED
  BY <1>1, <1>2, <1>3 DEF TypeOK, Handling

(***************************************************************************)
(* Type correctness                                                        *)
(***************************************************************************)
LEMMA EnqueueType ==
  ASSUME TypeOK, NEW m \in Msg, Enqueue(m)
  PROVE  TypeOK'
<1>1. FreshCopy(m) \in Copy
  BY DEF FreshCopy, Copy
<1> QED
  BY <1>1, StoreTypeStep DEF TypeOK, Enqueue, procVars, pubVars, history, handlerVars

LEMMA BrokerTakesType ==
  ASSUME TypeOK, NEW w \in Worker, BrokerTakes(w)
  PROVE  TypeOK'
<1>1. Head(wire[w]) \in Copy /\ Tail(wire[w]) \in Seq(Copy)
  BY HeadTailProperties DEF TypeOK, BrokerTakes
<1> QED
  BY <1>1, StoreTypeStep DEF TypeOK, BrokerTakes, Answer, procVars, history, handlerVars

LEMMA BrokerRefusesType ==
  ASSUME TypeOK, NEW w \in Worker, BrokerRefuses(w)
  PROVE  TypeOK'
<1>1. Tail(wire[w]) \in Seq(Copy)
  BY HeadTailProperties DEF TypeOK, BrokerRefuses
<1> QED
  BY <1>1 DEF TypeOK, BrokerRefuses, Answer, Fault, Copies, Handling, procVars, history,
              brokerVars, handlerVars

LEMMA DeliverType ==
  ASSUME TypeOK, NEW w \in Worker, Deliver(w)
  PROVE  TypeOK'
<1>1. PICK i \in Copies :
        /\ held'  = [held EXCEPT ![w] = @ \cup {i}]
        /\ inbox' = [inbox EXCEPT ![w] = Append(@, i)]
  BY DEF Deliver
<1>2. Append(inbox[w], i) \in Seq(Copies)
  BY AppendProperties DEF TypeOK
<1> QED
  BY <1>1, <1>2 DEF TypeOK, Deliver, Copies, Handling, procVars, pubVars, history

LEMMA TakeType ==
  ASSUME TypeOK, NEW w \in Worker, Take(w)
  PROVE  TypeOK'
<1>1. Head(inbox[w]) \in Copies /\ Tail(inbox[w]) \in Seq(Copies)
  BY HeadTailProperties DEF TypeOK, Take
<1>2. Head(inbox[w]) \in Nat
  BY <1>1 DEF Copies
<1>3. faults' \in Nat
  BY DEF TypeOK, Take, Fault
<1> QED
  BY <1>1, <1>2, <1>3
     DEF TypeOK, Take, Move, Steps, Copies, Handling, procVars, pubVars, history, brokerVars

\* The message in hand is one that the broker accepted.
LEMMA HandledType ==
  ASSUME TypeOK, NEW w \in Worker, Handling(w)
  PROVE  cur[w] \in Copies /\ Handled(w) \in Copy /\ Handled(w).id \in Msg
<1>1. cur[w] \in 1 .. Len(store) /\ store \in Seq(Copy)
  BY DEF TypeOK, Copies
<1>2. store[cur[w]] \in Copy
  BY <1>1, ElementOfSeq
<1> QED
  BY <1>1, <1>2 DEF Copies, Copy, Handled

\* Processing moves the program counter and the history.
LEMMA ProcessType ==
  ASSUME TypeOK, NEW w \in Worker,
         \/ Drop(w) \/ PassLimiter(w) \/ LimiterCancelled(w)
         \/ SendOk(w) \/ SendFails(w) \/ SendAmbiguous(w)
  PROVE  TypeOK'
<1>1. pc[w] \in {"process", "send"}
  BY DEF Drop, PassLimiter, LimiterCancelled, SendOk, SendFails, SendAmbiguous, Move
<1>2. Handling(w) /\ Handled(w).id \in Msg
  BY <1>1, HandledType DEF TypeOK, Handling, Steps
<1>3. /\ pc' \in [Worker -> Steps]
      /\ \A v \in Worker : Handling(v)' => Handling(v)
  BY <1>2 DEF TypeOK, Drop, PassLimiter, LimiterCancelled, SendOk, SendFails, SendAmbiguous,
              Move, Steps, Handling
<1>4. /\ sends' \in [Msg -> Nat]
      /\ tries' \in [Msg -> Nat]
      /\ cuts' \in [Msg -> Nat]
      /\ dropped' \subseteq Msg
      /\ faults' \in Nat
  <2>1. CASE Drop(w)
    BY <2>1, <1>2 DEF TypeOK, Drop
  <2>2. CASE PassLimiter(w)
    BY <2>2 DEF TypeOK, PassLimiter, history
  <2>3. CASE LimiterCancelled(w)
    BY <2>3, <1>2 DEF TypeOK, LimiterCancelled
  <2>4. ASSUME CountTry(Handled(w).id) PROVE tries' \in [Msg -> Nat]
    BY <2>4, <1>2 DEF TypeOK, CountTry
  <2>5. CASE SendOk(w)
    BY <2>4, <2>5, <1>2 DEF TypeOK, SendOk
  <2>6. CASE SendFails(w)
    BY <2>4, <2>6, <1>2 DEF TypeOK, SendFails
  <2>7. CASE SendAmbiguous(w)
    BY <2>4, <2>7, <1>2 DEF TypeOK, SendAmbiguous, Fault
  <2> QED
    BY <2>1, <2>2, <2>3, <2>5, <2>6, <2>7
<1>5. UNCHANGED <<brokerVars, inbox, cur, procVars, pubVars>>
  BY DEF Drop, PassLimiter, LimiterCancelled, SendOk, SendFails, SendAmbiguous
<1> QED
  BY <1>3, <1>4, <1>5 DEF TypeOK, Copies, brokerVars, procVars, pubVars

LEMMA PublishType ==
  ASSUME TypeOK, NEW w \in Worker, Retry(w) \/ DeadLetter(w)
  PROVE  TypeOK'
<1>1. cur[w] \in Copies /\ Handled(w) \in Copy
  BY HandledType DEF Retry, DeadLetter, Handling, Steps
<1>2. PICK c \in Copy : Publish(w, c) /\ pc[w] = "failed"
  <2>1. RetryCopy(Handled(w)) \in Copy /\ DeadCopy(Handled(w)) \in Copy
    BY <1>1 DEF RetryCopy, DeadCopy, Copy
  <2> QED
    BY <2>1 DEF Retry, DeadLetter
<1>w. wire[w] \in Seq(Copy)
  BY DEF TypeOK
<1>3. Append(wire[w], c) \in Seq(Copy)
  BY <1>w, AppendProperties
<1>4. /\ wire' \in [Worker -> Seq(Copy)]
      /\ conf' \in [Worker -> {"none", "pending", "ack", "nack"}]
  <2>1. /\ wire' = wire \/ wire' = [wire EXCEPT ![w] = Append(wire[w], c)]
        /\ conf' = conf \/ conf' = [conf EXCEPT ![w] = "pending"]
    BY <1>2 DEF Publish, pubVars
  <2>2. wire \in [Worker -> Seq(Copy)] /\ conf \in [Worker -> {"none", "pending", "ack", "nack"}]
    BY DEF TypeOK
  <2>3. wire' \in [Worker -> Seq(Copy)]
    BY <1>3, <2>1, <2>2
  <2>4. conf' \in [Worker -> {"none", "pending", "ack", "nack"}]
    BY <2>1, <2>2
  <2> QED
    BY <2>3, <2>4
<1>5. pc' \in [Worker -> Steps] /\ \A v \in Worker : Handling(v)' => Handling(v)
  BY <1>2 DEF TypeOK, Publish, Steps, Handling
<1>6. UNCHANGED <<brokerVars, inbox, cur, procVars, history, faults>>
  BY <1>2 DEF Publish
<1> QED
  BY <1>4, <1>5, <1>6 DEF TypeOK, Copies, brokerVars, procVars, history

LEMMA ConfirmType ==
  ASSUME TypeOK, NEW w \in Worker, Confirmed(w) \/ ConfirmNacked(w) \/ ConfirmAbandoned(w)
  PROVE  TypeOK'
<1>1. pc[w] = "confirm" /\ pc' \in [Worker -> Steps] /\ \A v \in Worker : Handling(v)' => Handling(v)
  BY DEF TypeOK, Confirmed, ConfirmNacked, ConfirmAbandoned, Move, Steps, Handling
<1>2. conf' = [conf EXCEPT ![w] = "none"] /\ faults' \in Nat
  BY DEF TypeOK, Confirmed, ConfirmNacked, ConfirmAbandoned, Fault
<1>3. UNCHANGED <<brokerVars, inbox, cur, procVars, wire, history>>
  BY DEF Confirmed, ConfirmNacked, ConfirmAbandoned
<1> QED
  BY <1>1, <1>2, <1>3 DEF TypeOK, Copies, brokerVars, procVars, history

LEMMA SettleType ==
  ASSUME TypeOK, NEW w \in Worker, Ack(w) \/ Nack(w)
  PROVE  TypeOK'
<1>1. PICK from \in {"settle", "nack"} : Settle(w, from)
  BY DEF Ack, Nack
<1>2. cur[w] \in Copies
  BY <1>1 DEF TypeOK, Settle, Move, Handling, Steps
<1>3. acked' \subseteq Copies
  BY <1>2 DEF TypeOK, Ack, Nack
<1> QED
  BY <1>1, <1>2, <1>3
     DEF TypeOK, Settle, Move, Steps, Copies, Handling, procVars, pubVars, history

LEMMA StopType ==
  ASSUME TypeOK, NEW w \in Worker,
         \/ Start(w) \/ RunReturns(w) \/ RunDrained(w) \/ Signal(w) \/ ClosePublisher(w)
         \/ LosePublisherConn(w)
  PROVE  TypeOK'
<1>1. <<>> \in Seq(Copy)
  BY EmptySeq
<1>2. CASE Start(w)
  BY <1>1, <1>2 DEF TypeOK, Start, Move, Steps, Copies, Handling, brokerVars, history
<1>3. CASE RunReturns(w)
  BY <1>3 DEF TypeOK, RunReturns, Move, Steps, Copies, Handling, brokerVars, procVars, pubVars,
              history
<1>4. CASE RunDrained(w)
  BY <1>4 DEF TypeOK, RunDrained, Move, Steps, Copies, Handling, brokerVars, pubVars, history
<1>5. CASE Signal(w)
  BY <1>5 DEF TypeOK, Signal, Fault, Copies, Handling, brokerVars, handlerVars, pubVars, history
<1>6. CASE ClosePublisher(w)
  BY <1>6 DEF TypeOK, ClosePublisher, DropPublisherConn, Copies, Handling, brokerVars,
              handlerVars, history
<1>7. CASE LosePublisherConn(w)
  BY <1>7 DEF TypeOK, LosePublisherConn, DropPublisherConn, Fault, Copies, Handling, brokerVars,
              handlerVars, history
<1> QED
  BY <1>2, <1>3, <1>4, <1>5, <1>6, <1>7

LEMMA LoseConsumerType ==
  ASSUME TypeOK, NEW w \in Worker, CloseConsumer(w) \/ LoseConsumerConn(w)
  PROVE  TypeOK'
<1>1. DropConsumerConn(w)
  BY DEF CloseConsumer, LoseConsumerConn
<1>2. PICK k \in {n \in 0 .. 2 : n <= Len(inbox[w])} :
        inbox' = [inbox EXCEPT ![w] = SubSeq(@, 1, k)]
  BY <1>1 DEF DropConsumerConn
<1>3. SubSeq(inbox[w], 1, k) \in Seq(Copies)
  BY SubSeqProperties DEF TypeOK
<1>4. CASE CloseConsumer(w)
  BY <1>1, <1>2, <1>3, <1>4
     DEF TypeOK, CloseConsumer, DropConsumerConn, Copies, Handling, pubVars, history
<1>5. CASE LoseConsumerConn(w)
  BY <1>1, <1>2, <1>3, <1>5
     DEF TypeOK, LoseConsumerConn, DropConsumerConn, Copies, Handling, Fault, pubVars, history
<1> QED
  BY <1>4, <1>5

LEMMA VanishType ==
  ASSUME TypeOK, NEW w \in Worker, Exit(w) \/ Crash(w)
  PROVE  TypeOK'
<1>1. Vanish(w) /\ faults' \in Nat
  BY DEF TypeOK, Exit, Crash, Fault
<1>2. <<>> \in Seq(Copies)
  BY EmptySeq
<1> QED
  BY <1>1, <1>2 DEF TypeOK, Vanish, Copies, Handling, Steps, history

LEMMA TypeStep ==
  ASSUME TypeOK, [Next]_vars
  PROVE  TypeOK'
<1>1. ASSUME NEW m \in Msg, Enqueue(m) PROVE TypeOK'
  BY <1>1, EnqueueType
<1>2. ASSUME NEW w \in Worker,
             Start(w) \/ Deliver(w) \/ BrokerTakes(w) \/ BrokerRefuses(w)
      PROVE  TypeOK'
  BY <1>2, StopType, DeliverType, BrokerTakesType, BrokerRefusesType
<1>3. ASSUME NEW w \in Worker, Run(w) PROVE TypeOK'
  BY <1>3, TakeType, ProcessType, PublishType, ConfirmType, SettleType, StopType
     DEF Run, Handle
<1>4. ASSUME NEW w \in Worker, Shutdown(w) \/ Fail(w) PROVE TypeOK'
  BY <1>4, StopType, LoseConsumerType, VanishType DEF Shutdown, Fail
<1>5. CASE UNCHANGED vars
  BY <1>5 DEF TypeOK, Copies, Handling, vars, brokerVars, handlerVars, procVars, pubVars,
              history
<1> QED
  BY <1>1, <1>2, <1>3, <1>4, <1>5 DEF Next, StepOf

\* TypeOK holds in every behaviour: in particular a worker only ever holds,
\* picks and handles copies that the broker accepted.
THEOREM TypeCorrect == Spec => []TypeOK
<1>1. Init => TypeOK
  BY EmptySeq DEF Init, TypeOK, Copies, Handling, Steps
<1>2. TypeOK /\ [Next]_vars => TypeOK'
  BY TypeStep
<1> QED
  BY <1>1, <1>2, PTL DEF Spec

(***************************************************************************)
(* What one step can change                                                *)
(***************************************************************************)
\* A step of one worker leaves the others alone.
LEMMA OthersAlone ==
  ASSUME TypeOK, NEW v \in Worker, NEW w \in Worker, v # w, StepOf(v)
  PROVE  UNCHANGED <<held[w], inbox[w], cur[w], pc[w], main[w], pubUp[w], consUp[w], wire[w],
                     conf[w]>>
<1> USE DEF TypeOK, brokerVars, handlerVars, procVars, pubVars
<1>1. CASE Start(v) \/ Deliver(v) \/ BrokerTakes(v) \/ BrokerRefuses(v)
  BY <1>1 DEF Start, Deliver, BrokerTakes, BrokerRefuses, Answer, Move
<1>2. CASE Handle(v)
  <2>1. CASE Drop(v) \/ PassLimiter(v) \/ LimiterCancelled(v)
               \/ SendOk(v) \/ SendFails(v) \/ SendAmbiguous(v)
    BY <2>1 DEF Drop, PassLimiter, LimiterCancelled, SendOk, SendFails, SendAmbiguous, Move
  <2>2. CASE Retry(v) \/ DeadLetter(v)
    BY <2>2 DEF Retry, DeadLetter, Publish
  <2>3. CASE Confirmed(v) \/ ConfirmNacked(v) \/ ConfirmAbandoned(v) \/ Ack(v) \/ Nack(v)
    BY <2>3 DEF Confirmed, ConfirmNacked, ConfirmAbandoned, Ack, Nack, Settle, Move
  <2> QED
    BY <1>2, <2>1, <2>2, <2>3 DEF Handle
<1>3. CASE Take(v) \/ RunReturns(v) \/ RunDrained(v)
  BY <1>3 DEF Take, RunReturns, RunDrained, Move
<1>4. CASE Shutdown(v) \/ Fail(v)
  BY <1>4 DEF Shutdown, Fail, ClosePublisher, CloseConsumer, Exit, Crash, Vanish,
              Signal, LosePublisherConn, LoseConsumerConn, DropPublisherConn, DropConsumerConn
<1> QED
  BY <1>1, <1>2, <1>3, <1>4 DEF StepOf, Run

LEMMA Frame ==
  ASSUME TypeOK, [Next]_vars, NEW w \in Worker
  PROVE  \/ StepOf(w)
         \/ UNCHANGED <<held[w], inbox[w], cur[w], pc[w], main[w], pubUp[w], consUp[w], wire[w],
                        conf[w]>>
<1>1. ASSUME NEW m \in Msg, Enqueue(m)
      PROVE  UNCHANGED <<held, handlerVars, procVars, pubVars>>
  BY <1>1 DEF Enqueue
<1>2. CASE UNCHANGED vars
  BY <1>2 DEF vars, brokerVars, handlerVars, procVars, pubVars
<1> QED
  BY <1>1, <1>2, OthersAlone DEF Next, StepOf, handlerVars, procVars, pubVars

\* The store only grows, at its end, by one copy at a time, and a step that
\* adds a copy acknowledges none.
LEMMA StoreStep ==
  ASSUME TypeOK, [Next]_vars
  PROVE  \/ UNCHANGED store
         \/ /\ UNCHANGED acked
            /\ \/ \E m \in Msg : store' = Append(store, FreshCopy(m))
               \/ \E w \in Worker : BrokerTakes(w)
<1>1. ASSUME NEW w \in Worker, StepOf(w) PROVE BrokerTakes(w) \/ UNCHANGED store
  <2>1. CASE Start(w) \/ Deliver(w) \/ BrokerRefuses(w)
    BY <2>1 DEF Start, Deliver, BrokerRefuses, brokerVars
  <2>2. CASE Run(w)
    BY <2>2 DEF Run, Handle, Take, Drop, PassLimiter, LimiterCancelled, SendOk, SendFails,
                SendAmbiguous, Retry, DeadLetter, Publish, Confirmed, ConfirmNacked,
                ConfirmAbandoned, Ack, Nack, Settle, RunReturns, RunDrained, brokerVars
  <2>3. CASE Shutdown(w) \/ Fail(w)
    BY <2>3 DEF Shutdown, Fail, ClosePublisher, CloseConsumer, Exit, Crash, Vanish, Signal,
                LosePublisherConn, LoseConsumerConn, brokerVars
  <2> QED
    BY <1>1, <2>1, <2>2, <2>3 DEF StepOf
<1>2. ASSUME NEW w \in Worker, BrokerTakes(w) PROVE UNCHANGED acked
  BY <1>2 DEF BrokerTakes
<1> QED
  BY <1>1, <1>2 DEF Next, StepOf, Enqueue, vars, brokerVars

LEMMA StoreGrows ==
  ASSUME TypeOK, [Next]_vars
  PROVE  /\ Copies \subseteq Copies'
         /\ \A i \in Copies : store'[i] = store[i]
<1>1. ASSUME NEW c \in Copy, store' = Append(store, c)
      PROVE  /\ Copies \subseteq Copies'
             /\ \A i \in Copies : store'[i] = store[i]
  BY <1>1, AppendProperties, LenProperties DEF TypeOK, Copies
<1>2. ASSUME NEW m \in Msg PROVE FreshCopy(m) \in Copy
  BY DEF FreshCopy, Copy
<1>3. ASSUME NEW w \in Worker, BrokerTakes(w)
      PROVE  Head(wire[w]) \in Copy /\ store' = Append(store, Head(wire[w]))
  BY <1>3, HeadTailProperties DEF TypeOK, BrokerTakes
<1> QED
  BY <1>1, <1>2, <1>3, StoreStep DEF Copies

\* Copies are acknowledged one at a time, by a handler about to settle.
LEMMA AckedStep ==
  ASSUME TypeOK, [Next]_vars, acked' # acked
  PROVE  \E w \in Worker : /\ pc[w] = "settle"
                           /\ acked' = acked \cup {cur[w]}
                           /\ UNCHANGED store
<1>1. ASSUME NEW w \in Worker, StepOf(w) PROVE Ack(w)
  <2>1. CASE Start(w) \/ Deliver(w) \/ BrokerTakes(w) \/ BrokerRefuses(w)
    BY <2>1 DEF Start, Deliver, BrokerTakes, BrokerRefuses, brokerVars
  <2>2. CASE Run(w)
    BY <2>2 DEF Run, Handle, Take, Drop, PassLimiter, LimiterCancelled, SendOk, SendFails,
                SendAmbiguous, Retry, DeadLetter, Publish, Confirmed, ConfirmNacked,
                ConfirmAbandoned, Nack, RunReturns, RunDrained, brokerVars
  <2>3. CASE Shutdown(w) \/ Fail(w)
    BY <2>3 DEF Shutdown, Fail, ClosePublisher, CloseConsumer, Exit, Crash, Vanish, Signal,
                LosePublisherConn, LoseConsumerConn, brokerVars
  <2> QED
    BY <1>1, <2>1, <2>2, <2>3 DEF StepOf
<1>2. \E w \in Worker : Ack(w)
  BY <1>1 DEF Next, StepOf, Enqueue, vars, brokerVars
<1> QED
  BY <1>2 DEF Ack, Settle, Move

\* The history never forgets.
LEMMA HistoryGrows ==
  ASSUME TypeOK, [Next]_vars, NEW m \in Msg
  PROVE  /\ sends'[m] >= sends[m]
         /\ tries'[m] >= tries[m]
         /\ cuts'[m] >= cuts[m]
         /\ dropped \subseteq dropped'
<1>1. ASSUME NEW w \in Worker, StepOf(w),
             ~(Drop(w) \/ LimiterCancelled(w) \/ SendOk(w) \/ SendFails(w) \/ SendAmbiguous(w))
      PROVE  UNCHANGED history
  <2>1. CASE Start(w) \/ Deliver(w) \/ BrokerTakes(w) \/ BrokerRefuses(w)
    BY <2>1 DEF Start, Deliver, BrokerTakes, BrokerRefuses
  <2>2. CASE Run(w)
    BY <1>1, <2>2 DEF Run, Handle, Take, PassLimiter, Retry, DeadLetter, Publish, Confirmed,
                ConfirmNacked, ConfirmAbandoned, Ack, Nack, Settle, RunReturns, RunDrained
  <2>3. CASE Shutdown(w) \/ Fail(w)
    BY <2>3 DEF Shutdown, Fail, ClosePublisher, CloseConsumer, Exit, Crash, Vanish, Signal,
                LosePublisherConn, LoseConsumerConn
  <2> QED
    BY <1>1, <2>1, <2>2, <2>3 DEF StepOf
<1>2. ASSUME UNCHANGED history
      PROVE  /\ sends'[m] >= sends[m]
             /\ tries'[m] >= tries[m]
             /\ cuts'[m] >= cuts[m]
             /\ dropped \subseteq dropped'
  BY <1>2 DEF TypeOK, history
<1>3. sends[m] \in Nat /\ tries[m] \in Nat /\ cuts[m] \in Nat
  BY DEF TypeOK
<1>4. ASSUME NEW h, NEW x, h \in [Msg -> Nat]
      PROVE  [h EXCEPT ![x] = @ + 1][m] >= h[m]
  BY <1>4
<1>5. ASSUME NEW x, CountTry(x) PROVE tries'[m] >= tries[m]
  BY <1>3, <1>5 DEF CountTry, TypeOK
<1>6. ASSUME NEW w \in Worker, Drop(w) \/ LimiterCancelled(w)
      PROVE  /\ sends'[m] >= sends[m]
             /\ tries'[m] >= tries[m]
             /\ cuts'[m] >= cuts[m]
             /\ dropped \subseteq dropped'
  <2>1. CASE Drop(w)
    BY <2>1, <1>3 DEF Drop
  <2>2. CASE LimiterCancelled(w)
    BY <2>2, <1>3, <1>4 DEF LimiterCancelled, TypeOK
  <2> QED
    BY <1>6, <2>1, <2>2
<1>7. ASSUME NEW w \in Worker, SendOk(w) \/ SendFails(w) \/ SendAmbiguous(w)
      PROVE  /\ sends'[m] >= sends[m]
             /\ tries'[m] >= tries[m]
             /\ cuts'[m] >= cuts[m]
             /\ dropped \subseteq dropped'
  <2>1. tries'[m] >= tries[m]
    BY <1>5, <1>7 DEF SendOk, SendFails, SendAmbiguous
  <2>2. cuts' = cuts /\ dropped' = dropped
    BY <1>7 DEF SendOk, SendFails, SendAmbiguous
  <2>3. sends' = sends \/ sends' = [sends EXCEPT ![Handled(w).id] = @ + 1]
    BY <1>7 DEF SendOk, SendFails, SendAmbiguous
  <2>4. sends'[m] >= sends[m]
    <3>1. sends \in [Msg -> Nat]
      BY DEF TypeOK
    <3>2. CASE sends' = sends
      BY <3>2, <1>3
    <3>3. CASE sends' = [sends EXCEPT ![Handled(w).id] = @ + 1]
      BY <3>1, <3>3, <1>4
    <3> QED
      BY <2>3, <3>2, <3>3
  <2> QED
    BY <2>1, <2>2, <2>4, <1>3
<1> QED
  BY <1>1, <1>2, <1>6, <1>7 DEF Next, StepOf, Enqueue, vars

LEMMA ResolvedStays ==
  ASSUME TypeOK, [Next]_vars, NEW m \in Msg, Resolved(m)
  PROVE  Resolved(m)'
<1>1. sends[m] \in Nat /\ sends'[m] \in Nat
  BY TypeStep DEF TypeOK
<1> QED
  BY <1>1, HistoryGrows DEF Resolved

LEMMA PaidStays ==
  ASSUME TypeOK, [Next]_vars, NEW c \in Copy, PaidFor(c)
  PROVE  PaidFor(c)'
<1>1. c.id \in Msg /\ c.retry \in Nat
  BY DEF Copy
<1>2. TypeOK'
  BY TypeStep
<1>3. /\ tries[c.id] \in Nat /\ tries'[c.id] \in Nat
      /\ cuts[c.id] \in Nat /\ cuts'[c.id] \in Nat
  BY <1>1, <1>2 DEF TypeOK
<1>4. tries'[c.id] >= tries[c.id] /\ cuts'[c.id] >= cuts[c.id]
  BY <1>1, HistoryGrows
<1> QED
  BY <1>1, <1>3, <1>4 DEF PaidFor

(***************************************************************************)
(* No notification is lost                                                 *)
(***************************************************************************)
\* A notification with a pending copy after position n keeps one, unless it
\* is resolved: whoever acknowledges the copy relies on a later one.
LEMMA SuccessorStays ==
  ASSUME Inductive, [Next]_vars, NEW m \in Msg, NEW n \in Nat,
         Resolved(m) \/ \E j \in PendingOf(m) : j > n
  PROVE  (Resolved(m) \/ \E j \in PendingOf(m) : j > n)'
<1>1. CASE Resolved(m)
  BY <1>1, ResolvedStays DEF Inductive
<1>2. ASSUME NEW j \in PendingOf(m), j > n
      PROVE  (Resolved(m) \/ \E k \in PendingOf(m) : k > n)'
  <2>1. j \in Copies' /\ store'[j].id = m /\ j \notin acked
    BY StoreGrows DEF Inductive, PendingOf, Pending
  <2>2. CASE j \notin acked'
    BY <1>2, <2>1, <2>2 DEF PendingOf, Pending
  <2>3. CASE j \in acked'
    <3>1. PICK w \in Worker : /\ pc[w] = "settle"
                              /\ acked' = acked \cup {cur[w]}
                              /\ UNCHANGED store
      BY <2>1, <2>3, AckedStep DEF Inductive
    <3>2. cur[w] = j /\ Handled(w).id = m
      BY <2>1, <2>3, <3>1 DEF Handled
    <3>3. CASE Resolved(m)
      BY <3>3, ResolvedStays DEF Inductive
    <3>4. CASE ~Resolved(m)
      <4>1. PICK k \in PendingOf(m) : k > j
        BY <3>1, <3>2, <3>4 DEF Inductive, SettleSafe, Superseded
      <4>2. k \in Nat /\ j \in Nat /\ k > n /\ k # j
        BY <4>1, <1>2 DEF PendingOf, Pending, Copies
      <4>3. k \in PendingOf(m)'
        BY <3>1, <3>2, <4>1, <4>2 DEF PendingOf, Pending, Copies
      <4> QED
        BY <4>2, <4>3
    <3> QED
      BY <3>3, <3>4
  <2> QED
    BY <2>2, <2>3
<1> QED
  BY <1>1, <1>2

LEMMA NeverLostStep ==
  ASSUME Inductive, [Next]_vars
  PROVE  NeverLost'
<1> SUFFICES ASSUME NEW i \in Copies'
             PROVE  (Resolved(store[i].id) \/ PendingOf(store[i].id) # {})'
  BY DEF NeverLost
<1>1. CASE i \in Copies
  <2>1. store[i].id \in Msg /\ store'[i] = store[i]
    <3>1. i \in 1 .. Len(store) /\ store \in Seq(Copy)
      BY <1>1 DEF Inductive, TypeOK, Copies
    <3>2. store[i] \in Copy
      BY <3>1, ElementOfSeq
    <3> QED
      BY <1>1, <3>2, StoreGrows DEF Inductive, Copy
  <2>2. Resolved(store[i].id) \/ \E j \in PendingOf(store[i].id) : j > 0
    BY <1>1 DEF Inductive, NeverLost, PendingOf, Pending, Copies
  <2> QED
    BY <2>1, <2>2, SuccessorStays
<1>2. CASE i \notin Copies
  <2>1. store' # store
    BY <1>2 DEF Copies
  <2>2. UNCHANGED acked
    BY <2>1, StoreStep DEF Inductive
  <2>3. i \in Pending'
    BY <1>2, <2>2 DEF Inductive, TypeOK, Pending
  <2> QED
    BY <2>3 DEF PendingOf
<1> QED
  BY <1>1, <1>2

LEMMA LastOfTail ==
  ASSUME NEW S, NEW s \in Seq(S), s # <<>>, Len(s) # 1
  PROVE  Tail(s) # <<>> /\ Tail(s)[Len(Tail(s))] = s[Len(s)]
<1>1. Len(s) \in Nat \ {0, 1}
  BY EmptySeq, LenProperties
<1>2. /\ Len(Tail(s)) = Len(s) - 1
      /\ \A i \in 1 .. Len(Tail(s)) : Tail(s)[i] = s[i + 1]
  BY HeadTailProperties
<1>3. Len(s) - 1 \in 1 .. Len(Tail(s)) /\ (Len(s) - 1) + 1 = Len(s)
  BY <1>1, <1>2
<1>4. Tail(s)[Len(s) - 1] = s[Len(s)]
  BY <1>2, <1>3
<1>5. Len(Tail(s)) # 0
  BY <1>1, <1>2
<1>6. Tail(s) # <<>>
  BY <1>5, EmptySeq
<1> QED
  BY <1>2, <1>4, <1>6

\* A confirm that answers the head of the wire answers the last publish only
\* when nothing else is on it.
LEMMA AnswerOwn ==
  ASSUME TypeOK, ConfirmOwn, NEW w \in Worker, NEW a \in {"ack", "nack"},
         wire[w] # <<>>, wire' = [wire EXCEPT ![w] = Tail(@)], Answer(w, a),
         conf'[w] = "pending"
  PROVE  /\ conf[w] = "pending"
         /\ wire'[w] # <<>>
         /\ wire'[w][Len(wire'[w])] = wire[w][Len(wire[w])]
<1>1. conf[w] = "pending" /\ Len(wire[w]) # 1
  BY DEF Answer, TypeOK
<1>2. wire[w] \in Seq(Copy) /\ wire'[w] = Tail(wire[w])
  BY DEF TypeOK
<1> QED
  BY <1>1, <1>2, LastOfTail

LEMMA ConfirmOwnStep ==
  ASSUME Inductive, [Next]_vars
  PROVE  ConfirmOwn'
<1> DEFINE Own(w) == /\ conf[w] # "none" => pc[w] = "confirm"
                     /\ conf[w] = "pending" =>
                          wire[w] # <<>> /\ wire[w][Len(wire[w])].id = Handled(w).id
<1> SUFFICES ASSUME NEW w \in Worker PROVE Own(w)'
  BY DEF ConfirmOwn
<1>1. TypeOK /\ Own(w) /\ TypeOK'
  BY TypeStep DEF Inductive, ConfirmOwn
<1>2. pc[w] = "confirm" => cur[w] \in Copies /\ store'[cur[w]] = store[cur[w]]
  BY <1>1, HandledType, StoreGrows DEF Handling, Steps
<1>3. CASE UNCHANGED <<pc[w], cur[w], conf[w], wire[w]>>
  BY <1>1, <1>2, <1>3 DEF Handled
<1>4. CASE conf'[w] = "none"
  BY <1>4
<1>5. CASE pc[w] # "confirm" /\ conf'[w] = conf[w]
  BY <1>1, <1>4, <1>5
<1>6. CASE BrokerTakes(w) \/ BrokerRefuses(w)
  <2>1. /\ wire[w] # <<>>
        /\ wire' = [wire EXCEPT ![w] = Tail(@)]
        /\ UNCHANGED <<cur, pc>>
    BY <1>6 DEF BrokerTakes, BrokerRefuses, handlerVars
  <2>2. PICK a \in {"ack", "nack"} : Answer(w, a)
    BY <1>6 DEF BrokerTakes, BrokerRefuses
  <2>3. conf'[w] # "none" => conf[w] # "none"
    BY <1>1, <2>2 DEF Answer, TypeOK
  <2>4. conf'[w] = "pending" =>
          wire'[w] # <<>> /\ wire'[w][Len(wire'[w])].id = Handled(w)'.id
    BY <1>1, <1>2, <2>1, <2>2, AnswerOwn DEF Inductive, Handled
  <2> QED
    BY <1>1, <2>1, <2>3, <2>4
<1>7. ASSUME NEW c \in Copy, c.id = Handled(w).id, Publish(w, c), pc[w] = "failed"
      PROVE  Own(w)'
  <2>1. CASE pubUp[w]
    <3>1. wire'[w] = Append(wire[w], c) /\ pc'[w] = "confirm" /\ UNCHANGED <<cur, store>>
      BY <1>1, <1>7, <2>1 DEF TypeOK, Publish, brokerVars
    <3>w. wire[w] \in Seq(Copy)
      BY <1>1 DEF TypeOK
    <3>2. /\ Len(Append(wire[w], c)) = Len(wire[w]) + 1
          /\ Append(wire[w], c)[Len(wire[w]) + 1] = c
          /\ Append(wire[w], c) # <<>>
      BY <3>w, AppendProperties
    <3> QED
      BY <1>7, <3>1, <3>2 DEF Handled
  <2>2. CASE ~pubUp[w]
    BY <1>5, <1>7, <2>2 DEF Publish, pubVars
  <2> QED
    BY <2>1, <2>2
<1>8. CASE ClosePublisher(w) \/ LosePublisherConn(w)
  <2>1. conf' = [conf EXCEPT ![w] = IF @ = "none" THEN "none" ELSE "nack"]
    BY <1>8 DEF ClosePublisher, LosePublisherConn, DropPublisherConn
  <2>2. UNCHANGED <<cur, pc>>
    BY <1>8 DEF ClosePublisher, LosePublisherConn, handlerVars
  <2>3. conf'[w] # "pending" /\ (conf'[w] # "none" => conf[w] # "none")
    BY <1>1, <2>1 DEF TypeOK
  <2> QED
    BY <1>1, <2>2, <2>3
<1>9. CASE StepOf(w)
  <2>1. CASE Start(w)
    BY <1>5, <2>1 DEF Start, Move
  <2>2. CASE Deliver(w)
    BY <1>3, <2>2 DEF Deliver, pubVars
  <2>3. CASE Take(w) \/ Drop(w) \/ PassLimiter(w) \/ LimiterCancelled(w)
               \/ SendOk(w) \/ SendFails(w) \/ SendAmbiguous(w) \/ RunReturns(w) \/ RunDrained(w)
    BY <1>5, <2>3 DEF Take, Drop, PassLimiter, LimiterCancelled, SendOk, SendFails,
                      SendAmbiguous, RunReturns, RunDrained, Move, pubVars
  <2>4. CASE Retry(w) \/ DeadLetter(w)
    <3>1. Handled(w) \in Copy
      BY <1>1, <2>4, HandledType DEF Retry, DeadLetter, Handling, Steps
    <3>2. /\ RetryCopy(Handled(w)) \in Copy /\ RetryCopy(Handled(w)).id = Handled(w).id
          /\ DeadCopy(Handled(w)) \in Copy /\ DeadCopy(Handled(w)).id = Handled(w).id
      BY <3>1 DEF RetryCopy, DeadCopy, Copy
    <3> QED
      BY <2>4, <3>2, <1>7 DEF Retry, DeadLetter
  <2>5. CASE Confirmed(w) \/ ConfirmNacked(w) \/ ConfirmAbandoned(w)
    BY <1>1, <1>4, <2>5 DEF Confirmed, ConfirmNacked, ConfirmAbandoned, TypeOK
  <2>6. CASE Ack(w) \/ Nack(w)
    BY <1>5, <2>6 DEF Ack, Nack, Settle, Move, pubVars
  <2>7. CASE CloseConsumer(w) \/ LoseConsumerConn(w) \/ Signal(w)
    BY <1>3, <2>7 DEF CloseConsumer, LoseConsumerConn, Signal, handlerVars, pubVars
  <2>8. CASE Exit(w) \/ Crash(w)
    BY <1>1, <1>4, <2>8 DEF Exit, Crash, Vanish, TypeOK
  <2> QED
    BY <1>6, <1>8, <1>9, <2>1, <2>2, <2>3, <2>4, <2>5, <2>6, <2>7, <2>8
       DEF StepOf, Run, Handle, Shutdown, Fail
<1> QED
  BY <1>1, <1>3, <1>9, Frame

\* The copy the broker takes while the handler waits for its confirm is a
\* later copy of the handler's notification.
LEMMA TakenIsSuccessor ==
  ASSUME Inductive, NEW w \in Worker, BrokerTakes(w),
         conf[w] = "pending", conf'[w] # "pending"
  PROVE  Superseded(w)'
<1>1. pc[w] = "confirm" /\ TypeOK /\ wire[w] \in Seq(Copy) /\ wire[w] # <<>>
  BY DEF Inductive, ConfirmOwn, TypeOK, BrokerTakes
<1>2. Len(wire[w]) = 1
  BY <1>1 DEF BrokerTakes, Answer, TypeOK
<1>3. Head(wire[w]) = wire[w][Len(wire[w])] /\ Head(wire[w]) \in Copy
  BY <1>1, <1>2, HeadTailProperties
<1>4. Head(wire[w]).id = Handled(w).id
  BY <1>3 DEF Inductive, ConfirmOwn
<1>5. cur[w] \in Copies /\ cur[w] \in Nat
  BY <1>1, HandledType DEF Handling, Steps, Copies
<1> DEFINE last == Len(store) + 1
<1>6. /\ store' = Append(store, Head(wire[w]))
      /\ UNCHANGED <<acked, cur>>
  BY DEF BrokerTakes, handlerVars
<1>7. /\ Len(store) \in Nat
      /\ Len(store') = last
      /\ store'[last] = Head(wire[w])
      /\ \A i \in 1 .. Len(store) : store'[i] = store[i]
  BY <1>1, <1>3, <1>6, AppendProperties, LenProperties DEF TypeOK
<1>8. Handled(w)' = Handled(w)
  BY <1>5, <1>6, <1>7 DEF Handled, Copies
<1>9. last \notin acked /\ last > cur[w]
  BY <1>1, <1>5, <1>7 DEF TypeOK, Copies
<1>10. last \in PendingOf(Handled(w).id)'
  BY <1>4, <1>6, <1>7, <1>8, <1>9 DEF PendingOf, Pending, Copies
<1> QED
  BY <1>6, <1>9, <1>10 DEF Superseded

Promised(w) == pc[w] = "settle" \/ (pc[w] = "confirm" /\ conf[w] = "ack")

\* A handler becomes ready to settle only with a resolved notification or a
\* later copy.
LEMMA NewPromise ==
  ASSUME Inductive, [Next]_vars, NEW w \in Worker, Promised(w)'
  PROVE  (Promised(w) /\ cur'[w] = cur[w]) \/ Superseded(w)'
<1>1. TypeOK
  BY DEF Inductive
<1>2. CASE UNCHANGED <<pc[w], cur[w], conf[w], wire[w]>>
  BY <1>2 DEF Promised
<1>3. CASE StepOf(w)
  <2>1. CASE Drop(w) \/ SendOk(w)
    <3>1. Handled(w).id \in Msg /\ sends[Handled(w).id] \in Nat
      BY <1>1, <2>1, HandledType DEF Drop, SendOk, Move, Handling, Steps, TypeOK
    <3>2. Handled(w)' = Handled(w)
      BY <2>1 DEF Drop, SendOk, Handled, brokerVars
    <3>3. Resolved(Handled(w).id)'
      BY <1>1, <2>1, <3>1, <3>2 DEF Drop, SendOk, Resolved, TypeOK
    <3> QED
      BY <3>2, <3>3 DEF Superseded
  <2>2. CASE Confirmed(w)
    BY <2>2 DEF Confirmed, Move, Promised
  <2>3. CASE BrokerTakes(w)
    <3>1. CASE conf[w] = "pending" /\ conf'[w] # "pending"
      BY <2>3, <3>1, TakenIsSuccessor
    <3>2. CASE ~(conf[w] = "pending" /\ conf'[w] # "pending")
      BY <1>1, <2>3, <3>2 DEF BrokerTakes, Answer, handlerVars, Promised, TypeOK
    <3> QED
      BY <3>1, <3>2
  <2>4. CASE BrokerRefuses(w)
    BY <1>1, <2>4 DEF BrokerRefuses, Answer, handlerVars, Promised, TypeOK
  <2>5. CASE Start(w) \/ Take(w) \/ PassLimiter(w) \/ LimiterCancelled(w) \/ SendFails(w)
               \/ SendAmbiguous(w) \/ RunReturns(w) \/ RunDrained(w) \/ ConfirmNacked(w)
               \/ ConfirmAbandoned(w) \/ Ack(w) \/ Nack(w)
    BY <1>1, <2>5 DEF Start, Take, PassLimiter, LimiterCancelled, SendFails, SendAmbiguous,
                RunReturns, RunDrained, ConfirmNacked, ConfirmAbandoned, Ack, Nack, Settle,
                Move, Promised, TypeOK
  <2>6. CASE Retry(w) \/ DeadLetter(w)
    BY <1>1, <2>6 DEF Retry, DeadLetter, Publish, Promised, TypeOK
  <2>7. CASE Deliver(w) \/ CloseConsumer(w) \/ LoseConsumerConn(w) \/ Signal(w)
    BY <2>7 DEF Deliver, CloseConsumer, LoseConsumerConn, Signal, handlerVars, pubVars, Promised
  <2>8. CASE ClosePublisher(w) \/ LosePublisherConn(w)
    BY <1>1, <2>8 DEF ClosePublisher, LosePublisherConn, DropPublisherConn, handlerVars,
                      Promised, TypeOK
  <2>9. CASE Exit(w) \/ Crash(w)
    BY <1>1, <2>9 DEF Exit, Crash, Vanish, Promised, TypeOK
  <2> QED
    BY <1>3, <2>1, <2>2, <2>3, <2>4, <2>5, <2>6, <2>7, <2>8, <2>9
       DEF StepOf, Run, Handle, Shutdown, Fail
<1> QED
  BY <1>1, <1>2, <1>3, Frame

LEMMA SettleSafeStep ==
  ASSUME Inductive, [Next]_vars
  PROVE  SettleSafe'
<1> SUFFICES ASSUME NEW w \in Worker, Promised(w)' PROVE Superseded(w)'
  BY DEF SettleSafe, Promised
<1>1. CASE Promised(w) /\ cur'[w] = cur[w]
  <2>1. Handling(w) /\ TypeOK
    BY <1>1 DEF Promised, Handling, Steps, Inductive
  <2>2. cur[w] \in Copies /\ cur[w] \in Nat /\ Handled(w).id \in Msg
    BY <2>1, HandledType DEF Copies
  <2>3. Handled(w)' = Handled(w)
    BY <1>1, <2>1, <2>2, StoreGrows DEF Handled
  <2>4. Resolved(Handled(w).id) \/ \E j \in PendingOf(Handled(w).id) : j > cur[w]
    BY <1>1 DEF Promised, Inductive, SettleSafe, Superseded
  <2>5. (Resolved(Handled(w).id) \/ \E j \in PendingOf(Handled(w).id) : j > cur[w])'
    <3> DEFINE m == Handled(w).id
               n == cur[w]
    <3>1. ASSUME NEW x \in Msg, NEW y \in Nat, Resolved(x) \/ \E j \in PendingOf(x) : j > y
          PROVE  (Resolved(x) \/ \E j \in PendingOf(x) : j > y)'
      BY <3>1, SuccessorStays
    <3>2. Resolved(m)' \/ \E j \in PendingOf(m)' : j > n
      BY <2>2, <2>3, <2>4, <3>1 DEF Resolved, PendingOf
    <3> QED
      BY <1>1, <2>3, <3>2
  <2> QED
    BY <2>5 DEF Superseded
<1> QED
  BY <1>1, NewPromise

(***************************************************************************)
(* Every retry was paid for                                                *)
(***************************************************************************)
\* What handle publishes after a failed attempt on the message in hand.
NextCopy(w) == IF CanRetry(Handled(w)) THEN RetryCopy(Handled(w)) ELSE DeadCopy(Handled(w))

LEMMA NextCopyType ==
  ASSUME TypeOK, NEW w \in Worker, Handling(w)
  PROVE  /\ NextCopy(w) \in Copy
         /\ NextCopy(w).id = Handled(w).id
         /\ CanRetry(Handled(w)) =>
              NextCopy(w).key = Handled(w).key /\ NextCopy(w).retry = Handled(w).retry + 1
         /\ ~CanRetry(Handled(w)) => NextCopy(w).key = Dead
<1>1. Handled(w) \in Copy
  BY HandledType
<1>2. /\ RetryCopy(Handled(w)) \in Copy
      /\ RetryCopy(Handled(w)).id = Handled(w).id
      /\ RetryCopy(Handled(w)).key = Handled(w).key
      /\ RetryCopy(Handled(w)).retry = Handled(w).retry + 1
      /\ DeadCopy(Handled(w)) \in Copy
      /\ DeadCopy(Handled(w)).id = Handled(w).id
      /\ DeadCopy(Handled(w)).key = Dead
  BY <1>1 DEF RetryCopy, DeadCopy, Copy
<1> QED
  BY <1>2 DEF NextCopy

\* A failed attempt on a copy that was paid for pays for the next one.
LEMMA FailurePays ==
  ASSUME Inductive, [Next]_vars, NEW w \in Worker,
         LimiterCancelled(w) \/ SendFails(w) \/ SendAmbiguous(w)
  PROVE  PaidFor(NextCopy(w))'
<1>1. TypeOK /\ TypeOK' /\ Handling(w)
  BY TypeStep DEF Inductive, LimiterCancelled, SendFails, SendAmbiguous, Move, Handling, Steps
<1> DEFINE m == Handled(w).id
<1>2. /\ m \in Msg /\ Handled(w).retry \in Nat /\ cur[w] \in Copies
      /\ NextCopy(w).id = m /\ NextCopy(w).retry \in Nat
  BY <1>1, HandledType, NextCopyType DEF Copy
<1>3. /\ tries[m] \in Nat /\ cuts[m] \in Nat
      /\ tries'[m] \in Nat /\ cuts'[m] \in Nat
  BY <1>1, <1>2 DEF TypeOK
<1>4. Handled(w)' = Handled(w) /\ NextCopy(w)' = NextCopy(w)
  BY DEF LimiterCancelled, SendFails, SendAmbiguous, brokerVars, Handled, NextCopy, CanRetry,
         RetryCopy, DeadCopy
<1>5. PaidFor(Handled(w))
  BY <1>2 DEF Inductive, DeadLettersPaidFor, Handled
<1>6. \/ tries'[m] + cuts'[m] >= tries[m] + cuts[m] + 1
      \/ tries'[m] + cuts'[m] >= MaxRetries + 1
  <2>1. CASE LimiterCancelled(w)
    BY <1>1, <1>2, <1>3, <2>1 DEF LimiterCancelled, TypeOK
  <2>2. CASE SendFails(w) \/ SendAmbiguous(w)
    <3>1. CountTry(m) /\ UNCHANGED cuts
      BY <2>2 DEF SendFails, SendAmbiguous
    <3>2. tries \in [Msg -> Nat]
      BY <1>1 DEF TypeOK
    <3>3. tries'[m] = IF tries[m] <= MaxRetries THEN tries[m] + 1 ELSE tries[m]
      BY <1>2, <3>1, <3>2 DEF CountTry
    <3>4. cuts'[m] = cuts[m]
      BY <3>1
    <3> HIDE DEF m
    <3> QED
      BY <1>3, <3>3, <3>4, LimitAssumption
  <2> QED
    BY <2>1, <2>2
<1>7. CASE CanRetry(Handled(w))
  <2>1. NextCopy(w).retry = Handled(w).retry + 1 /\ NextCopy(w).key = Handled(w).key
        /\ Handled(w).retry < MaxRetries
    BY <1>1, <1>7, NextCopyType DEF CanRetry
  <2>2. tries'[m] + cuts'[m] >= IF NextCopy(w).key = Dead THEN MaxRetries + 1
                                ELSE NextCopy(w).retry
    BY <1>2, <1>3, <1>5, <1>6, <2>1, LimitAssumption DEF PaidFor
  <2> QED
    BY <1>2, <1>4, <2>2 DEF PaidFor
<1>8. CASE ~CanRetry(Handled(w))
  <2>1. NextCopy(w).key = Dead /\ Handled(w).retry >= MaxRetries
    BY <1>1, <1>2, <1>8, NextCopyType DEF CanRetry
  <2>2. tries'[m] + cuts'[m] >= MaxRetries + 1
    BY <1>2, <1>3, <1>5, <1>6, <2>1, LimitAssumption DEF PaidFor
  <2> QED
    BY <1>2, <1>4, <2>1, <2>2 DEF PaidFor
<1> QED
  BY <1>7, <1>8

LEMMA DeadLettersPaidStep ==
  ASSUME Inductive, [Next]_vars
  PROVE  DeadLettersPaidFor'
<1> SUFFICES ASSUME NEW i \in Copies' PROVE PaidFor(store[i])'
  BY DEF DeadLettersPaidFor
<1>1. TypeOK /\ TypeOK'
  BY TypeStep DEF Inductive
<1>2. CASE i \in Copies
  <2>1. store[i] \in Copy
    BY <1>1, <1>2, ElementOfSeq DEF TypeOK, Copies
  <2>2. PaidFor(store[i]) /\ store'[i] = store[i]
    BY <1>1, <1>2, StoreGrows DEF Inductive, DeadLettersPaidFor
  <2> QED
    BY <1>1, <2>1, <2>2, PaidStays DEF PaidFor
<1>3. ASSUME NEW c \in Copy, store' = Append(store, c), PaidFor(c), i \notin Copies
      PROVE  PaidFor(store[i])'
  <2>s. store \in Seq(Copy) /\ i \in 1 .. Len(store') /\ i \notin 1 .. Len(store)
    BY <1>1, <1>3 DEF TypeOK, Copies
  <2>1. i = Len(store) + 1 /\ store'[i] = c
    BY <1>3, <2>s, AppendProperties, LenProperties
  <2>2. PaidFor(c)'
    BY <1>1, <1>3, PaidStays
  <2> QED
    BY <2>1, <2>2 DEF PaidFor
<1>4. ASSUME NEW m \in Msg PROVE FreshCopy(m) \in Copy /\ PaidFor(FreshCopy(m))
  <2>1. FreshCopy(m) \in Copy /\ FreshCopy(m).key # Dead /\ FreshCopy(m).retry = 0
        /\ FreshCopy(m).id = m
    BY LaneAssumption DEF FreshCopy, Copy
  <2>2. tries[m] \in Nat /\ cuts[m] \in Nat
    BY <1>1 DEF TypeOK
  <2> QED
    BY <2>1, <2>2 DEF PaidFor
<1>5. ASSUME NEW w \in Worker, BrokerTakes(w)
      PROVE  /\ Head(wire[w]) \in Copy /\ PaidFor(Head(wire[w]))
             /\ store' = Append(store, Head(wire[w]))
  <2>1. wire[w] \in Seq(Copy) /\ wire[w] # <<>>
    BY <1>1, <1>5 DEF TypeOK, BrokerTakes
  <2>2. Head(wire[w]) = wire[w][1] /\ Head(wire[w]) \in Copy /\ 1 \in 1 .. Len(wire[w])
    BY <2>1, HeadTailProperties, EmptySeq, LenProperties
  <2> QED
    BY <1>5, <2>2 DEF Inductive, AttemptsPaid, BrokerTakes
<1>6. CASE i \notin Copies
  <2>1. store' # store
    BY <1>6 DEF Copies
  <2> QED
    BY <1>1, <1>3, <1>4, <1>5, <1>6, <2>1, StoreStep
<1> QED
  BY <1>2, <1>6

\* What is on the wire was there before, or is the copy a failed attempt
\* publishes.
LEMMA WireStep ==
  ASSUME TypeOK, [Next]_vars, NEW w \in Worker, NEW k \in 1 .. Len(wire'[w])
  PROVE  \/ \E j \in 1 .. Len(wire[w]) : wire'[w][k] = wire[w][j]
         \/ pc[w] = "failed" /\ wire'[w][k] = NextCopy(w)
<1>1. wire[w] \in Seq(Copy)
  BY DEF TypeOK
<1>2. CASE wire'[w] = wire[w]
  BY <1>2
<1>3. CASE wire'[w] = <<>>
  BY <1>3, EmptySeq
<1>4. CASE BrokerTakes(w) \/ BrokerRefuses(w)
  <2>1. wire'[w] = Tail(wire[w]) /\ wire[w] # <<>>
    BY <1>4 DEF BrokerTakes, BrokerRefuses, TypeOK
  <2>2. /\ Len(Tail(wire[w])) = Len(wire[w]) - 1
        /\ \A i \in 1 .. Len(Tail(wire[w])) : Tail(wire[w])[i] = wire[w][i + 1]
    BY <1>1, <2>1, HeadTailProperties
  <2>3. k + 1 \in 1 .. Len(wire[w])
    BY <1>1, <2>1, <2>2, LenProperties
  <2> QED
    BY <2>1, <2>2, <2>3
<1>5. CASE Retry(w) \/ DeadLetter(w)
  <2>1. Publish(w, NextCopy(w)) /\ pc[w] = "failed"
    BY <1>5 DEF Retry, DeadLetter, NextCopy
  <2>2. NextCopy(w) \in Copy
    BY <2>1, NextCopyType DEF Handling, Steps
  <2>3. wire'[w] = wire[w] \/ wire'[w] = Append(wire[w], NextCopy(w))
    BY <2>1 DEF Publish, TypeOK, pubVars
  <2>4. CASE wire'[w] = Append(wire[w], NextCopy(w))
    BY <1>1, <2>1, <2>2, <2>4, AppendProperties, LenProperties
  <2> QED
    BY <1>2, <2>3, <2>4
<1>6. CASE Start(w)
  BY <1>3, <1>6 DEF Start, TypeOK
<1>7. CASE StepOf(w) /\ ~(Start(w) \/ BrokerTakes(w) \/ BrokerRefuses(w)
                          \/ Retry(w) \/ DeadLetter(w))
  <2>1. CASE Deliver(w)
    BY <1>2, <2>1 DEF Deliver, pubVars
  <2>2. CASE Run(w)
    BY <1>2, <1>7, <2>2
       DEF Run, Handle, Take, Drop, PassLimiter, LimiterCancelled, SendOk, SendFails,
           SendAmbiguous, Confirmed, ConfirmNacked, ConfirmAbandoned, Ack, Nack, Settle,
           RunReturns, RunDrained, pubVars
  <2>3. CASE Shutdown(w) \/ Fail(w)
    BY <1>2, <2>3
       DEF Shutdown, Fail, ClosePublisher, CloseConsumer, Exit, Crash, Vanish, Signal,
           LosePublisherConn, LoseConsumerConn, pubVars
  <2> QED
    BY <1>7, <2>1, <2>2, <2>3 DEF StepOf
<1> QED
  BY <1>2, <1>4, <1>5, <1>6, <1>7, Frame

LEMMA FailedStep ==
  ASSUME TypeOK, [Next]_vars, NEW w \in Worker, pc'[w] = "failed"
  PROVE  \/ LimiterCancelled(w) \/ SendFails(w) \/ SendAmbiguous(w)
         \/ pc[w] = "failed" /\ cur'[w] = cur[w]
<1>1. CASE StepOf(w)
  <2>1. CASE Start(w) \/ Deliver(w) \/ BrokerTakes(w) \/ BrokerRefuses(w)
    BY <2>1 DEF Start, Deliver, BrokerTakes, BrokerRefuses, Move, handlerVars, TypeOK
  <2>2. CASE Retry(w) \/ DeadLetter(w)
    BY <2>2 DEF Retry, DeadLetter, Publish, TypeOK
  <2>3. CASE Take(w) \/ Drop(w) \/ PassLimiter(w) \/ SendOk(w) \/ Confirmed(w)
               \/ ConfirmNacked(w) \/ ConfirmAbandoned(w) \/ Ack(w) \/ Nack(w)
               \/ RunReturns(w) \/ RunDrained(w)
    BY <2>3 DEF Take, Drop, PassLimiter, SendOk, Confirmed, ConfirmNacked, ConfirmAbandoned,
                Ack, Nack, Settle, RunReturns, RunDrained, Move, TypeOK
  <2>4. CASE Shutdown(w) \/ Fail(w)
    BY <2>4 DEF Shutdown, Fail, ClosePublisher, CloseConsumer, Exit, Crash, Vanish, Signal,
                LosePublisherConn, LoseConsumerConn, handlerVars, TypeOK
  <2> QED
    BY <1>1, <2>1, <2>2, <2>3, <2>4 DEF StepOf, Run, Handle
<1> QED
  BY <1>1, Frame

LEMMA AttemptsPaidStep ==
  ASSUME Inductive, [Next]_vars
  PROVE  AttemptsPaid'
<1> SUFFICES ASSUME NEW w \in Worker
             PROVE  /\ \A k \in 1 .. Len(wire'[w]) : PaidFor(wire[w][k])'
                    /\ pc'[w] = "failed" => PaidFor(NextCopy(w))'
  BY DEF AttemptsPaid, NextCopy
<1>1. TypeOK /\ TypeOK'
  BY TypeStep DEF Inductive
<1>2. pc[w] = "failed" => Handling(w) /\ NextCopy(w) \in Copy /\ PaidFor(NextCopy(w))
  BY <1>1, NextCopyType DEF Inductive, AttemptsPaid, Handling, Steps, NextCopy
<1>3. ASSUME NEW k \in 1 .. Len(wire'[w]) PROVE PaidFor(wire[w][k])'
  <2>1. CASE \E j \in 1 .. Len(wire[w]) : wire'[w][k] = wire[w][j]
    <3>1. PICK j \in 1 .. Len(wire[w]) : wire'[w][k] = wire[w][j]
      BY <2>1
    <3>2. wire[w][j] \in Copy /\ PaidFor(wire[w][j])
      BY <1>1, ElementOfSeq DEF TypeOK, Inductive, AttemptsPaid
    <3> QED
      BY <1>1, <3>1, <3>2, PaidStays DEF PaidFor
  <2>2. CASE pc[w] = "failed" /\ wire'[w][k] = NextCopy(w)
    <3>1. ASSUME NEW c \in Copy, PaidFor(c), wire'[w][k] = c PROVE PaidFor(wire[w][k])'
      BY <1>1, <3>1, PaidStays DEF PaidFor
    <3> QED
      BY <1>2, <2>2, <3>1
  <2> QED
    BY <1>1, <2>1, <2>2, WireStep
<1>4. ASSUME pc'[w] = "failed" PROVE PaidFor(NextCopy(w))'
  <2>1. CASE LimiterCancelled(w) \/ SendFails(w) \/ SendAmbiguous(w)
    BY <2>1, FailurePays
  <2>2. CASE pc[w] = "failed" /\ cur'[w] = cur[w]
    <3>1. Handled(w)' = Handled(w)
      BY <1>1, <1>2, <2>2, HandledType, StoreGrows DEF Handled
    <3>2. NextCopy(w)' = NextCopy(w)
      BY <3>1 DEF NextCopy, CanRetry, RetryCopy, DeadCopy
    <3>3. ASSUME NEW c \in Copy, PaidFor(c), NextCopy(w)' = c PROVE PaidFor(NextCopy(w))'
      BY <1>1, <3>3, PaidStays DEF PaidFor
    <3> QED
      BY <1>2, <2>2, <3>2, <3>3
  <2> QED
    BY <1>1, <1>4, <2>1, <2>2, FailedStep
<1> QED
  BY <1>3, <1>4

(***************************************************************************)
(* Only what can be delivered is sent and published again                  *)
(***************************************************************************)
\* The attempt goes on with the same message, and begins with a check of it.
LEMMA AttemptStep ==
  ASSUME TypeOK, [Next]_vars, NEW w \in Worker, pc'[w] \in {"send", "failed"}
  PROVE  /\ pc[w] \in {"send", "failed"} \/ Handled(w).id \notin Undeliverable
         /\ Handling(w) /\ cur'[w] = cur[w]
<1>1. CASE PassLimiter(w) \/ LimiterCancelled(w)
  BY <1>1 DEF PassLimiter, LimiterCancelled, Move, Handling, Steps
<1>2. CASE SendFails(w) \/ SendAmbiguous(w)
  BY <1>2 DEF SendFails, SendAmbiguous, Move, Handling, Steps
<1>3. CASE pc[w] \in {"send", "failed"} /\ cur'[w] = cur[w]
  BY <1>3 DEF Handling, Steps
<1>4. CASE UNCHANGED <<pc[w], cur[w], conf[w], wire[w]>>
  BY <1>3, <1>4
<1>5. CASE StepOf(w)
  <2>1. CASE Start(w) \/ Take(w) \/ Drop(w) \/ SendOk(w) \/ Confirmed(w) \/ ConfirmNacked(w)
               \/ ConfirmAbandoned(w) \/ Ack(w) \/ Nack(w) \/ RunReturns(w) \/ RunDrained(w)
    BY <2>1 DEF Start, Take, Drop, SendOk, Confirmed, ConfirmNacked, ConfirmAbandoned, Ack, Nack,
                Settle, RunReturns, RunDrained, Move, TypeOK
  <2>2. CASE Retry(w) \/ DeadLetter(w)
    BY <2>2 DEF Retry, DeadLetter, Publish, TypeOK
  <2>3. CASE Deliver(w) \/ BrokerTakes(w) \/ BrokerRefuses(w) \/ Signal(w) \/ ClosePublisher(w)
               \/ CloseConsumer(w) \/ LosePublisherConn(w) \/ LoseConsumerConn(w)
    BY <1>3, <2>3 DEF Deliver, BrokerTakes, BrokerRefuses, Signal, ClosePublisher, CloseConsumer,
                LosePublisherConn, LoseConsumerConn, handlerVars
  <2>4. CASE Exit(w) \/ Crash(w)
    BY <2>4 DEF Exit, Crash, Vanish, TypeOK
  <2> QED
    BY <1>1, <1>2, <1>5, <2>1, <2>2, <2>3, <2>4 DEF StepOf, Run, Handle, Shutdown, Fail
<1> QED
  BY <1>1, <1>2, <1>4, <1>5, Frame

LEMMA KnownStays ==
  ASSUME TypeOK, [Next]_vars, NEW m, Known(m)
  PROVE  Known(m)'
BY StoreGrows DEF Known

LEMMA OnlyDeliverableStep ==
  ASSUME Inductive, [Next]_vars
  PROVE  OnlyDeliverable'
<1> SUFFICES ASSUME NEW w \in Worker
             PROVE  /\ pc'[w] \in {"send", "failed"} => Handled(w)'.id \notin Undeliverable
                    /\ \A k \in 1 .. Len(wire'[w]) :
                         Known(wire[w][k].id)' /\ wire'[w][k].id \notin Undeliverable
  BY DEF OnlyDeliverable
<1>1. TypeOK
  BY DEF Inductive
<1>2. ASSUME pc'[w] \in {"send", "failed"} PROVE Handled(w)'.id \notin Undeliverable
  <2>1. /\ pc[w] \in {"send", "failed"} \/ Handled(w).id \notin Undeliverable
        /\ Handling(w) /\ cur'[w] = cur[w]
    BY <1>1, <1>2, AttemptStep
  <2>2. Handled(w)' = Handled(w)
    BY <1>1, <2>1, HandledType, StoreGrows DEF Handled
  <2>3. Handled(w).id \notin Undeliverable
    BY <2>1 DEF Inductive, OnlyDeliverable
  <2> QED
    BY <2>2, <2>3
<1>3. ASSUME NEW k \in 1 .. Len(wire'[w])
      PROVE  Known(wire[w][k].id)' /\ wire'[w][k].id \notin Undeliverable
  <2>1. ASSUME NEW c, Known(c.id), c.id \notin Undeliverable, wire'[w][k] = c
        PROVE  Known(wire[w][k].id)' /\ wire'[w][k].id \notin Undeliverable
    <3>1. Known(c.id)'
      BY <1>1, <2>1, KnownStays
    <3> QED
      BY <2>1, <3>1 DEF Known
  <2>2. CASE \E j \in 1 .. Len(wire[w]) : wire'[w][k] = wire[w][j]
    BY <2>1, <2>2 DEF Inductive, OnlyDeliverable
  <2>3. CASE pc[w] = "failed" /\ wire'[w][k] = NextCopy(w)
    <3>1. Handling(w) /\ Handled(w).id \notin Undeliverable
      BY <2>3 DEF Inductive, OnlyDeliverable, Handling, Steps
    <3>2. NextCopy(w).id = Handled(w).id /\ Known(Handled(w).id)
      BY <1>1, <3>1, HandledType, NextCopyType DEF Known, Handled
    <3> QED
      BY <2>1, <2>3, <3>1, <3>2
  <2> QED
    BY <1>1, <2>2, <2>3, WireStep
<1> QED
  BY <1>2, <1>3

(***************************************************************************)
(* The theorems                                                            *)
(***************************************************************************)
LEMMA InductiveStep ==
  ASSUME Inductive, [Next]_vars
  PROVE  Inductive'
BY TypeStep, NeverLostStep, SettleSafeStep, ConfirmOwnStep, DeadLettersPaidStep,
   AttemptsPaidStep, OnlyDeliverableStep DEF Inductive

\* The inductive invariant: settling rests on a later copy, a confirm on the
\* handler's own publish, and every copy on attempts made.
THEOREM InductiveInvariant == Spec => []Inductive
<1>1. Init => Inductive
  <2>1. Init => TypeOK
    BY EmptySeq DEF Init, TypeOK, Copies, Handling, Steps
  <2>2. Init => NeverLost /\ DeadLettersPaidFor
    BY EmptySeq DEF Init, NeverLost, DeadLettersPaidFor, Copies
  <2>3. Init => SettleSafe /\ ConfirmOwn /\ AttemptsPaid /\ OnlyDeliverable
    BY EmptySeq DEF Init, SettleSafe, ConfirmOwn, AttemptsPaid, OnlyDeliverable
  <2> QED
    BY <2>1, <2>2, <2>3 DEF Inductive
<1>2. Inductive /\ [Next]_vars => Inductive'
  BY InductiveStep
<1> QED
  BY <1>1, <1>2, PTL DEF Spec

\* No notification the broker accepted is ever lost, whatever crashes, closes
\* or times out: it is resolved or still in a queue.
THEOREM NoNotificationLost == Spec => []NeverLost
<1>1. Inductive => NeverLost
  BY DEF Inductive
<1> QED
  BY <1>1, InductiveInvariant, PTL

\* Every retry, and every dead letter, was paid for by attempts made.
THEOREM RetriesArePaidFor == Spec => []DeadLettersPaidFor
<1>1. Inductive => DeadLettersPaidFor
  BY DEF Inductive
<1> QED
  BY <1>1, InductiveInvariant, PTL

(***************************************************************************)
(* Lanes stay apart                                                        *)
(***************************************************************************)
\* What a worker has received, handles and publishes is of the lane it serves,
\* or a dead letter from it; and a copy is in the lane of its notification.
OwnLane ==
  /\ \A i \in Copies : store[i].key \in {LaneOf[store[i].id], Dead}
  /\ \A w \in Worker :
       /\ \A a \in DOMAIN inbox[w] : store[inbox[w][a]].key = Serves[w]
       /\ Handling(w) => Handled(w).key = Serves[w]
       /\ \A k \in DOMAIN wire[w] :
            LaneOf[wire[w][k].id] = Serves[w] /\ wire[w][k].key \in {Serves[w], Dead}

\* What a worker has received it had received before, or is ready in its lane.
LEMMA InboxStep ==
  ASSUME TypeOK, NEW w \in Worker, StepOf(w), NEW a \in DOMAIN inbox'[w]
  PROVE  \/ \E b \in DOMAIN inbox[w] : inbox'[w][a] = inbox[w][b]
         \/ inbox'[w][a] \in Ready(Serves[w])
<1>1. /\ inbox[w] \in Seq(Copies) /\ Len(inbox[w]) \in Nat
      /\ DOMAIN inbox[w] = 1 .. Len(inbox[w])
  BY LenProperties DEF TypeOK
<1>2. CASE inbox'[w] = inbox[w]
  BY <1>2
<1>3. CASE inbox'[w] = <<>>
  BY <1>3
<1>4. CASE Deliver(w)
  <2>1. PICK i \in Copies : /\ i \in Ready(Serves[w])
                            /\ inbox'[w] = Append(inbox[w], i)
    BY <1>4 DEF Deliver, IsHead, TypeOK
  <2>2. /\ DOMAIN inbox'[w] = 1 .. Len(inbox[w]) + 1
        /\ inbox'[w][Len(inbox[w]) + 1] = i
        /\ \A b \in 1 .. Len(inbox[w]) : inbox'[w][b] = inbox[w][b]
    BY <1>1, <2>1, AppendProperties, LenProperties
  <2>3. a \in 1 .. Len(inbox[w]) \/ a = Len(inbox[w]) + 1
    BY <1>1, <2>2
  <2> QED
    BY <1>1, <2>1, <2>2, <2>3
<1>5. CASE Take(w)
  <2>1. inbox[w] # <<>> /\ inbox'[w] = Tail(inbox[w])
    BY <1>5 DEF Take, TypeOK
  <2>2. /\ Len(inbox[w]) \in Nat \ {0}
        /\ DOMAIN inbox'[w] = 1 .. Len(inbox[w]) - 1
        /\ \A b \in 1 .. Len(inbox[w]) - 1 : inbox'[w][b] = inbox[w][b + 1]
    BY <1>1, <2>1, HeadTailProperties, LenProperties, EmptySeq
  <2>3. a + 1 \in DOMAIN inbox[w] /\ inbox'[w][a] = inbox[w][a + 1]
    BY <1>1, <2>2
  <2> QED
    BY <2>3
<1>6. CASE CloseConsumer(w) \/ LoseConsumerConn(w)
  <2>1. PICK k \in {n \in 0 .. 2 : n <= Len(inbox[w])} : inbox'[w] = SubSeq(inbox[w], 1, k)
    BY <1>6 DEF CloseConsumer, LoseConsumerConn, DropConsumerConn, TypeOK
  <2>2. a \in DOMAIN inbox[w] /\ inbox'[w][a] = inbox[w][a]
    BY <1>1, <2>1
  <2> QED
    BY <2>2
<1>7. CASE Exit(w) \/ Crash(w)
  BY <1>3, <1>7 DEF Exit, Crash, Vanish, TypeOK
<1>8. CASE Start(w) \/ BrokerTakes(w) \/ BrokerRefuses(w) \/ ClosePublisher(w)
           \/ Signal(w) \/ LosePublisherConn(w) \/ RunReturns(w) \/ RunDrained(w)
  BY <1>2, <1>8 DEF Start, BrokerTakes, BrokerRefuses, ClosePublisher, Signal,
                    LosePublisherConn, RunReturns, RunDrained, handlerVars
<1>9. CASE Handle(w)
  BY <1>2, <1>9 DEF Handle, Drop, PassLimiter, LimiterCancelled, SendOk, SendFails,
                    SendAmbiguous, Retry, DeadLetter, Publish, Confirmed, ConfirmNacked,
                    ConfirmAbandoned, Ack, Nack, Settle
<1> QED
  BY <1>4, <1>5, <1>6, <1>7, <1>8, <1>9 DEF StepOf, Run, Shutdown, Fail

\* What a worker handles it handled before, or had received.
LEMMA HandStep ==
  ASSUME TypeOK, NEW w \in Worker, StepOf(w), Handling(w)'
  PROVE  \/ Handling(w) /\ cur'[w] = cur[w]
         \/ \E b \in DOMAIN inbox[w] : cur'[w] = inbox[w][b]
<1>1. CASE Take(w)
  <2>1. inbox[w] \in Seq(Copies) /\ inbox[w] # <<>> /\ cur'[w] = Head(inbox[w])
    BY <1>1 DEF Take, TypeOK
  <2>2. 1 \in DOMAIN inbox[w] /\ cur'[w] = inbox[w][1]
    BY <2>1, HeadTailProperties, LenProperties, EmptySeq
  <2> QED
    BY <2>2
<1>2. CASE Start(w) \/ RunReturns(w) \/ RunDrained(w) \/ Exit(w) \/ Crash(w)
           \/ Ack(w) \/ Nack(w)
  BY <1>2 DEF Start, RunReturns, RunDrained, Exit, Crash, Vanish, Ack, Nack, Settle, Move,
              Handling, TypeOK
<1>3. CASE Deliver(w) \/ BrokerTakes(w) \/ BrokerRefuses(w) \/ ClosePublisher(w)
           \/ CloseConsumer(w) \/ Signal(w) \/ LosePublisherConn(w) \/ LoseConsumerConn(w)
  BY <1>3 DEF Deliver, BrokerTakes, BrokerRefuses, ClosePublisher, CloseConsumer, Signal,
              LosePublisherConn, LoseConsumerConn, Handling, handlerVars
<1>4. CASE \/ Drop(w) \/ PassLimiter(w) \/ LimiterCancelled(w)
           \/ SendOk(w) \/ SendFails(w) \/ SendAmbiguous(w)
           \/ Retry(w) \/ DeadLetter(w)
           \/ Confirmed(w) \/ ConfirmNacked(w) \/ ConfirmAbandoned(w)
  <2>1. UNCHANGED cur
    BY <1>4 DEF Drop, PassLimiter, LimiterCancelled, SendOk, SendFails, SendAmbiguous,
                Retry, DeadLetter, Publish, Confirmed, ConfirmNacked, ConfirmAbandoned
  <2>2. pc[w] \in {"process", "send", "failed", "confirm"}
    BY <1>4 DEF Drop, PassLimiter, LimiterCancelled, SendOk, SendFails, SendAmbiguous,
                Retry, DeadLetter, Confirmed, ConfirmNacked, ConfirmAbandoned, Move
  <2> QED
    BY <2>1, <2>2 DEF Handling, Steps
<1> QED
  BY <1>1, <1>2, <1>3, <1>4 DEF StepOf, Run, Handle, Shutdown, Fail

\* The first publish on the wire is one of those on the wire.
LEMMA FirstOnWire ==
  ASSUME TypeOK, NEW w \in Worker, wire[w] # <<>>
  PROVE  /\ Head(wire[w]) \in Copy
         /\ \E k \in DOMAIN wire[w] : Head(wire[w]) = wire[w][k]
<1>1. wire[w] \in Seq(Copy)
  BY DEF TypeOK
<1>2. Head(wire[w]) \in Copy /\ 1 \in DOMAIN wire[w] /\ Head(wire[w]) = wire[w][1]
  BY <1>1, HeadTailProperties, LenProperties, EmptySeq
<1> QED
  BY <1>2

LEMMA OwnLaneStep ==
  ASSUME TypeOK, OwnLane, [Next]_vars
  PROVE  OwnLane'
<1>1. TypeOK' /\ \A i \in Copies : i \in Copies' /\ store'[i] = store[i]
  BY TypeStep, StoreGrows
<1>2. ASSUME NEW i \in Copies'
      PROVE  store'[i].key \in {LaneOf[store'[i].id], Dead}
  <2>1. CASE i \in Copies
    BY <1>1, <2>1 DEF OwnLane
  <2>2. ASSUME NEW c \in Copy, store' = Append(store, c), i \notin Copies
        PROVE  store'[i] = c
    <3>1. store \in Seq(Copy) /\ i \in 1 .. Len(store') /\ i \notin 1 .. Len(store)
      BY <2>2 DEF TypeOK, Copies
    <3> QED
      BY <2>2, <3>1, AppendProperties, LenProperties
  <2>3. ASSUME NEW m \in Msg, store' = Append(store, FreshCopy(m)), i \notin Copies
        PROVE  store'[i].key \in {LaneOf[store'[i].id], Dead}
    <3>1. FreshCopy(m) \in Copy /\ FreshCopy(m).key = LaneOf[FreshCopy(m).id]
      BY DEF FreshCopy, Copy
    <3> QED
      BY <2>2, <2>3, <3>1
  <2>4. ASSUME NEW w \in Worker, BrokerTakes(w), i \notin Copies
        PROVE  store'[i].key \in {LaneOf[store'[i].id], Dead}
    <3>1. wire[w] # <<>> /\ store' = Append(store, Head(wire[w]))
      BY <2>4 DEF BrokerTakes
    <3>2. PICK k \in DOMAIN wire[w] : Head(wire[w]) \in Copy /\ Head(wire[w]) = wire[w][k]
      BY <3>1, FirstOnWire
    <3>3. store'[i] = wire[w][k]
      BY <2>2, <2>4, <3>1, <3>2
    <3> QED
      BY <3>2, <3>3 DEF OwnLane
  <2>5. i \notin Copies => store' # store
    BY DEF Copies
  <2> QED
    BY <2>1, <2>3, <2>4, <2>5, StoreStep
<1>3. ASSUME NEW w \in Worker, NEW a \in DOMAIN inbox'[w]
      PROVE  store'[inbox'[w][a]].key = Serves[w]
  <2>1. \A b \in DOMAIN inbox[w] : inbox[w][b] \in Copies /\ store[inbox[w][b]].key = Serves[w]
    BY DEF TypeOK, OwnLane
  <2>2. \A i \in Ready(Serves[w]) : i \in Copies /\ store[i].key = Serves[w]
    BY DEF Ready, Pending
  <2>3. \/ \E b \in DOMAIN inbox[w] : inbox'[w][a] = inbox[w][b]
        \/ inbox'[w][a] \in Ready(Serves[w])
    BY <1>3, InboxStep, Frame
  <2> QED
    BY <1>1, <2>1, <2>2, <2>3
<1>4. ASSUME NEW w \in Worker, Handling(w)'
      PROVE  store'[cur'[w]].key = Serves[w]
  <2>1. \A b \in DOMAIN inbox[w] : inbox[w][b] \in Copies /\ store[inbox[w][b]].key = Serves[w]
    BY DEF TypeOK, OwnLane
  <2>2. Handling(w) => cur[w] \in Copies /\ store[cur[w]].key = Serves[w]
    BY HandledType DEF OwnLane, Handled
  <2>3. \/ Handling(w) /\ cur'[w] = cur[w]
        \/ \E b \in DOMAIN inbox[w] : cur'[w] = inbox[w][b]
    BY <1>4, HandStep, Frame DEF Handling
  <2> QED
    BY <1>1, <2>1, <2>2, <2>3
<1>5. ASSUME NEW w \in Worker, NEW k \in DOMAIN wire'[w]
      PROVE  LaneOf[wire'[w][k].id] = Serves[w] /\ wire'[w][k].key \in {Serves[w], Dead}
  <2>1. /\ DOMAIN wire[w] = 1 .. Len(wire[w])
        /\ DOMAIN wire'[w] = 1 .. Len(wire'[w])
    BY <1>1, LenProperties DEF TypeOK
  <2>2. CASE pc[w] = "failed" /\ wire'[w][k] = NextCopy(w)
    <3>1. Handling(w)
      BY <2>2 DEF Handling, Steps
    <3>2. /\ NextCopy(w).id = Handled(w).id
          /\ NextCopy(w).key \in {Handled(w).key, Dead}
          /\ cur[w] \in Copies
      BY <3>1, NextCopyType, HandledType
    <3>3. Handled(w).key = Serves[w] /\ Handled(w).key \in {LaneOf[Handled(w).id], Dead}
      BY <3>1, <3>2 DEF OwnLane, Handled
    <3> QED
      BY <2>2, <3>2, <3>3, LaneAssumption
  <2> QED
    BY <2>1, <2>2, WireStep DEF OwnLane
<1> QED
  BY <1>2, <1>3, <1>4, <1>5 DEF OwnLane, Handled

\* A copy of another notification changes nothing of m's copies.
LEMMA OthersCopy ==
  ASSUME TypeOK, NEW c \in Copy, store' = Append(store, c), UNCHANGED acked,
         NEW m \in Msg, c.id # m
  PROVE  InLane(m)' = InLane(m) /\ InDead(m)' = InDead(m)
<1>1. PICK last : /\ Copies' = Copies \cup {last} /\ last \notin Copies
                  /\ store'[last] = c
                  /\ \A i \in Copies : store'[i] = store[i]
  <2>1. /\ Len(store) \in Nat /\ Len(store') = Len(store) + 1
        /\ store'[Len(store) + 1] = c
        /\ \A i \in Copies : store'[i] = store[i]
    BY AppendProperties, LenProperties DEF TypeOK, Copies
  <2> QED
    BY <2>1 DEF Copies
<1>2. \A i : i \in Copies' /\ store'[i].id = m <=> i \in Copies /\ store[i].id = m
  BY <1>1
<1>3. \A i \in Copies : store'[i] = store[i]
  BY <1>1
<1>4. InLane(m)' = InLane(m)
  BY <1>2, <1>3 DEF InLane, PendingOf, Pending
<1>5. InDead(m)' = InDead(m)
  BY <1>2, <1>3 DEF InDead
<1> QED
  BY <1>4, <1>5

\* A step of a worker of another lane changes nothing of notification m.
LEMMA OtherLane ==
  ASSUME TypeOK, OwnLane, NEW w \in Worker, StepOf(w), NEW m \in Msg, Serves[w] # LaneOf[m]
  PROVE  Progress(m)' = Progress(m)
<1> USE DEF brokerVars, history
<1>1. Handling(w) => Handled(w).id \in Msg /\ Handled(w).id # m
  <2>1. Handling(w) => /\ cur[w] \in Copies /\ Handled(w).id \in Msg
                       /\ Handled(w).key = Serves[w]
                       /\ Handled(w).key \in {LaneOf[Handled(w).id], Dead}
    BY HandledType DEF OwnLane, Handled
  <2> QED
    BY <2>1, LaneAssumption
<1>2. CASE UNCHANGED <<store, acked, history>>
  BY <1>2 DEF Progress, InLane, InDead, PendingOf, Pending, Copies
<1>3. CASE BrokerTakes(w)
  <2>1. /\ wire[w] # <<>> /\ store' = Append(store, Head(wire[w]))
        /\ UNCHANGED <<acked, history>>
    BY <1>3 DEF BrokerTakes
  <2>2. Head(wire[w]) \in Copy /\ Head(wire[w]).id # m
    BY <2>1, FirstOnWire DEF OwnLane
  <2> QED
    BY <2>1, <2>2, OthersCopy DEF Progress
<1>4. CASE Ack(w)
  <2>1. /\ UNCHANGED <<store, history>>
        /\ acked' = acked \/ acked' = acked \cup {cur[w]}
        /\ Handling(w)
    BY <1>4 DEF Ack, Settle, Move, Handling, Steps
  <2>2. store[cur[w]].id # m
    BY <1>1, <2>1 DEF Handled
  <2>3. InLane(m)' = InLane(m) /\ InDead(m)' = InDead(m)
    BY <2>1, <2>2 DEF InLane, InDead, PendingOf, Pending, Copies
  <2> QED
    BY <2>1, <2>3 DEF Progress
<1>5. CASE Drop(w) \/ LimiterCancelled(w) \/ SendOk(w) \/ SendFails(w) \/ SendAmbiguous(w)
  <2>1. Handling(w) /\ UNCHANGED <<store, acked>>
    BY <1>5 DEF Drop, LimiterCancelled, SendOk, SendFails, SendAmbiguous, Move, Handling, Steps
  <2>2. InLane(m)' = InLane(m) /\ InDead(m)' = InDead(m)
    BY <2>1 DEF InLane, InDead, PendingOf, Pending, Copies
  <2>3. /\ sends'[m] = sends[m] /\ tries'[m] = tries[m] /\ cuts'[m] = cuts[m]
        /\ m \in dropped' <=> m \in dropped
    BY <1>1, <1>5, <2>1 DEF Drop, LimiterCancelled, SendOk, SendFails, SendAmbiguous, CountTry,
                            TypeOK
  <2>4. (m \in dropped') = (m \in dropped)
    BY <2>3
  <2> QED
    BY <2>2, <2>3, <2>4 DEF Progress
<1>6. CASE Start(w) \/ Deliver(w) \/ BrokerRefuses(w) \/ Take(w) \/ PassLimiter(w) \/ Retry(w)
           \/ DeadLetter(w) \/ Confirmed(w) \/ ConfirmNacked(w) \/ ConfirmAbandoned(w)
           \/ Nack(w) \/ RunReturns(w) \/ RunDrained(w)
  BY <1>2, <1>6 DEF Start, Deliver, BrokerRefuses, Take, PassLimiter, Retry, DeadLetter, Publish,
                    Confirmed, ConfirmNacked, ConfirmAbandoned, Nack, Settle, RunReturns,
                    RunDrained
<1>7. CASE Shutdown(w) \/ Fail(w)
  BY <1>2, <1>7 DEF Shutdown, Fail, ClosePublisher, CloseConsumer, Exit, Crash, Vanish, Signal,
                    LosePublisherConn, LoseConsumerConn
<1> QED
  BY <1>3, <1>4, <1>5, <1>6, <1>7 DEF StepOf, Run, Handle

\* The API's publish changes nothing of the other notifications.
LEMMA OtherEnqueued ==
  ASSUME TypeOK, NEW n \in Msg, Enqueue(n), NEW m \in Msg, m # n
  PROVE  Progress(m)' = Progress(m)
<1>1. FreshCopy(n) \in Copy /\ FreshCopy(n).id # m
  BY DEF FreshCopy, Copy
<1>2. store' = Append(store, FreshCopy(n)) /\ UNCHANGED <<acked, history>>
  BY DEF Enqueue
<1> QED
  BY <1>1, <1>2, OthersCopy DEF Progress, history

\* Bulk traffic never touches a transactional notification, and no failure of
\* a lane's worker does: only the API's own publish and the workers of its lane
\* change what becomes of a notification (topology.go:14-16, publisher.go:67).
THEOREM LanesAreIsolated == Spec => LanesStayApart
<1>1. Init => TypeOK /\ OwnLane
  BY EmptySeq DEF Init, OwnLane, TypeOK, Copies, Handling, Steps
<1>2. TypeOK /\ OwnLane /\ [Next]_vars => TypeOK' /\ OwnLane'
  BY TypeStep, OwnLaneStep
<1>3. ASSUME TypeOK, OwnLane, [Next]_vars
      PROVE  [\A m \in Msg : Progress(m)' # Progress(m) =>
                Enqueue(m) \/ \E w \in Worker : Serves[w] = LaneOf[m] /\ StepOf(w)]_vars
  BY <1>3, OtherLane, OtherEnqueued DEF Next
<1> QED
  BY <1>1, <1>2, <1>3, PTL DEF Spec, LanesStayApart

=============================================================================
