------------------------- MODULE LanePromiseProofs -------------------------
(***************************************************************************)
(* LaneDelivery implements NotificationPromise: every step of the workers  *)
(* and the broker is a step of the promise, or changes nothing in it.      *)
(***************************************************************************)
EXTENDS LaneDeliveryProofs

\* What one more copy in the store changes for the promise.
LEMMA StoredCopy ==
  ASSUME TypeOK, NEW c \in Copy, store' = Append(store, c), UNCHANGED acked, NEW m
  PROVE  /\ Known(m)' <=> Known(m) \/ m = c.id
         /\ InLane(m)' # {} <=> InLane(m) # {} \/ (m = c.id /\ c.key # Dead)
         /\ InDead(m)' # {} <=> InDead(m) # {} \/ (m = c.id /\ c.key = Dead)
<1> DEFINE last == Len(store) + 1
<1>1. /\ Len(store) \in Nat
      /\ Len(store') = last
      /\ store'[last] = c
      /\ \A i \in Copies : store'[i] = store[i]
  BY AppendProperties, LenProperties DEF TypeOK, Copies
<1>2. Copies' = Copies \cup {last} /\ last \notin Copies /\ last \notin acked
  BY <1>1 DEF Copies, TypeOK
<1>3. Known(m)' <=> Known(m) \/ m = c.id
  BY <1>1, <1>2 DEF Known
<1>4. Pending' = Pending \cup {last}
  BY <1>2 DEF Pending
<1>5. InLane(m)' # {} <=> InLane(m) # {} \/ (m = c.id /\ c.key # Dead)
  <2>1. \A i : i \in InLane(m)' <=> i \in InLane(m) \/ (i = last /\ m = c.id /\ c.key # Dead)
    BY <1>1, <1>2, <1>4 DEF InLane, PendingOf, Pending
  <2> QED
    BY <2>1
<1>6. InDead(m)' # {} <=> InDead(m) # {} \/ (m = c.id /\ c.key = Dead)
  <2>1. \A i : i \in InDead(m)' <=> i \in InDead(m) \/ (i = last /\ m = c.id /\ c.key = Dead)
    BY <1>1, <1>2 DEF InDead
  <2> QED
    BY <2>1
<1> QED
  BY <1>3, <1>5, <1>6

known == {m \in Msg : Known(m)}
live == {m \in Msg : InLane(m) # {}}
outcome == [m \in Msg |-> OutcomesOf(m)]

\* The promise does not see steps that touch neither copies nor outcomes.
LEMMA Unseen ==
  ASSUME UNCHANGED <<store, acked, sends, dropped>>
  PROVE  UNCHANGED <<known, live, outcome>>
BY DEF known, live, outcome, Known, InLane, InDead, OutcomesOf, PendingOf, Pending, Copies

LEMMA EnqueueAccepts ==
  ASSUME TypeOK, NEW m \in Msg, Enqueue(m)
  PROVE  Promise!Accept(m)
<1>1. FreshCopy(m) \in Copy /\ FreshCopy(m).id = m /\ FreshCopy(m).key # Dead
  BY LaneAssumption DEF FreshCopy, Copy
<1>2. store' = Append(store, FreshCopy(m)) /\ UNCHANGED <<acked, history>> /\ ~Known(m)
  BY DEF Enqueue, Known
<1>3. \A n \in Msg : /\ Known(n)' <=> Known(n) \/ n = m
                     /\ InLane(n)' # {} <=> InLane(n) # {} \/ n = m
                     /\ InDead(n)' # {} <=> InDead(n) # {}
  BY <1>1, <1>2, StoredCopy
<1>4. known' = known \cup {m} /\ live' = live \cup {m} /\ m \notin known
  BY <1>2, <1>3 DEF known, live
<1>5. outcome' = outcome
  BY <1>2, <1>3 DEF outcome, OutcomesOf, history
<1> QED
  BY <1>4, <1>5 DEF Promise!Accept, known, live, outcome

\* The provider takes a notification, or handle gives it up.
LEMMA OutcomeReached ==
  ASSUME Inductive, NEW w \in Worker, Drop(w) \/ SendOk(w) \/ SendAmbiguous(w)
  PROVE  \E m \in Msg : \E o \in Promise!Outcomes(m) : Promise!Reach(m, o)
<1>1. TypeOK /\ Handling(w)
  BY DEF Inductive, Drop, SendOk, SendAmbiguous, Move, Handling, Steps
<1>m. PICK m \in Msg : m = Handled(w).id
  BY <1>1, HandledType
<1>2. m \in Msg /\ Known(m) /\ cur[w] \in Copies
  BY <1>1, <1>m, HandledType DEF Known, Handled
<1>3. UNCHANGED <<store, acked>>
  BY DEF Drop, SendOk, SendAmbiguous, brokerVars
<1>4. known' = known /\ live' = live /\ m \in known
  BY <1>2, <1>3 DEF known, live, Known, InLane, PendingOf, Pending, Copies
<1>5. \A n : InDead(n)' = InDead(n)
  BY <1>3 DEF InDead, Copies
<1>6. CASE Drop(w)
  <2>1. m \in Undeliverable /\ dropped' = dropped \cup {m} /\ sends' = sends
    BY <1>6, <1>m DEF Drop
  <2>2. outcome' = [outcome EXCEPT ![m] = @ \cup {"dropped"}]
    BY <1>2, <1>5, <2>1 DEF outcome, OutcomesOf
  <2>3. Promise!Reach(m, "dropped") /\ "dropped" \in Promise!Outcomes(m)
    BY <1>4, <2>1, <2>2 DEF Promise!Reach, Promise!Outcomes, known, live, outcome
  <2> QED
    BY <1>2, <2>3
<1>7. CASE SendOk(w) \/ SendAmbiguous(w)
  <2>1. /\ m \notin Undeliverable
        /\ dropped' = dropped
        /\ sends' = [sends EXCEPT ![m] = @ + 1]
    BY <1>7, <1>m DEF SendOk, SendAmbiguous, Move, Inductive, OnlyDeliverable
  <2>2. /\ sends'[m] > 0
        /\ \A n \in Msg : n # m => sends'[n] = sends[n]
        /\ \A n \in Msg : sends[n] \in Nat
    BY <1>1, <1>2, <2>1 DEF TypeOK
  <2>3. \A n \in Msg : n # m => OutcomesOf(n)' = OutcomesOf(n)
    BY <1>5, <2>1, <2>2 DEF OutcomesOf
  <2>4. OutcomesOf(m)' = OutcomesOf(m) \cup {"delivered"}
    BY <1>5, <2>1, <2>2 DEF OutcomesOf
  <2>5. outcome' = [outcome EXCEPT ![m] = @ \cup {"delivered"}]
    BY <1>2, <2>3, <2>4 DEF outcome
  <2>6. Promise!Reach(m, "delivered") /\ "delivered" \in Promise!Outcomes(m)
    BY <1>4, <2>1, <2>5 DEF Promise!Reach, Promise!Outcomes, known, live, outcome
  <2> QED
    BY <1>2, <2>6
<1> QED
  BY <1>6, <1>7

\* A retry or a dead letter reaches the broker.
LEMMA CopyTaken ==
  ASSUME Inductive, NEW w \in Worker, BrokerTakes(w)
  PROVE  [Promise!Next]_<<known, live, outcome>>
<1> DEFINE c == Head(wire[w])
           m == c.id
<1>1. TypeOK /\ wire[w] \in Seq(Copy) /\ wire[w] # <<>>
  BY DEF Inductive, TypeOK, BrokerTakes
<1>2. c \in Copy /\ c = wire[w][1] /\ 1 \in 1 .. Len(wire[w])
  BY <1>1, HeadTailProperties, EmptySeq, LenProperties
<1>3. Known(m) /\ m \notin Undeliverable /\ m \in Msg
  BY <1>2 DEF Inductive, OnlyDeliverable, Copy
<1>4. store' = Append(store, c) /\ UNCHANGED <<acked, sends, dropped>>
  BY DEF BrokerTakes, history
<1>5. \A n \in Msg : /\ Known(n)' <=> Known(n)
                     /\ InLane(n)' # {} <=> InLane(n) # {} \/ (n = m /\ c.key # Dead)
                     /\ InDead(n)' # {} <=> InDead(n) # {} \/ (n = m /\ c.key = Dead)
  BY <1>1, <1>2, <1>3, <1>4, StoredCopy
<1>6. known' = known /\ m \in known
  BY <1>3, <1>5 DEF known
<1>7. CASE c.key = Dead
  <2>1. live' = live
    BY <1>5, <1>7 DEF live
  <2>2. outcome' = [outcome EXCEPT ![m] = @ \cup {"dead"}]
    BY <1>3, <1>4, <1>5, <1>7 DEF outcome, OutcomesOf
  <2>3. Promise!Reach(m, "dead") /\ "dead" \in Promise!Outcomes(m)
    BY <1>3, <1>6, <2>1, <2>2 DEF Promise!Reach, Promise!Outcomes, known, live, outcome
  <2> QED
    BY <1>3, <2>3 DEF Promise!Next
<1>8. CASE c.key # Dead
  <2>1. live' = live \cup {m} /\ outcome' = outcome
    BY <1>3, <1>4, <1>5, <1>8 DEF live, outcome, OutcomesOf
  <2>2. CASE m \in live
    BY <1>6, <2>1, <2>2
  <2>3. CASE m \notin live
    <3>1. PICK i \in Copies : store[i].id = m
      BY <1>3 DEF Known
    <3>2. Resolved(m) \/ PendingOf(m) # {}
      BY <3>1 DEF Inductive, NeverLost
    <3>3. InLane(m) = {}
      BY <1>3, <2>3 DEF live
    <3>4. Resolved(m) \/ InDead(m) # {}
      BY <3>2, <3>3 DEF InLane, InDead, PendingOf, Pending
    <3>5. outcome[m] # {}
      BY <1>3, <3>4 DEF outcome, OutcomesOf, Resolved
    <3>6. Promise!Resurface(m)
      BY <1>6, <2>1, <2>3, <3>5 DEF Promise!Resurface, known, live, outcome
    <3> QED
      BY <1>3, <3>6 DEF Promise!Next
  <2> QED
    BY <2>2, <2>3
<1> QED
  BY <1>7, <1>8

\* An acknowledgement removes the last copy from the lane only after an
\* outcome.
LEMMA CopyAcked ==
  ASSUME Inductive, NEW w \in Worker, Ack(w)
  PROVE  [Promise!Next]_<<known, live, outcome>>
<1>1. TypeOK /\ Handling(w) /\ pc[w] = "settle"
  BY DEF Inductive, Ack, Settle, Move, Handling, Steps
<1>m. PICK m \in Msg : m = Handled(w).id
  BY <1>1, HandledType
<1>2. cur[w] \in Copies /\ m = store[cur[w]].id
  BY <1>1, <1>m, HandledType DEF Handled
<1>3. /\ UNCHANGED <<store, sends, dropped>>
      /\ acked' = acked \/ acked' = acked \cup {cur[w]}
  BY DEF Ack, Settle, history
<1>4. \A n : InLane(n)' = InLane(n) \/ InLane(n)' = InLane(n) \ {cur[w]}
  BY <1>3 DEF InLane, PendingOf, Pending, Copies
<1>5. \A n : n # m => InLane(n)' = InLane(n)
  BY <1>2, <1>3 DEF InLane, PendingOf, Pending, Copies
<1>6. known' = known /\ outcome' = outcome
  BY <1>3 DEF known, outcome, Known, OutcomesOf, InDead, Copies
<1>7. CASE InLane(m)' # {} \/ InLane(m) = {}
  <2>1. InLane(m)' # {} <=> InLane(m) # {}
    BY <1>4, <1>7
  <2>2. live' = live
    BY <1>5, <2>1 DEF live
  <2> QED
    BY <1>6, <2>2
<1>8. CASE InLane(m)' = {} /\ InLane(m) # {}
  <2>1. live' = live \ {m} /\ m \in live
    BY <1>2, <1>5, <1>8 DEF live
  <2>2. Resolved(m) \/ InDead(m) # {}
    <3>1. Resolved(m) \/ \E j \in PendingOf(m) : j > cur[w]
      BY <1>1, <1>m DEF Inductive, SettleSafe, Superseded
    <3>2. ASSUME NEW j \in PendingOf(m), j > cur[w] PROVE InDead(m) # {}
      <4>1. j # cur[w]
        BY <1>2, <3>2 DEF PendingOf, Pending, Copies
      <4>2. j \notin InLane(m)
        BY <1>4, <1>8, <4>1
      <4> QED
        BY <4>2 DEF InLane, InDead, PendingOf, Pending
    <3> QED
      BY <3>1, <3>2
  <2>3. outcome[m] # {}
    BY <1>2, <2>2 DEF outcome, OutcomesOf, Resolved
  <2>4. Promise!Retire(m)
    BY <1>6, <2>1, <2>3 DEF Promise!Retire, known, live, outcome
  <2> QED
    BY <1>2, <2>4 DEF Promise!Next
<1> QED
  BY <1>7, <1>8

LEMMA PromiseStep ==
  ASSUME Inductive, [Next]_vars
  PROVE  [Promise!Next]_<<known, live, outcome>>
<1>1. ASSUME NEW m \in Msg, Enqueue(m) PROVE Promise!Next
  BY <1>1, EnqueueAccepts DEF Inductive, Promise!Next
<1>2. ASSUME NEW w \in Worker, Drop(w) \/ SendOk(w) \/ SendAmbiguous(w) PROVE Promise!Next
  BY <1>2, OutcomeReached DEF Promise!Next
<1>3. ASSUME NEW w \in Worker, StepOf(w),
             ~(Drop(w) \/ SendOk(w) \/ SendAmbiguous(w) \/ BrokerTakes(w) \/ Ack(w))
      PROVE  UNCHANGED <<store, acked, sends, dropped>>
  <2>1. CASE Start(w) \/ Deliver(w) \/ BrokerRefuses(w)
    BY <2>1 DEF Start, Deliver, BrokerRefuses, brokerVars, history
  <2>2. CASE Run(w)
    BY <1>3, <2>2 DEF Run, Handle, Take, PassLimiter, LimiterCancelled, SendFails, Retry,
                DeadLetter, Publish, Confirmed, ConfirmNacked, ConfirmAbandoned, Nack, Settle,
                RunReturns, RunDrained, brokerVars, history
  <2>3. CASE Shutdown(w) \/ Fail(w)
    BY <2>3 DEF Shutdown, Fail, ClosePublisher, CloseConsumer, Exit, Crash, Vanish, Signal,
                LosePublisherConn, LoseConsumerConn, brokerVars, history
  <2> QED
    BY <1>3, <2>1, <2>2, <2>3 DEF StepOf
<1>4. CASE UNCHANGED vars
  BY <1>4, Unseen DEF vars, brokerVars, history
<1> QED
  BY <1>1, <1>2, <1>3, <1>4, Unseen, CopyTaken, CopyAcked DEF Next, StepOf

\* Retries, dead letters, redeliveries, shutdowns and failures together keep
\* the promise: the last copy of a notification leaves its lane only after an
\* outcome (consumer.go:74-119).
THEOREM LaneKeepsPromise == Spec => KeepsPromise
<1>1. Init => Promise!Init
  BY EmptySeq DEF Init, Promise!Init, Known, InLane, InDead, OutcomesOf, PendingOf, Pending, Copies
<1>2. Inductive /\ [Next]_vars => [Promise!Next]_(Promise!promiseVars)
  BY PromiseStep DEF Promise!promiseVars, known, live, outcome
<1> QED
  BY <1>1, <1>2, InductiveInvariant, PTL DEF Spec, KeepsPromise, Promise!Spec

=============================================================================
