---------------------------- MODULE LaneDelivery ----------------------------
(***************************************************************************)
(* Delivery of queued notifications by the worker processes.               *)
(*                                                                         *)
(* One worker process serves one lane (cmd/worker/main.go).  It consumes   *)
(* the queue of its lane on one connection and publishes retries and dead  *)
(* letters on another.  Consumer.handle processes one delivery at a time   *)
(* and settles it: acknowledge, retry as a new message, dead-letter, or    *)
(* requeue.  The module holds the broker's queues, every worker's handler, *)
(* its main goroutine's shutdown, and the failures of processes and        *)
(* connections, so that the at-least-once argument of the code can be      *)
(* checked across all of them.                                             *)
(***************************************************************************)
EXTENDS Integers, Sequences, FiniteSets

CONSTANTS
  Msg,            \* notifications, by identifier
  Lane,           \* the routing keys "<type>.<priority>", and their queues
  Dead,           \* the routing key of the dead-letter queue
  Worker,         \* worker processes
  LaneOf,         \* the lane of each notification: its type and priority
  Serves,         \* the lane each worker consumes: WORKER_TYPE, WORKER_PRIORITY
  Undeliverable,  \* notifications whose processing fails for good
  MaxRetries,     \* WORKER_MAX_RETRIES; config.go does not check its range
  Prefetch,       \* WORKER_PREFETCH; 0 means no limit
  MaxFaults       \* bound on the failures, signals and late picks of a behaviour

ASSUME LaneAssumption ==
  /\ Dead \notin Lane
  /\ LaneOf \in [Msg -> Lane]
  /\ Serves \in [Worker -> Lane]
  /\ Undeliverable \subseteq Msg

ASSUME LimitAssumption ==
  /\ MaxRetries \in Int
  /\ Prefetch \in Nat
  /\ MaxFaults \in Nat

VARIABLES
  \* the broker
  store,    \* every copy it ever accepted, oldest first: the order of its queues
  acked,    \* positions of the copies acknowledged, hence gone
  held,     \* per worker: positions delivered to it and not yet settled
  \* a worker's consumer goroutine and the channels that feed it
  inbox,    \* positions received but not yet picked by Consumer.Run
  cur,      \* position of the delivery being handled, 0 if none
  pc,       \* where Consumer.Run and Consumer.handle are
  \* a worker's main goroutine and its two connections
  main, pubUp, consUp,
  \* a worker's publisher
  wire,     \* publishes written to the socket that the broker has not read
  conf,     \* the deferred confirm the handler waits for
  \* history, for the properties
  sends,    \* how often the provider took each notification
  tries,    \* Sender.Send calls per notification, counted to MaxRetries + 1
  cuts,     \* attempts ended by a cancelled limiter wait, before any Send
  dropped,  \* notifications given up as permanent failures
  faults

brokerVars  == <<store, acked, held>>
handlerVars == <<inbox, cur, pc>>
procVars    == <<main, pubUp, consUp>>
pubVars     == <<wire, conf>>
history     == <<sends, tries, cuts, dropped>>
vars == <<brokerVars, handlerVars, procVars, pubVars, history, faults>>

(***************************************************************************)
(* The broker's copies                                                     *)
(***************************************************************************)
Copy == [id : Msg, key : Lane \cup {Dead}, retry : Nat]

Copies  == 1 .. Len(store)
Pending == Copies \ acked

\* notification.NewMessage as the API publishes it: retry count zero.
FreshCopy(m) == [id |-> m, key |-> LaneOf[m], retry |-> 0]

\* Mutant: a worker consumes any lane's queue.
ReadyAnywhere(l) ==
  {i \in Pending : store[i].key # Dead /\ \A w \in Worker : i \notin held[w]}

\* Copies in the queue of lane l that no consumer holds.
Ready(l) == {i \in Pending : store[i].key = l /\ \A w \in Worker : i \notin held[w]}

\* A requeued delivery goes back to its place, so the head is the oldest.
IsHead(i, l) == i \in Ready(l) /\ \A j \in Ready(l) : i <= j

\* The message being handled, as decoded from the delivery's body.
Handled(w) == store[cur[w]]

Fault == faults < MaxFaults /\ faults' = faults + 1

\* The context of the worker is cancelled as soon as main leaves its select.
Cancelled(w) == main[w] # "serving"

Move(w, from, to) == pc[w] = from /\ pc' = [pc EXCEPT ![w] = to]

(***************************************************************************)
(* Init                                                                    *)
(***************************************************************************)
Init ==
  /\ store = <<>>
  /\ acked = {}
  /\ held    = [w \in Worker |-> {}]
  /\ inbox   = [w \in Worker |-> <<>>]
  /\ cur     = [w \in Worker |-> 0]
  /\ pc      = [w \in Worker |-> "off"]
  /\ main    = [w \in Worker |-> "off"]
  /\ pubUp   = [w \in Worker |-> FALSE]
  /\ consUp  = [w \in Worker |-> FALSE]
  /\ wire    = [w \in Worker |-> <<>>]
  /\ conf    = [w \in Worker |-> "none"]
  /\ sends   = [m \in Msg |-> 0]
  /\ tries   = [m \in Msg |-> 0]
  /\ cuts    = [m \in Msg |-> 0]
  /\ dropped = {}
  /\ faults  = 0

(***************************************************************************)
(* The API publishes a notification to its lane, and the broker stores it. *)
(***************************************************************************)
Enqueue(m) ==
  /\ \A i \in Copies : store[i].id # m
  /\ store' = Append(store, FreshCopy(m))
  /\ UNCHANGED <<acked, held, handlerVars, procVars, pubVars, history, faults>>

(***************************************************************************)
(* A process starts: both connections, the topology, the consumer.  What   *)
(* an earlier process left on the wire and the broker never read is gone.  *)
(***************************************************************************)
Start(w) ==
  /\ main[w] = "off"
  /\ main'   = [main EXCEPT ![w] = "serving"]
  /\ Move(w, "off", "select")
  /\ pubUp'  = [pubUp EXCEPT ![w] = TRUE]
  /\ consUp' = [consUp EXCEPT ![w] = TRUE]
  /\ wire'   = [wire EXCEPT ![w] = <<>>]
  /\ UNCHANGED <<brokerVars, inbox, cur, conf, history, faults>>

(***************************************************************************)
(* Consuming                                                               *)
(***************************************************************************)
\* The broker pushes the head of the lane while the prefetch limit allows.
Deliver(w) ==
  /\ consUp[w]
  /\ Prefetch = 0 \/ Cardinality(held[w]) < Prefetch
  /\ \E i \in Copies :
       /\ IsHead(i, Serves[w])
       /\ held'  = [held EXCEPT ![w] = @ \cup {i}]
       /\ inbox' = [inbox EXCEPT ![w] = Append(@, i)]
  /\ UNCHANGED <<store, acked, cur, pc, procVars, pubVars, history, faults>>

\* Run picks a delivery.  Once the context is cancelled the select may still
\* pick one instead of returning; each such late pick counts as a fault.
Take(w) ==
  /\ Move(w, "select", "process")
  /\ inbox[w] # <<>>
  /\ IF Cancelled(w) THEN Fault ELSE UNCHANGED faults
  /\ cur'   = [cur EXCEPT ![w] = Head(inbox[w])]
  /\ inbox' = [inbox EXCEPT ![w] = Tail(@)]
  /\ UNCHANGED <<brokerVars, procVars, pubVars, history>>

(***************************************************************************)
(* Processing                                                              *)
(***************************************************************************)
\* Mutant: a permanent failure is requeued.
DropRequeues(w) ==
  /\ Move(w, "process", "nack")
  /\ Handled(w).id \in Undeliverable
  /\ UNCHANGED <<brokerVars, inbox, cur, procVars, pubVars, history, faults>>

\* Rendering, the recipient or the message is rejected for good: acknowledge.
Drop(w) ==
  /\ Move(w, "process", "settle")
  /\ Handled(w).id \in Undeliverable
  /\ dropped' = dropped \cup {Handled(w).id}
  /\ UNCHANGED <<brokerVars, inbox, cur, procVars, pubVars, sends, tries, cuts, faults>>

\* limiter.Wait grants a token ...
PassLimiter(w) ==
  /\ Move(w, "process", "send")
  /\ Handled(w).id \notin Undeliverable
  /\ ~Cancelled(w)
  /\ UNCHANGED <<brokerVars, inbox, cur, procVars, pubVars, history, faults>>

\* ... or returns the error of the cancelled context, a transient failure.
LimiterCancelled(w) ==
  /\ Move(w, "process", "failed")
  /\ Handled(w).id \notin Undeliverable
  /\ Cancelled(w)
  /\ cuts' = [cuts EXCEPT ![Handled(w).id] = @ + 1]
  /\ UNCHANGED <<brokerVars, inbox, cur, procVars, pubVars, sends, tries, dropped, faults>>

CountTry(m) == tries' = [tries EXCEPT ![m] = IF @ <= MaxRetries THEN @ + 1 ELSE @]

\* Mutant: Nack(true) where Ack is meant.
SendOkRequeues(w) ==
  /\ Move(w, "send", "nack")
  /\ CountTry(Handled(w).id)
  /\ sends' = [sends EXCEPT ![Handled(w).id] = @ + 1]
  /\ UNCHANGED <<brokerVars, inbox, cur, procVars, pubVars, cuts, dropped, faults>>

SendOk(w) ==
  /\ Move(w, "send", "settle")
  /\ CountTry(Handled(w).id)
  /\ sends' = [sends EXCEPT ![Handled(w).id] = @ + 1]
  /\ UNCHANGED <<brokerVars, inbox, cur, procVars, pubVars, cuts, dropped, faults>>

SendFails(w) ==
  /\ Move(w, "send", "failed")
  /\ CountTry(Handled(w).id)
  /\ UNCHANGED <<brokerVars, inbox, cur, procVars, pubVars, sends, cuts, dropped, faults>>

\* The provider takes the notification, but Send returns an error.
SendAmbiguous(w) ==
  /\ Move(w, "send", "failed")
  /\ Fault
  /\ CountTry(Handled(w).id)
  /\ sends' = [sends EXCEPT ![Handled(w).id] = @ + 1]
  /\ UNCHANGED <<brokerVars, inbox, cur, procVars, pubVars, cuts, dropped>>

(***************************************************************************)
(* Retry and dead letter: publish a copy, then wait for its confirm.       *)
(***************************************************************************)
\* Mutant: the first attempt counts as a retry.
CanRetryOneLess(c) == c.retry + 1 < MaxRetries

CanRetry(c) == c.retry < MaxRetries

RetryCopy(c) == [c EXCEPT !.retry = @ + 1]
DeadCopy(c)  == [c EXCEPT !.key = Dead]

\* Mutant: the copy is written and the delivery acknowledged, unconfirmed.
PublishAndForget(w, c) ==
  /\ IF pubUp[w]
       THEN /\ wire' = [wire EXCEPT ![w] = Append(@, c)]
            /\ pc'   = [pc EXCEPT ![w] = "settle"]
            /\ UNCHANGED conf
       ELSE /\ pc'   = [pc EXCEPT ![w] = "nack"]
            /\ UNCHANGED pubVars
  /\ UNCHANGED <<brokerVars, inbox, cur, procVars, history, faults>>

\* publisher.publish on the worker's own channel: an error if it is closed.
\* A cancelled context does not keep the frame from being written.
Publish(w, c) ==
  /\ IF pubUp[w]
       THEN /\ wire' = [wire EXCEPT ![w] = Append(@, c)]
            /\ conf' = [conf EXCEPT ![w] = "pending"]
            /\ pc'   = [pc EXCEPT ![w] = "confirm"]
       ELSE /\ pc'   = [pc EXCEPT ![w] = "nack"]
            /\ UNCHANGED pubVars
  /\ UNCHANGED <<brokerVars, inbox, cur, procVars, history, faults>>

Retry(w) ==
  /\ pc[w] = "failed"
  /\ CanRetry(Handled(w))
  /\ Publish(w, RetryCopy(Handled(w)))

\* Mutant: nothing is dead-lettered, an exhausted delivery is requeued.
DeadLetterRequeues(w) ==
  /\ Move(w, "failed", "nack")
  /\ ~CanRetry(Handled(w))
  /\ UNCHANGED <<brokerVars, inbox, cur, procVars, pubVars, history, faults>>

DeadLetter(w) ==
  /\ pc[w] = "failed"
  /\ ~CanRetry(Handled(w))
  /\ Publish(w, DeadCopy(Handled(w)))

\* Mutant: the old delivery is requeued although its retry is confirmed.
ConfirmedRequeues(w) ==
  /\ Move(w, "confirm", "nack")
  /\ conf[w] = "ack"
  /\ conf' = [conf EXCEPT ![w] = "none"]
  /\ UNCHANGED <<brokerVars, inbox, cur, procVars, wire, history, faults>>

Confirmed(w) ==
  /\ Move(w, "confirm", "settle")
  /\ conf[w] = "ack"
  /\ conf' = [conf EXCEPT ![w] = "none"]
  /\ UNCHANGED <<brokerVars, inbox, cur, procVars, wire, history, faults>>

\* Mutant: the result of the wait is not looked at.
ConfirmUnchecked(w) ==
  /\ Move(w, "confirm", "settle")
  /\ conf[w] = "nack"
  /\ conf' = [conf EXCEPT ![w] = "none"]
  /\ UNCHANGED <<brokerVars, inbox, cur, procVars, wire, history, faults>>

ConfirmNacked(w) ==
  /\ Move(w, "confirm", "nack")
  /\ conf[w] = "nack"
  /\ conf' = [conf EXCEPT ![w] = "none"]
  /\ UNCHANGED <<brokerVars, inbox, cur, procVars, wire, history, faults>>

\* Mutant: a timeout is taken for success.
AbandonedIsSuccess(w) ==
  /\ Move(w, "confirm", "settle")
  /\ IF Cancelled(w) THEN UNCHANGED faults ELSE Fault
  /\ conf' = [conf EXCEPT ![w] = "none"]
  /\ UNCHANGED <<brokerVars, inbox, cur, procVars, wire, history>>

\* WaitContext gives up: the context is cancelled, or the publish timeout
\* passes (a fault).  The confirm may be on its way, or there already.
ConfirmAbandoned(w) ==
  /\ Move(w, "confirm", "nack")
  /\ IF Cancelled(w) THEN UNCHANGED faults ELSE Fault
  /\ conf' = [conf EXCEPT ![w] = "none"]
  /\ UNCHANGED <<brokerVars, inbox, cur, procVars, wire, history>>

(***************************************************************************)
(* The broker reads publishes in the order they were written.  The confirm *)
(* goes to the handler if it still waits for this one, the last written.   *)
(***************************************************************************)
Answer(w, a) ==
  conf' = [conf EXCEPT ![w] = IF @ = "pending" /\ Len(wire[w]) = 1 THEN a ELSE @]

BrokerTakes(w) ==
  /\ wire[w] # <<>>
  /\ store' = Append(store, Head(wire[w]))
  /\ wire'  = [wire EXCEPT ![w] = Tail(@)]
  /\ Answer(w, "ack")
  /\ UNCHANGED <<acked, held, handlerVars, procVars, history, faults>>

\* A negative confirm, or a frame lost with its connection.
BrokerRefuses(w) ==
  /\ wire[w] # <<>>
  /\ Fault
  /\ wire' = [wire EXCEPT ![w] = Tail(@)]
  /\ Answer(w, "nack")
  /\ UNCHANGED <<brokerVars, handlerVars, procVars, history>>

(***************************************************************************)
(* Settling.  The handler ignores the errors of Ack and Nack: on a lost    *)
(* consumer connection they do nothing.                                    *)
(***************************************************************************)
Settle(w, from) ==
  /\ Move(w, from, "select")
  /\ cur'  = [cur EXCEPT ![w] = 0]
  /\ held' = [held EXCEPT ![w] = @ \ {cur[w]}]
  /\ UNCHANGED <<store, inbox, procVars, pubVars, history, faults>>

Ack(w) ==
  /\ Settle(w, "settle")
  /\ acked' = IF consUp[w] THEN acked \cup {cur[w]} ELSE acked

Nack(w) ==
  /\ Settle(w, "nack")
  /\ UNCHANGED acked

(***************************************************************************)
(* Shutdown: main cancels the context and closes the publisher connection, *)
(* then the consumer connection, and exits without waiting for the handler.*)
(***************************************************************************)
\* Run sees the cancelled context.
RunReturns(w) ==
  /\ Move(w, "select", "returned")
  /\ Cancelled(w)
  /\ UNCHANGED <<brokerVars, inbox, cur, procVars, pubVars, history, faults>>

\* Mutant: main does not select on the result of Run.
RunDrainedUnseen(w) ==
  /\ Move(w, "select", "returned")
  /\ main[w] = "serving"
  /\ ~consUp[w] /\ inbox[w] = <<>>
  /\ UNCHANGED <<brokerVars, inbox, cur, procVars, pubVars, history, faults>>

\* Run sees the closed delivery channel, and main its result.
RunDrained(w) ==
  /\ Move(w, "select", "returned")
  /\ main[w] = "serving"
  /\ ~consUp[w] /\ inbox[w] = <<>>
  /\ main' = [main EXCEPT ![w] = "stopping"]
  /\ UNCHANGED <<brokerVars, inbox, cur, pubUp, consUp, pubVars, history, faults>>

Signal(w) ==
  /\ main[w] = "serving"
  /\ Fault
  /\ main' = [main EXCEPT ![w] = "stopping"]
  /\ UNCHANGED <<brokerVars, handlerVars, pubUp, consUp, pubVars, history>>

\* A channel that closes turns every open confirm into a nack.
DropPublisherConn(w) ==
  /\ pubUp' = [pubUp EXCEPT ![w] = FALSE]
  /\ conf'  = [conf EXCEPT ![w] = IF @ = "none" THEN "none" ELSE "nack"]

\* The broker requeues what the channel held.  Deliveries in the library's
\* buffer vanish; the (at most two) that the forwarding goroutines of Consume
\* and adapt have in hand still reach Run.  Both ends see the loss at once: a
\* broker that gave up a silent client earlier would leave the buffer stale too.
DropConsumerConn(w) ==
  /\ consUp' = [consUp EXCEPT ![w] = FALSE]
  /\ held'   = [held EXCEPT ![w] = {}]
  /\ \E k \in {n \in 0 .. 2 : n <= Len(inbox[w])} :
       inbox' = [inbox EXCEPT ![w] = SubSeq(@, 1, k)]

ClosePublisher(w) ==
  /\ main[w] = "stopping"
  /\ main' = [main EXCEPT ![w] = "pubClosed"]
  /\ DropPublisherConn(w)
  /\ UNCHANGED <<brokerVars, handlerVars, consUp, wire, history, faults>>

CloseConsumer(w) ==
  /\ main[w] = "pubClosed"
  /\ main' = [main EXCEPT ![w] = "consClosed"]
  /\ DropConsumerConn(w)
  /\ UNCHANGED <<store, acked, cur, pc, pubUp, pubVars, history, faults>>

\* The process is gone, its handler wherever it was.
Vanish(w) ==
  /\ main'   = [main EXCEPT ![w] = "off"]
  /\ pc'     = [pc EXCEPT ![w] = "off"]
  /\ cur'    = [cur EXCEPT ![w] = 0]
  /\ inbox'  = [inbox EXCEPT ![w] = <<>>]
  /\ held'   = [held EXCEPT ![w] = {}]
  /\ conf'   = [conf EXCEPT ![w] = "none"]
  /\ pubUp'  = [pubUp EXCEPT ![w] = FALSE]
  /\ consUp' = [consUp EXCEPT ![w] = FALSE]
  /\ UNCHANGED <<store, acked, wire, history>>

Exit(w) ==
  /\ main[w] = "consClosed"
  /\ Vanish(w)
  /\ UNCHANGED faults

(***************************************************************************)
(* Failures                                                                *)
(***************************************************************************)
Crash(w) ==
  /\ main[w] # "off"
  /\ Fault
  /\ Vanish(w)

LosePublisherConn(w) ==
  /\ pubUp[w]
  /\ Fault
  /\ DropPublisherConn(w)
  /\ UNCHANGED <<brokerVars, handlerVars, main, consUp, wire, history>>

LoseConsumerConn(w) ==
  /\ consUp[w]
  /\ Fault
  /\ DropConsumerConn(w)
  /\ UNCHANGED <<store, acked, cur, pc, main, pubUp, pubVars, history>>

(***************************************************************************)
(* The specification                                                       *)
(***************************************************************************)
\* Consumer.handle and the calls it makes, once a delivery is picked.
Handle(w) ==
  \/ Drop(w) \/ PassLimiter(w) \/ LimiterCancelled(w)
  \/ SendOk(w) \/ SendFails(w) \/ SendAmbiguous(w)
  \/ Retry(w) \/ DeadLetter(w)
  \/ Confirmed(w) \/ ConfirmNacked(w) \/ ConfirmAbandoned(w)
  \/ Ack(w) \/ Nack(w)

Run(w) == Take(w) \/ Handle(w) \/ RunReturns(w) \/ RunDrained(w)

Shutdown(w) == ClosePublisher(w) \/ CloseConsumer(w) \/ Exit(w)

Fail(w) == Signal(w) \/ Crash(w) \/ LosePublisherConn(w) \/ LoseConsumerConn(w)

\* A step of worker w, or of the broker on one of its connections.
StepOf(w) ==
  \/ Start(w) \/ Deliver(w) \/ BrokerTakes(w) \/ BrokerRefuses(w)
  \/ Run(w) \/ Shutdown(w) \/ Fail(w)

Next ==
  \/ \E m \in Msg : Enqueue(m)
  \/ \E w \in Worker : StepOf(w)

Spec == Init /\ [][Next]_vars

\* Go schedules every runnable goroutine, calls return, the supervisor starts
\* a stopped worker again (restart: unless-stopped), and the broker delivers
\* and reads.  Nothing promises that a provider ever accepts.
WorkerFairness(w) ==
  /\ WF_vars(Start(w)) /\ WF_vars(Deliver(w)) /\ WF_vars(BrokerTakes(w))
  /\ WF_vars(Run(w)) /\ WF_vars(Shutdown(w))

FairSpec == Spec /\ \A w \in Worker : WorkerFairness(w)

(***************************************************************************)
(* Type invariant                                                          *)
(***************************************************************************)
Steps == {"off", "select", "process", "send", "failed", "confirm", "settle",
          "nack", "returned"}

Handling(w) == pc[w] \in Steps \ {"off", "select", "returned"}

\* Every variable has its type.  The positions a worker holds, is about to
\* pick or handles are copies the broker did accept.
TypeOK ==
  /\ store \in Seq(Copy)
  /\ acked \subseteq Copies
  /\ held \in [Worker -> SUBSET Copies]
  /\ inbox \in [Worker -> Seq(Copies)]
  /\ cur \in [Worker -> Nat]
  /\ \A w \in Worker : Handling(w) => cur[w] \in Copies
  /\ pc \in [Worker -> Steps]
  /\ main \in [Worker -> {"off", "serving", "stopping", "pubClosed", "consClosed"}]
  /\ pubUp \in [Worker -> BOOLEAN]
  /\ consUp \in [Worker -> BOOLEAN]
  /\ wire \in [Worker -> Seq(Copy)]
  /\ conf \in [Worker -> {"none", "pending", "ack", "nack"}]
  /\ sends \in [Msg -> Nat]
  /\ tries \in [Msg -> Nat]
  /\ cuts \in [Msg -> Nat]
  /\ dropped \subseteq Msg
  /\ faults \in Nat

(***************************************************************************)
(* No notification is lost                                                 *)
(***************************************************************************)
Known(m)      == \E i \in Copies : store[i].id = m
PendingOf(m)  == {i \in Pending : store[i].id = m}
InLane(m)     == {i \in PendingOf(m) : store[i].key # Dead}
InDead(m)     == {i \in Copies : store[i].id = m /\ store[i].key = Dead}

\* The provider took it, or it was given up as a permanent failure.
Resolved(m) == sends[m] > 0 \/ m \in dropped

\* "A message is never dropped on a broker hiccup" (README.md): whatever
\* crashes, closes or times out, a notification the broker accepted is
\* resolved or still in a queue.  handle acknowledges the old copy only once
\* the new one is confirmed (consumer.go:100-108, 111-117).
NeverLost == \A i \in Copies : Resolved(store[i].id) \/ PendingOf(store[i].id) # {}

\* As many attempts were made as copy c stands for.
PaidFor(c) ==
  tries[c.id] + cuts[c.id] >= IF c.key = Dead THEN MaxRetries + 1 ELSE c.retry

\* The dead-letter queue holds only what used up its retries, each of which
\* was paid for by an attempt: a Sender.Send call, or a limiter wait that the
\* shutdown cut short (consumer.go:99-117 with email_processor.go:45-51).
DeadLettersPaidFor == \A i \in Copies : PaidFor(store[i])

\* What NeverLost needs to be inductive: when handle is about to acknowledge,
\* or holds a positive confirm, its notification is resolved or a later copy
\* is pending.  Later, not merely other: two workers that acknowledge two
\* copies of one notification cannot then each rely on the other's.
Superseded(w) ==
  \/ Resolved(Handled(w).id)
  \/ \E j \in PendingOf(Handled(w).id) : j > cur[w]

SettleSafe ==
  \A w \in Worker :
    pc[w] = "settle" \/ (pc[w] = "confirm" /\ conf[w] = "ack") => Superseded(w)

\* The confirm a handler waits for is that of its own notification, written
\* last: what earlier calls abandoned on the wire cannot answer for it.
ConfirmOwn ==
  \A w \in Worker :
    /\ conf[w] # "none" => pc[w] = "confirm"
    /\ conf[w] = "pending" =>
         wire[w] # <<>> /\ wire[w][Len(wire[w])].id = Handled(w).id

\* Copies still on the wire are paid for, and a failed attempt has paid for
\* the copy it is about to publish.
AttemptsPaid ==
  \A w \in Worker :
    /\ \A k \in 1 .. Len(wire[w]) : PaidFor(wire[w][k])
    /\ pc[w] = "failed" =>
         PaidFor(IF CanRetry(Handled(w)) THEN RetryCopy(Handled(w)) ELSE DeadCopy(Handled(w)))

\* Only what can be delivered is sent and published again: a notification that
\* fails for good never reaches the provider, a retry or the dead letters.
OnlyDeliverable ==
  \A w \in Worker :
    /\ pc[w] \in {"send", "failed"} => Handled(w).id \notin Undeliverable
    /\ \A k \in 1 .. Len(wire[w]) :
         Known(wire[w][k].id) /\ wire[w][k].id \notin Undeliverable

\* The inductive invariant behind NeverLost and DeadLettersPaidFor: settling
\* rests on a later copy, a confirm on the handler's own publish, and every
\* copy on attempts made (consumer.go:99-117, publisher.go:91-116).
Inductive ==
  /\ TypeOK
  /\ NeverLost /\ SettleSafe /\ ConfirmOwn
  /\ DeadLettersPaidFor /\ AttemptsPaid
  /\ OnlyDeliverable

\* While nothing fails, nothing is delivered twice, or delivered and also
\* dead-lettered; and a second copy exists only between the confirm of the
\* retry and the acknowledgement of the old copy (consumer.go:101-108).
ExactlyOnceUnlessFault ==
  faults = 0 =>
    \A m \in Msg :
      /\ sends[m] + Cardinality(InDead(m)) <= 1
      /\ \A i, j \in InLane(m) :
           i < j => \E w \in Worker : cur[w] = i /\ pc[w] \in {"confirm", "settle"}

\* Deliveries a worker may still handle after the broker requeued them: the
\* one in hand and two in the forwarding goroutines, within the prefetch.  That
\* the buffer adds none is DropConsumerConn's assumption.
MostStale == IF Prefetch \in {1, 2} THEN Prefetch ELSE 3

\* Duplicates are bounded by what went wrong: each failure, signal or late
\* pick opens the way for at most MostStale more deliveries or dead letters
\* of a notification (consumer.go:100-108, rabbitmq/consumer.go:38-44).
DuplicatesBounded ==
  \A m \in Msg : sends[m] + Cardinality(InDead(m)) <= 1 + MostStale * faults

(***************************************************************************)
(* What DuplicatesBounded rests on                                         *)
(***************************************************************************)
\* What the broker says worker w holds, and what w has in hand: deliveries are
\* distinct, their copies still in the lane; a worker that lost its consumer
\* connection holds nothing, whatever it has in hand.
InHand(w) ==
  /\ main[w] = "off" <=> pc[w] = "off"
  /\ main[w] = "off" => inbox[w] = <<>> /\ ~consUp[w]
  /\ ~consUp[w] => held[w] = {}
  /\ Prefetch = 0 \/ Cardinality(held[w]) <= Prefetch
  /\ \A i \in held[w] : i \in Pending /\ store[i].key # Dead
  /\ \A a, b \in DOMAIN inbox[w] : inbox[w][a] = inbox[w][b] => a = b
  /\ Handling(w) => \A a \in DOMAIN inbox[w] : inbox[w][a] # cur[w]
  /\ consUp[w] => /\ \A a \in DOMAIN inbox[w] : inbox[w][a] \in held[w]
                  /\ Handling(w) => cur[w] \in held[w]

\* No copy is delivered to two workers.
Deliveries ==
  /\ \A w \in Worker : InHand(w)
  /\ \A v, w \in Worker : v # w => held[v] \cap held[w] = {}

\* A handler at work on its delivery, before a provider or the wire has it.
Working(w) == pc[w] \in {"process", "send", "failed"}

\* A worker that goes on serving sees to copy i: unless something fails, it
\* acknowledges i and nobody handles it again.
SeesTo(w, i) ==
  /\ main[w] = "serving" /\ i \in held[w] /\ cur[w] = i
  /\ \/ Working(w) \/ pc[w] = "settle"
     \/ pc[w] = "confirm" /\ conf[w] \in {"pending", "ack"}

\* Deliveries that vanished from the broker's side but will still be picked.
Stale(w) ==
  IF main[w] = "serving" /\ ~consUp[w] THEN {inbox[w][a] : a \in DOMAIN inbox[w]} ELSE {}

\* The dead letters of notification m, and what may yet end in a delivery or a
\* dead letter without a further fault: copies in the lane that nobody sees to,
\* handlers at work, stale deliveries, and publishes on the wire.
CopyClaims(m)     == InDead(m) \cup {i \in InLane(m) : \A w \in Worker : ~SeesTo(w, i)}
HandlerClaims(m)  == {w \in Worker : Working(w) /\ Handled(w).id = m}
StaleClaims(w, m) == {i \in Stale(w) : store[i].id = m}
WireClaims(w, m)  == {k \in DOMAIN wire[w] : wire[w][k].id = m}

Tagged(kind, w, S) == {<<kind, w, i>> : i \in S}

TaggedCopies(m)   == {<<"copy", i, i>> : i \in CopyClaims(m)}
TaggedHandlers(m) == {<<"handler", w, w>> : w \in HandlerClaims(m)}
TaggedStale(m)    == UNION {Tagged("stale", w, StaleClaims(w, m)) : w \in Worker}
TaggedWire(m)     == UNION {Tagged("wire", w, WireClaims(w, m)) : w \in Worker}

Claims(m) == TaggedCopies(m) \cup TaggedHandlers(m) \cup TaggedStale(m) \cup TaggedWire(m)

Balanced(m) ==
  /\ sends[m] > 0 => Known(m)
  /\ IsFiniteSet(Claims(m))
  /\ sends[m] + Cardinality(Claims(m)) <= 1 + MostStale * faults

\* Every step moves a claim on or settles it, and only a fault makes new ones,
\* MostStale of them at most (consumer.go:74-119, rabbitmq/consumer.go:38-44).
Accounted == Deliveries /\ \A m \in Msg : Balanced(m)

(***************************************************************************)
(* What a failure, and a lane, is nothing to                               *)
(***************************************************************************)
\* Deliveries of m made, and those that are to come unless something fails.
Load(m) == sends[m] + Cardinality(Claims(m))

\* m is handled by w, or in its goroutines or buffer.
HasInHand(w, m) ==
  \/ Handling(w) /\ Handled(w).id = m
  \/ \E a \in DOMAIN inbox[w] : store[inbox[w][a]].id = m

\* Whatever fails, fails at one worker, and costs further deliveries only of
\* what this worker has in hand; no other step costs any (consumer.go:74-119).
FailuresStayLocal ==
  [][\A m \in Msg : Known(m) /\ Load(m)' > Load(m) =>
       /\ Load(m)' <= Load(m) + MostStale
       /\ \E w \in Worker : faults' > faults /\ StepOf(w) /\ HasInHand(w, m)]_vars

\* All that is known of a notification, apart from who has it in hand.
Progress(m) == <<sends[m], tries[m], cuts[m], m \in dropped, InLane(m), InDead(m)>>

\* Nothing a worker does, and nothing that happens to it, makes a difference to
\* the notifications of other lanes: not a send, a retry, a dead letter, nor a
\* place in their queue (topology.go:14-16, publisher.go:67).
LanesStayApart ==
  [][\A m \in Msg : Progress(m)' # Progress(m) =>
       Enqueue(m) \/ \E w \in Worker : Serves[w] = LaneOf[m] /\ StepOf(w)]_vars

(***************************************************************************)
(* The abstract specification                                              *)
(***************************************************************************)
OutcomesOf(m) ==
  (IF sends[m] > 0 THEN {"delivered"} ELSE {})
    \cup (IF m \in dropped THEN {"dropped"} ELSE {})
    \cup (IF InDead(m) # {} THEN {"dead"} ELSE {})

Promise == INSTANCE NotificationPromise WITH
             known   <- {m \in Msg : Known(m)},
             live    <- {m \in Msg : InLane(m) # {}},
             outcome <- [m \in Msg |-> OutcomesOf(m)]

\* Retries, dead letters, redeliveries and failures together implement the
\* promise: a notification's last copy leaves its lane only after an outcome.
KeepsPromise == Promise!Spec

(***************************************************************************)
(* Liveness                                                                *)
(***************************************************************************)
\* A worker whose publisher connection is gone but which still consumes.
HalfOpen(w) == main[w] = "serving" /\ consUp[w] /\ ~pubUp[w]

Outcome(m) == OutcomesOf(m) # {}

\* Unless some worker stays half open, every notification is delivered,
\* dropped as undeliverable, or parked in the dead-letter queue, even if the
\* provider never accepts anything.
Settles ==
  (\A w \in Worker : []<>~HalfOpen(w)) => \A m \in Msg : Known(m) ~> Outcome(m)

\* ... and the lanes run empty: no copy circulates for ever.
Drains ==
  (\A w \in Worker : []<>~HalfOpen(w)) => \A m \in Msg : <>[](InLane(m) = {})

\* A worker that loses its consumer connection ends (main.go:90-95) and is
\* started again with a new one.
ConsumerRecovers == \A w \in Worker : ~consUp[w] ~> consUp[w]

\* Lanes do not wait for each other: what lane l carries settles although
\* the workers of other lanes stand still ("bulk traffic can never delay
\* transactional traffic", topology.go:14-16).
Isolated(l) ==
  (\A w \in Worker : Serves[w] = l => []<>~HalfOpen(w)) =>
     \A m \in Msg : LaneOf[m] = l => (Known(m) ~> Outcome(m))

\* README.md says of a transient failure that the message is retried, then
\* dead-lettered, "rather than lost or looping forever".
NeverLoopsForever == \A m \in Msg : Known(m) ~> Outcome(m)

\* A dead letter is a notification for which the provider was tried once and
\* then once per retry (README.md: "Transient - a send failure").
DeadMeansTried == \A m \in Msg : InDead(m) # {} => tries[m] > MaxRetries

=============================================================================
