------------------------------ MODULE Topology ------------------------------
(***************************************************************************)
(* The exchange, queues and bindings that every process declares when it   *)
(* starts (internal/infrastructure/rabbitmq/topology.go), while others are *)
(* starting, publishing and consuming, and the broker may restart.         *)
(*                                                                         *)
(* Messages are published with mandatory=false: one that no queue is bound *)
(* for is confirmed and thrown away.  The queue of a lane has the name of  *)
(* its routing key, so both are one value here.                            *)
(***************************************************************************)
EXTENDS Integers, Sequences

CONSTANTS
  Process,    \* API and worker processes
  Msg,        \* publishes
  Queue,      \* the lanes and the dead-letter queue, by routing key
  Dead,       \* the dead-letter queue
  Order,      \* the order in which DeclareTopology goes through them
  Reads,      \* the lane a worker consumes, None for the API
  None,
  MaxFaults   \* bound on stopped processes and broker restarts

ASSUME TopologyAssumption ==
  /\ None \notin Queue
  /\ Dead \in Queue
  /\ Order \in Seq(Queue)
  /\ \A q \in Queue : \E i \in 1 .. Len(Order) : Order[i] = q
  /\ Reads \in [Process -> (Queue \ {Dead}) \cup {None}]
  /\ MaxFaults \in Nat

VARIABLES
  \* the broker
  exchange,   \* whether the exchange exists
  queues,     \* the queues that exist
  bound,      \* the queues bound to the exchange, each under its own name
  content,    \* the messages in each queue
  \* a process
  phase,      \* "down", "declaring", "ready" or "severed": up without a connection
  next,       \* its next declaration
  \* history
  key,        \* the routing key each message was confirmed under, or None
  taken,      \* the lane of the worker that took it, or None
  faults

brokerVars  == <<exchange, queues, bound, content>>
processVars == <<phase, next>>
vars == <<brokerVars, processVars, key, taken, faults>>

(***************************************************************************)
(* What is declared, and how                                               *)
(***************************************************************************)
\* Mutant: a queue declared as transient.
TransientQueue == FALSE

ExchangeDurable == TRUE
QueueDurable    == TRUE
Persistent      == TRUE   \* DeliveryMode of every publish

\* The exchange, then two declarations for each queue.
Listing(first, second) ==
  [n \in 1 .. 2 * Len(Order) + 1 |->
     IF n = 1 THEN [op |-> "exchange", queue |-> None]
     ELSE [op |-> IF n % 2 = 0 THEN first ELSE second, queue |-> Order[n \div 2]]]

\* Mutant: a queue is bound before it is declared.
BindFirst == Listing("bind", "queue")

\* DeclareTopology: each queue is declared and then bound.
Program == Listing("queue", "bind")

Declared(d) ==
  \/ d.op = "exchange" /\ exchange
  \/ d.op = "queue" /\ d.queue \in queues
  \/ d.op = "bind" /\ d.queue \in bound

\* A binding needs both its ends; the broker closes the channel otherwise.
Possible(d) == d.op = "bind" => exchange /\ d.queue \in queues

\* Mutant: the exchange is declared as a fanout.
RouteEverywhere(k) == bound

\* A direct exchange: the queues whose binding key is the routing key.
Route(k) == bound \cap {k}

Fault == faults < MaxFaults /\ faults' = faults + 1

Init ==
  /\ exchange = FALSE
  /\ queues = {}
  /\ bound = {}
  /\ content = [q \in Queue |-> {}]
  /\ phase = [p \in Process |-> "down"]
  /\ next = [p \in Process |-> 1]
  /\ key = [m \in Msg |-> None]
  /\ taken = [m \in Msg |-> None]
  /\ faults = 0

(***************************************************************************)
(* A process starts: it connects, declares, and subscribes to its queue.   *)
(***************************************************************************)
Start(p) ==
  /\ phase[p] = "down"
  /\ phase' = [phase EXCEPT ![p] = "declaring"]
  /\ next' = [next EXCEPT ![p] = 1]
  /\ UNCHANGED <<brokerVars, key, taken, faults>>

\* Declaring what exists already changes nothing.
Declare(p) ==
  /\ phase[p] = "declaring"
  /\ next[p] \in DOMAIN Program
  /\ LET d == Program[next[p]]
     IN  /\ Possible(d)
         /\ exchange' = (exchange \/ d.op = "exchange")
         /\ queues' = IF d.op = "queue" THEN queues \cup {d.queue} ELSE queues
         /\ bound'  = IF d.op = "bind" THEN bound \cup {d.queue} ELSE bound
  /\ next' = [next EXCEPT ![p] = @ + 1]
  /\ UNCHANGED <<content, phase, key, taken, faults>>

\* Mutant: a process goes on without waiting for its declarations.
SubscribeEarly(p) ==
  /\ phase[p] = "declaring"
  /\ Reads[p] # None => Reads[p] \in queues
  /\ phase' = [phase EXCEPT ![p] = "ready"]
  /\ UNCHANGED <<brokerVars, next, key, taken, faults>>

\* NewPublisher has returned; a worker consumes its queue, which must exist.
Subscribe(p) ==
  /\ phase[p] = "declaring"
  /\ next[p] \notin DOMAIN Program
  /\ Reads[p] # None => Reads[p] \in queues
  /\ phase' = [phase EXCEPT ![p] = "ready"]
  /\ UNCHANGED <<brokerVars, next, key, taken, faults>>

(***************************************************************************)
(* Publishing and consuming                                                *)
(***************************************************************************)
\* The API publishes to any lane, a worker to its own and to the dead letters.
Targets(p) == IF Reads[p] = None THEN Queue \ {Dead} ELSE {Reads[p], Dead}

\* Routed or not, the publish is confirmed.  Without an exchange the broker
\* closes the channel instead.
Publish(p, m, k) ==
  /\ phase[p] = "ready"
  /\ exchange
  /\ key[m] = None
  /\ k \in Targets(p)
  /\ content' = [q \in Queue |-> IF q \in Route(k) THEN content[q] \cup {m} ELSE content[q]]
  /\ key' = [key EXCEPT ![m] = k]
  /\ UNCHANGED <<exchange, queues, bound, processVars, taken, faults>>

Take(p, m) ==
  /\ phase[p] = "ready"
  /\ Reads[p] # None
  /\ m \in content[Reads[p]]
  /\ content' = [content EXCEPT ![Reads[p]] = @ \ {m}]
  /\ taken' = [taken EXCEPT ![m] = Reads[p]]
  /\ UNCHANGED <<exchange, queues, bound, processVars, key, faults>>

(***************************************************************************)
(* Failures                                                                *)
(***************************************************************************)
Stop(p) ==
  /\ phase[p] # "down"
  /\ Fault
  /\ phase' = [phase EXCEPT ![p] = "down"]
  /\ UNCHANGED <<brokerVars, next, key, taken>>

\* What is not durable is gone, and every connection with it.  A worker ends
\* when it sees that, and so does any process still in its start.  The API does
\* neither end nor connect again (cmd/api/main.go:40,59-68): it is severed, and
\* stays so until somebody stops it.
BrokerRestarts ==
  /\ Fault
  /\ exchange' = (exchange /\ ExchangeDurable)
  /\ queues' = IF QueueDurable THEN queues ELSE {}
  /\ bound' = IF ExchangeDurable /\ QueueDurable THEN bound ELSE {}
  /\ content' = IF QueueDurable /\ Persistent THEN content ELSE [q \in Queue |-> {}]
  /\ phase' = [p \in Process |-> IF Reads[p] = None /\ phase[p] \in {"ready", "severed"}
                                 THEN "severed" ELSE "down"]
  /\ UNCHANGED <<next, key, taken>>

Boot(p) == Start(p) \/ Declare(p) \/ Subscribe(p)

Next ==
  \/ \E p \in Process :
       \/ Boot(p) \/ Stop(p)
       \/ \E m \in Msg : Take(p, m) \/ \E k \in Queue : Publish(p, m, k)
  \/ BrokerRestarts

Spec == Init /\ [][Next]_vars

\* The supervisor starts a process that has ended (restart: unless-stopped in
\* docker-compose.yaml), and its start goes on.  Nothing helps a severed one.
FairSpec == Spec /\ \A p \in Process : WF_vars(Boot(p))

(***************************************************************************)
(* Properties                                                              *)
(***************************************************************************)
\* Every variable has its type.
TypeOK ==
  /\ exchange \in BOOLEAN
  /\ queues \subseteq Queue
  /\ bound \subseteq Queue
  /\ content \in [Queue -> SUBSET Msg]
  /\ phase \in [Process -> {"down", "declaring", "ready", "severed"}]
  /\ next \in [Process -> 1 .. Len(Program) + 1]
  /\ key \in [Msg -> Queue \cup {None}]
  /\ taken \in [Msg -> Queue \cup {None}]
  /\ faults \in Nat

\* What a starting process has behind it is there, whatever the others do, and
\* a process that is ready has all of it behind it (topology.go:45-72).
Behind ==
  \A p \in Process :
    /\ phase[p] # "down" => \A n \in 1 .. next[p] - 1 : Declared(Program[n])
    /\ phase[p] = "ready" => next[p] = Len(Program) + 1

\* "Routing is guaranteed by validated type+priority + declared topology"
\* (publisher.go:95): a confirmed message is in its queue or was taken from
\* it, across restarts of the broker and of processes.
ConfirmedIsKept ==
  \A m \in Msg : key[m] # None => taken[m] # None \/ m \in content[key[m]]

\* Notifications of a lane "land in [its] queue and nowhere else" (README.md):
\* no queue holds, and no worker takes, a message of another lane.
OwnLaneOnly ==
  \A m \in Msg :
    /\ \A q \in Queue : m \in content[q] => key[m] = q
    /\ taken[m] # None => taken[m] = key[m]

\* The inductive invariant behind both.
Inductive == TypeOK /\ Behind /\ ConfirmedIsKept /\ OwnLaneOnly

\* No process is stuck in its start, although each goes through the
\* declarations while the broker and the others come and go: every binding it
\* asks for finds its ends, and a worker finds its queue.  This is about a
\* process that has ended: an API that lost its connection has not, and no
\* step but Stop brings it back.
ComesUp == \A p \in Process : phase[p] = "down" ~> phase[p] = "ready"

=============================================================================
