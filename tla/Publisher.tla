------------------------------ MODULE Publisher ------------------------------
(***************************************************************************)
(* The confirming publisher shared by the concurrent requests of the API   *)
(* (internal/infrastructure/rabbitmq/publisher.go).                        *)
(*                                                                         *)
(* A call takes its budget of five seconds, then the mutex, writes its     *)
(* message on the one channel and waits for the broker's confirm.  The     *)
(* broker may be slow, hang, refuse a message or lose the connection, which*)
(* is never opened again.                                                  *)
(***************************************************************************)
EXTENDS Integers, Sequences

CONSTANTS
  Call,   \* the calls of Publisher.publish, one per message
  None    \* nobody, as the holder of the mutex

ASSUME CallAssumption == None \notin Call

VARIABLES
  pc,       \* where each call is
  expired,  \* calls whose context is done: budget passed, or request cancelled
  mu,       \* the call that holds the mutex
  open,     \* whether the channel is open
  wire,     \* messages written that the broker has not read
  stored,   \* messages the broker has
  replies,  \* confirms on their way back
  confirm   \* each call's deferred confirm, as the library resolved it

vars == <<pc, expired, mu, open, wire, stored, replies, confirm>>

Steps == {"idle", "locking", "writing", "awaiting", "ok", "error"}

Busy(c) == pc[c] \in {"locking", "writing", "awaiting"}

Init ==
  /\ pc = [c \in Call |-> "idle"]
  /\ expired = {}
  /\ mu = None
  /\ open = TRUE
  /\ wire = <<>>
  /\ stored = {}
  /\ replies = <<>>
  /\ confirm = [c \in Call |-> "none"]

(***************************************************************************)
(* The call                                                                *)
(***************************************************************************)
\* The message is marshalled and the budget starts to run.
Begin(c) ==
  /\ pc[c] = "idle"
  /\ pc' = [pc EXCEPT ![c] = "locking"]
  /\ UNCHANGED <<expired, mu, open, wire, stored, replies, confirm>>

Expire(c) ==
  /\ Busy(c)
  /\ c \notin expired
  /\ expired' = expired \cup {c}
  /\ UNCHANGED <<pc, mu, open, wire, stored, replies, confirm>>

\* Mutant: the channel is used without the mutex.
LockNothing(c) ==
  /\ pc[c] = "locking"
  /\ mu' = c
  /\ pc' = [pc EXCEPT ![c] = "writing"]
  /\ UNCHANGED <<expired, open, wire, stored, replies, confirm>>

\* mu.Lock() waits as long as it must: it does not see the context.
Lock(c) ==
  /\ pc[c] = "locking"
  /\ mu = None
  /\ mu' = c
  /\ pc' = [pc EXCEPT ![c] = "writing"]
  /\ UNCHANGED <<expired, open, wire, stored, replies, confirm>>

\* The library writes the frame, or reports a closed channel.  It does not
\* look at the context either.
Write(c) ==
  /\ pc[c] = "writing"
  /\ open
  /\ wire' = Append(wire, c)
  /\ confirm' = [confirm EXCEPT ![c] = "pending"]
  /\ pc' = [pc EXCEPT ![c] = "awaiting"]
  /\ UNCHANGED <<expired, mu, open, stored, replies>>

\* Mutant: the mutex is not released on every return.
ReturnLocked(c, result) ==
  /\ pc' = [pc EXCEPT ![c] = result]
  /\ mu' = IF result = "ok" THEN None ELSE mu
  /\ UNCHANGED <<expired, open, wire, stored, replies, confirm>>

Return(c, result) ==
  /\ pc' = [pc EXCEPT ![c] = result]
  /\ mu' = None
  /\ UNCHANGED <<expired, open, wire, stored, replies, confirm>>

WriteFails(c) == pc[c] = "writing" /\ ~open /\ Return(c, "error")

Acked(c) == pc[c] = "awaiting" /\ confirm[c] = "ack" /\ Return(c, "ok")

\* Mutant: the outcome of the confirm is not looked at.
NackedUnchecked(c) == pc[c] = "awaiting" /\ confirm[c] = "nack" /\ Return(c, "ok")

Nacked(c) == pc[c] = "awaiting" /\ confirm[c] = "nack" /\ Return(c, "error")

\* Also when the confirm is there: the select of WaitContext picks either.
TimesOut(c) == pc[c] = "awaiting" /\ c \in expired /\ Return(c, "error")

(***************************************************************************)
(* The broker and the library's reader                                     *)
(***************************************************************************)
\* On a closed channel what was written may still be read, unanswered.
Reply(c, a) == replies' = IF open THEN Append(replies, [call |-> c, ack |-> a]) ELSE <<>>

BrokerStores ==
  /\ wire # <<>>
  /\ wire' = Tail(wire)
  /\ stored' = stored \cup {Head(wire)}
  /\ Reply(Head(wire), TRUE)
  /\ UNCHANGED <<pc, expired, mu, open, confirm>>

BrokerRefuses ==
  /\ wire # <<>>
  /\ wire' = Tail(wire)
  /\ Reply(Head(wire), FALSE)
  /\ UNCHANGED <<pc, expired, mu, open, stored, confirm>>

ConfirmArrives ==
  /\ replies # <<>>
  /\ replies' = Tail(replies)
  /\ confirm' = [confirm EXCEPT ![Head(replies).call] =
                   IF Head(replies).ack THEN "ack" ELSE "nack"]
  /\ UNCHANGED <<pc, expired, mu, open, wire, stored>>

\* Closing the channel resolves every open confirm as not acknowledged.
ConnectionLost ==
  /\ open
  /\ open' = FALSE
  /\ replies' = <<>>
  /\ confirm' = [c \in Call |-> IF confirm[c] = "pending" THEN "nack" ELSE confirm[c]]
  /\ UNCHANGED <<pc, expired, mu, wire, stored>>

(***************************************************************************)
(* The specification                                                       *)
(***************************************************************************)
Proceed(c) == Write(c) \/ WriteFails(c) \/ Acked(c) \/ Nacked(c) \/ TimesOut(c)

Environment == BrokerStores \/ BrokerRefuses \/ ConfirmArrives \/ ConnectionLost

Next == (\E c \in Call : Begin(c) \/ Expire(c) \/ Lock(c) \/ Proceed(c)) \/ Environment

Spec == Init /\ [][Next]_vars

\* Timers fire, the mutex goes to a waiter, and a goroutine that can proceed
\* does.  The broker need not answer anyone, but it reads: a socket whose other
\* end does not would hold Write, and with it the mutex, for ever.
FairSpec ==
  Spec /\ \A c \in Call : WF_vars(Expire(c)) /\ WF_vars(Lock(c)) /\ WF_vars(Proceed(c))

(***************************************************************************)
(* Properties                                                              *)
(***************************************************************************)
Replies == [call : Call, ack : BOOLEAN]

\* Every variable has its type.
TypeOK ==
  /\ pc \in [Call -> Steps]
  /\ expired \subseteq Call
  /\ mu \in Call \cup {None}
  /\ open \in BOOLEAN
  /\ wire \in Seq(Call)
  /\ stored \subseteq Call
  /\ replies \in Seq(Replies)
  /\ confirm \in [Call -> {"none", "pending", "ack", "nack"}]

\* "A notification is never silently lost between API and broker"
\* (publisher.go:21-23): Publish succeeds only for a message the broker has,
\* whatever expires, is refused or breaks in between.
NeverSilentlyLost == \A c \in Call : pc[c] = "ok" => c \in stored

\* The channel is "not safe for concurrent use" (publisher.go:25-26): the
\* calls between taking and releasing the mutex are the holder alone, also
\* when calls give up while their confirm is still open.
Serialized == \A c \in Call : pc[c] \in {"writing", "awaiting"} <=> mu = c

\* A positive confirm, on its way or arrived, is for a message the broker has.
ConfirmsTrue ==
  /\ \A i \in 1 .. Len(replies) : replies[i].ack => replies[i].call \in stored
  /\ \A c \in Call : confirm[c] = "ack" => c \in stored

\* A message is on the wire, or was read, only after its call wrote it, and
\* only once: so the broker stores it at most once, and not after success.
WrittenOnce ==
  /\ \A i \in 1 .. Len(wire) :
       /\ pc[wire[i]] \in {"awaiting", "error"}
       /\ wire[i] \notin stored
       /\ \A j \in 1 .. Len(wire) : wire[i] = wire[j] => i = j
  /\ \A c \in stored : pc[c] \in {"awaiting", "ok", "error"}

\* The inductive invariant behind the contract (publisher.go:85-116).
Inductive == TypeOK /\ Serialized /\ ConfirmsTrue /\ WrittenOnce /\ NeverSilentlyLost

\* Every call returns, "so a hung broker can't stall the publish path"
\* (publisher.go:82-84), even if the broker never answers anyone.  The write
\* itself is taken to return: it has no deadline (publisher.go:91).
CallsReturn == \A c \in Call : Busy(c) ~> ~Busy(c)

\* The rest of that comment: "once the budget passes, queued publishes fail
\* fast instead of piling up behind the mutex".  A call whose budget passed
\* while it waited for the mutex does not go on to publish.
QueuedFailFast ==
  [][\A c \in Call : pc[c] = "locking" /\ c \in expired => pc'[c] \in {"locking", "error"}]_vars

Contract == INSTANCE PublishContract WITH
              result <- [c \in Call |-> IF Busy(c) THEN "busy" ELSE pc[c]]

\* The publisher implements the contract its callers rely on.
KeepsContract == Contract!Spec

=============================================================================
