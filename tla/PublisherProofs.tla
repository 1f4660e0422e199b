-------------------------- MODULE PublisherProofs --------------------------
(***************************************************************************)
(* Proofs about Publisher, for any number of concurrent calls.             *)
(***************************************************************************)
EXTENDS Publisher, SequenceTheorems, TLAPS

USE CallAssumption

(***************************************************************************)
(* The inductive invariant                                                 *)
(***************************************************************************)
LEMMA BrokerStep ==
  ASSUME Inductive, wire # <<>>, wire' = Tail(wire), NEW a \in BOOLEAN,
         Reply(Head(wire), a),
         stored' = IF a THEN stored \cup {Head(wire)} ELSE stored,
         UNCHANGED <<pc, expired, mu, open, confirm>>
  PROVE  Inductive'
<1>1. /\ wire \in Seq(Call) /\ Head(wire) \in Call /\ Tail(wire) \in Seq(Call)
      /\ Len(wire) \in Nat
      /\ Len(Tail(wire)) = Len(wire) - 1
      /\ \A i \in 1 .. Len(Tail(wire)) : Tail(wire)[i] = wire[i + 1]
  BY HeadTailProperties, LenProperties DEF Inductive, TypeOK
<1>2. Len(wire) # 0 /\ 1 \in 1 .. Len(wire) /\ Head(wire) = wire[1]
  BY <1>1, EmptySeq
<1>3. \A i \in 1 .. Len(Tail(wire)) : i + 1 \in 1 .. Len(wire) /\ i + 1 # 1
  BY <1>1
<1>4. [call |-> Head(wire), ack |-> a] \in Replies
  BY <1>1 DEF Replies
<1>5. replies \in Seq(Replies)
  BY DEF Inductive, TypeOK
<1>6. /\ replies' \in Seq(Replies)
      /\ \A i \in 1 .. Len(replies') : replies'[i].ack => replies'[i].call \in stored'
  <2>1. CASE open
    <3>1. replies' = Append(replies, [call |-> Head(wire), ack |-> a])
      BY <2>1 DEF Reply
    <3>2. /\ replies' \in Seq(Replies)
          /\ Len(replies') = Len(replies) + 1 /\ Len(replies) \in Nat
          /\ \A i \in 1 .. Len(replies) : replies'[i] = replies[i]
          /\ replies'[Len(replies) + 1] = [call |-> Head(wire), ack |-> a]
      BY <1>4, <1>5, <3>1, AppendProperties, LenProperties
    <3>3. \A i \in 1 .. Len(replies) : replies[i].ack => replies[i].call \in stored
      BY DEF Inductive, ConfirmsTrue
    <3>4. \A i \in 1 .. Len(replies') : i \in 1 .. Len(replies) \/ i = Len(replies) + 1
      BY <3>2
    <3> QED
      BY <3>2, <3>3, <3>4
  <2>2. CASE ~open
    BY <2>2, EmptySeq DEF Reply
  <2> QED
    BY <2>1, <2>2
<1>7. TypeOK'
  BY <1>1, <1>6 DEF Inductive, TypeOK
<1>8. Serialized' /\ NeverSilentlyLost'
  BY DEF Inductive, Serialized, NeverSilentlyLost
<1>9. ConfirmsTrue'
  BY <1>6 DEF Inductive, ConfirmsTrue
<1>10. WrittenOnce'
  <2>1. pc[wire[1]] \in {"awaiting", "error"}
    BY <1>2 DEF Inductive, WrittenOnce
  <2>2. \A i \in 1 .. Len(wire) : wire[i] = wire[1] => i = 1
    BY <1>2 DEF Inductive, WrittenOnce
  <2>3. \A i \in 1 .. Len(wire') : wire'[i] = wire[i + 1] /\ wire[i + 1] # wire[1]
    BY <1>1, <1>3, <2>2
  <2>4. ASSUME NEW i \in 1 .. Len(wire')
        PROVE  /\ pc[wire'[i]] \in {"awaiting", "error"}
               /\ wire'[i] \notin stored'
               /\ \A j \in 1 .. Len(wire') : wire'[i] = wire'[j] => i = j
    <3>1. wire'[i] = wire[i + 1] /\ i + 1 \in 1 .. Len(wire) /\ wire[i + 1] # wire[1]
      BY <1>1, <1>3, <2>3
    <3>2. pc[wire[i + 1]] \in {"awaiting", "error"} /\ wire[i + 1] \notin stored
      BY <3>1 DEF Inductive, WrittenOnce
    <3>3. wire'[i] \notin stored'
      BY <1>2, <3>1, <3>2
    <3>4. ASSUME NEW j \in 1 .. Len(wire'), wire'[i] = wire'[j] PROVE i = j
      <4>1. wire[i + 1] = wire[j + 1] /\ j + 1 \in 1 .. Len(wire)
        BY <1>1, <1>3, <2>3, <3>1, <3>4
      <4>2. i + 1 = j + 1
        BY <3>1, <4>1 DEF Inductive, WrittenOnce
      <4> QED
        BY <4>2, <1>1
    <3> QED
      BY <3>1, <3>2, <3>3, <3>4
  <2>5. \A c \in stored' : pc[c] \in {"awaiting", "ok", "error"}
    BY <1>2, <2>1 DEF Inductive, WrittenOnce
  <2> QED
    BY <2>4, <2>5 DEF WrittenOnce
<1> QED
  BY <1>7, <1>8, <1>9, <1>10 DEF Inductive

LEMMA WriteStep ==
  ASSUME Inductive, NEW c \in Call, Write(c)
  PROVE  Inductive'
<1>1. /\ wire \in Seq(Call) /\ Len(wire) \in Nat
      /\ wire' \in Seq(Call) /\ Len(wire') = Len(wire) + 1
      /\ \A i \in 1 .. Len(wire) : wire'[i] = wire[i]
      /\ wire'[Len(wire) + 1] = c
  BY AppendProperties, LenProperties DEF Inductive, TypeOK, Write
<1>2. pc[c] = "writing" /\ pc' = [pc EXCEPT ![c] = "awaiting"]
      /\ UNCHANGED <<expired, mu, open, stored, replies>>
  BY DEF Write
<1>3. TypeOK'
  BY <1>1 DEF Inductive, TypeOK, Write, Steps
<1>4. Serialized' /\ NeverSilentlyLost' /\ ConfirmsTrue'
  BY DEF Inductive, TypeOK, Write, Serialized, NeverSilentlyLost, ConfirmsTrue
<1>5. c \notin stored
  BY <1>2 DEF Inductive, WrittenOnce
<1>6. \A i \in 1 .. Len(wire) : wire[i] # c /\ wire[i] \in Call
  BY <1>1, <1>2, ElementOfSeq DEF Inductive, WrittenOnce
<1>7. ASSUME NEW i \in 1 .. Len(wire')
      PROVE  /\ pc'[wire'[i]] \in {"awaiting", "error"}
             /\ wire'[i] \notin stored'
             /\ \A j \in 1 .. Len(wire') : wire'[i] = wire'[j] => i = j
  <2>1. CASE i = Len(wire) + 1
    BY <1>1, <1>2, <1>5, <1>6, <2>1 DEF Inductive, TypeOK
  <2>2. CASE i \in 1 .. Len(wire)
    <3>1. pc[wire[i]] \in {"awaiting", "error"} /\ wire[i] \notin stored
          /\ \A j \in 1 .. Len(wire) : wire[i] = wire[j] => i = j
      BY <2>2 DEF Inductive, WrittenOnce
    <3>2. \A j \in 1 .. Len(wire') : j \in 1 .. Len(wire) \/ j = Len(wire) + 1
      BY <1>1
    <3> QED
      BY <1>1, <1>2, <1>6, <2>2, <3>1, <3>2 DEF Inductive, TypeOK
  <2> QED
    BY <1>1, <2>1, <2>2
<1>8. WrittenOnce'
  BY <1>2, <1>7 DEF Inductive, WrittenOnce, TypeOK
<1> QED
  BY <1>3, <1>4, <1>8 DEF Inductive

\* Steps that leave the wire and the broker alone.
LEMMA CallStep ==
  ASSUME Inductive, NEW c \in Call,
         \/ Begin(c) \/ Expire(c) \/ Lock(c) \/ WriteFails(c)
         \/ Acked(c) \/ Nacked(c) \/ TimesOut(c)
  PROVE  Inductive'
<1>1. UNCHANGED <<open, wire, stored, replies, confirm>>
  BY DEF Begin, Expire, Lock, WriteFails, Acked, Nacked, TimesOut, Return
<1>2. TypeOK'
  BY <1>1 DEF Inductive, TypeOK, Begin, Expire, Lock, WriteFails, Acked, Nacked, TimesOut,
              Return, Steps
<1>3. Serialized'
  BY DEF Inductive, TypeOK, Serialized, Begin, Expire, Lock, WriteFails, Acked, Nacked,
         TimesOut, Return
<1>4. ConfirmsTrue'
  BY <1>1 DEF Inductive, ConfirmsTrue
<1>5. NeverSilentlyLost'
  BY <1>1 DEF Inductive, TypeOK, ConfirmsTrue, NeverSilentlyLost, Begin, Expire, Lock,
              WriteFails, Acked, Nacked, TimesOut, Return
<1>6. ASSUME NEW d \in Call
      PROVE  /\ pc[d] \in {"awaiting", "error"} /\ ~(Acked(c) /\ d = c)
                  => pc'[d] \in {"awaiting", "error"}
             /\ pc[d] \in {"awaiting", "ok", "error"} => pc'[d] \in {"awaiting", "ok", "error"}
  BY DEF Inductive, TypeOK, Begin, Expire, Lock, WriteFails, Acked, Nacked, TimesOut, Return
<1>7. ASSUME NEW i \in 1 .. Len(wire) PROVE wire[i] \in Call /\ ~(Acked(c) /\ wire[i] = c)
  <2>1. wire[i] \in Call /\ wire[i] \notin stored
    BY ElementOfSeq DEF Inductive, TypeOK, WrittenOnce
  <2>2. Acked(c) => c \in stored
    BY DEF Inductive, ConfirmsTrue, Acked
  <2> QED
    BY <2>1, <2>2
<1>8. WrittenOnce'
  <2>1. ASSUME NEW i \in 1 .. Len(wire) PROVE pc'[wire[i]] \in {"awaiting", "error"}
    <3>1. pc[wire[i]] \in {"awaiting", "error"}
      BY DEF Inductive, WrittenOnce
    <3> QED
      BY <1>6, <1>7, <3>1
  <2>2. \A d \in stored : pc'[d] \in {"awaiting", "ok", "error"}
    BY <1>6 DEF Inductive, TypeOK, WrittenOnce
  <2> QED
    BY <1>1, <2>1, <2>2 DEF Inductive, WrittenOnce
<1> QED
  BY <1>2, <1>3, <1>4, <1>5, <1>8 DEF Inductive

LEMMA ConfirmStep ==
  ASSUME Inductive, ConfirmArrives \/ ConnectionLost
  PROVE  Inductive'
<1>1. UNCHANGED <<pc, expired, mu, wire, stored>>
  BY DEF ConfirmArrives, ConnectionLost
<1>2. Serialized' /\ NeverSilentlyLost' /\ WrittenOnce'
  BY <1>1 DEF Inductive, Serialized, NeverSilentlyLost, WrittenOnce
<1>3. CASE ConfirmArrives
  <2>1. /\ replies \in Seq(Replies) /\ Head(replies) \in Replies /\ Tail(replies) \in Seq(Replies)
        /\ Len(replies) \in Nat
        /\ Len(Tail(replies)) = Len(replies) - 1
        /\ \A i \in 1 .. Len(Tail(replies)) : Tail(replies)[i] = replies[i + 1]
    BY <1>3, HeadTailProperties, LenProperties DEF Inductive, TypeOK, ConfirmArrives
  <2>2. 1 \in 1 .. Len(replies) /\ Head(replies) = replies[1]
    BY <1>3, <2>1, EmptySeq DEF ConfirmArrives
  <2>3. Head(replies).ack => Head(replies).call \in stored
    BY <2>2 DEF Inductive, ConfirmsTrue
  <2>4. \A i \in 1 .. Len(replies') : replies'[i].ack => replies'[i].call \in stored'
    BY <1>1, <1>3, <2>1 DEF ConfirmArrives, Inductive, ConfirmsTrue
  <2>5. /\ confirm' \in [Call -> {"none", "pending", "ack", "nack"}]
        /\ \A c \in Call : confirm'[c] = "ack" => c \in stored'
    BY <1>1, <1>3, <2>1, <2>3 DEF ConfirmArrives, Inductive, TypeOK, ConfirmsTrue, Replies
  <2>6. TypeOK'
    BY <1>1, <1>3, <2>1, <2>5 DEF ConfirmArrives, Inductive, TypeOK
  <2> QED
    BY <1>2, <2>4, <2>5, <2>6 DEF Inductive, ConfirmsTrue
<1>4. CASE ConnectionLost
  <2>1. TypeOK'
    BY <1>1, <1>4, EmptySeq DEF ConnectionLost, Inductive, TypeOK
  <2>2. ConfirmsTrue'
    BY <1>1, <1>4, EmptySeq DEF ConnectionLost, Inductive, TypeOK, ConfirmsTrue
  <2> QED
    BY <1>2, <2>1, <2>2 DEF Inductive
<1> QED
  BY <1>3, <1>4

LEMMA InductiveStep ==
  ASSUME Inductive, [Next]_vars
  PROVE  Inductive'
<1>1. CASE BrokerStores
  <2>1. Reply(Head(wire), TRUE) /\ stored' = IF TRUE THEN stored \cup {Head(wire)} ELSE stored
    BY <1>1 DEF BrokerStores
  <2> QED
    BY <1>1, <2>1, TRUE \in BOOLEAN, BrokerStep DEF BrokerStores
<1>2. CASE BrokerRefuses
  <2>1. Reply(Head(wire), FALSE) /\ stored' = IF FALSE THEN stored \cup {Head(wire)} ELSE stored
    BY <1>2 DEF BrokerRefuses
  <2> QED
    BY <1>2, <2>1, FALSE \in BOOLEAN, BrokerStep DEF BrokerRefuses
<1>3. CASE UNCHANGED vars
  BY <1>3 DEF vars, Inductive, TypeOK, Serialized, ConfirmsTrue, WrittenOnce, NeverSilentlyLost
<1> QED
  BY <1>1, <1>2, <1>3, WriteStep, CallStep, ConfirmStep DEF Next, Proceed, Environment

\* The inductive invariant of the publisher: the mutex serializes the
\* channel, and a confirm is only ever for the message it belongs to.
THEOREM InductiveInvariant == Spec => []Inductive
<1>1. Init => Inductive
  BY EmptySeq DEF Init, Inductive, TypeOK, Serialized, ConfirmsTrue, WrittenOnce,
                  NeverSilentlyLost, Steps
<1>2. Inductive /\ [Next]_vars => Inductive'
  BY InductiveStep
<1> QED
  BY <1>1, <1>2, PTL DEF Spec

\* Publish succeeds only for a message the broker has, for any number of
\* concurrent calls.
THEOREM NothingSilentlyLost == Spec => []NeverSilentlyLost
<1>1. Inductive => NeverSilentlyLost
  BY DEF Inductive
<1> QED
  BY <1>1, InductiveInvariant, PTL

(***************************************************************************)
(* Refinement of the contract                                              *)
(***************************************************************************)
result == [c \in Call |-> IF Busy(c) THEN "busy" ELSE pc[c]]

\* Every step of the publisher is a step of the contract, or changes nothing
\* that the contract speaks of.
LEMMA ContractStep ==
  ASSUME Inductive, [Next]_vars
  PROVE  [Contract!Next]_(Contract!contractVars)
<1> USE DEF Contract!contractVars
<1>1. TypeOK
  BY DEF Inductive
<1>2. CASE UNCHANGED <<pc, stored>>
  BY <1>2 DEF Busy
<1>3. ASSUME NEW c \in Call, Begin(c) PROVE Contract!Begin(c)
  BY <1>1, <1>3 DEF Begin, Contract!Begin, Busy, TypeOK
<1>4. ASSUME NEW c \in Call, NEW r \in {"ok", "error"}, Busy(c), Return(c, r)
      PROVE  /\ result[c] = "busy"
             /\ result' = [result EXCEPT ![c] = r]
             /\ UNCHANGED stored
  BY <1>1, <1>4 DEF Return, Busy, TypeOK, result
<1>5. ASSUME NEW c \in Call, Acked(c) PROVE Contract!ReturnOk(c)
  <2>1. Busy(c) /\ Return(c, "ok") /\ c \in stored
    BY <1>5 DEF Acked, Busy, Inductive, ConfirmsTrue
  <2> QED
    BY <1>4, <2>1 DEF Contract!ReturnOk, result
<1>6. ASSUME NEW c \in Call, WriteFails(c) \/ Nacked(c) \/ TimesOut(c)
      PROVE  Contract!ReturnError(c)
  <2>1. Busy(c) /\ Return(c, "error")
    BY <1>6 DEF WriteFails, Nacked, TimesOut, Busy
  <2> QED
    BY <1>4, <2>1 DEF Contract!ReturnError, result
<1>7. ASSUME NEW c \in Call, Expire(c) \/ Lock(c) \/ Write(c)
      PROVE  UNCHANGED Contract!contractVars
  BY <1>1, <1>7 DEF Expire, Lock, Write, Busy, TypeOK
<1>8. CASE BrokerStores
  <2>1. wire \in Seq(Call) /\ Head(wire) \in Call /\ Head(wire) = wire[1]
        /\ 1 \in 1 .. Len(wire)
    BY <1>1, <1>8, HeadTailProperties, EmptySeq, LenProperties DEF TypeOK, BrokerStores
  <2>2. pc[Head(wire)] \in {"awaiting", "error"} /\ Head(wire) \notin stored
    BY <2>1 DEF Inductive, WrittenOnce
  <2>3. Contract!Store(Head(wire))
    BY <1>8, <2>1, <2>2 DEF BrokerStores, Contract!Store, Busy
  <2> QED
    BY <2>1, <2>3 DEF Contract!Next
<1>9. CASE BrokerRefuses \/ ConfirmArrives \/ ConnectionLost
  BY <1>2, <1>9 DEF BrokerRefuses, ConfirmArrives, ConnectionLost
<1> QED
  BY <1>2, <1>3, <1>5, <1>6, <1>7, <1>8, <1>9
     DEF Next, Proceed, Environment, Contract!Next, vars

\* The publisher, with its mutex, confirms, timeouts and lost connection,
\* implements the contract its callers rely on.
THEOREM PublisherKeepsContract == Spec => KeepsContract
<1>1. Init => Contract!Init
  BY DEF Init, Contract!Init, Busy
<1>2. Inductive /\ [Next]_vars => [Contract!Next]_(Contract!contractVars)
  BY ContractStep
<1> QED
  BY <1>1, <1>2, InductiveInvariant, PTL DEF Spec, KeepsContract, Contract!Spec

=============================================================================
