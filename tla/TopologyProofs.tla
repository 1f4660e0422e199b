--------------------------- MODULE TopologyProofs ---------------------------
(***************************************************************************)
(* Proofs about Topology, for any processes, lanes and messages.           *)
(***************************************************************************)
EXTENDS Topology, TLAPS

USE DEF ExchangeDurable, QueueDurable, Persistent

LEMMA ProgramType ==
  /\ Len(Order) \in Nat
  /\ Len(Program) = 2 * Len(Order) + 1
  /\ DOMAIN Program = 1 .. 2 * Len(Order) + 1
  /\ \A n \in DOMAIN Program :
       /\ Program[n].op \in {"exchange", "queue", "bind"}
       /\ Program[n].op # "exchange" => Program[n].queue \in Queue
<1>1. Len(Order) \in Nat /\ \A i \in 1 .. Len(Order) : Order[i] \in Queue
  BY TopologyAssumption
<1>2. DOMAIN Program = 1 .. 2 * Len(Order) + 1
  BY DEF Program, Listing
<1>3. Len(Program) = 2 * Len(Order) + 1
  BY <1>1, <1>2 DEF Program, Listing
<1>4. ASSUME NEW n \in DOMAIN Program
      PROVE  /\ Program[n].op \in {"exchange", "queue", "bind"}
             /\ Program[n].op # "exchange" => Program[n].queue \in Queue
  <2>1. CASE n = 1
    BY <1>2, <2>1 DEF Program, Listing
  <2>2. CASE n # 1
    <3>1. n \div 2 \in 1 .. Len(Order)
      BY <1>1, <1>2, <2>2
    <3> QED
      BY <1>1, <1>2, <2>2, <3>1 DEF Program, Listing
  <2> QED
    BY <2>1, <2>2
<1> QED
  BY <1>1, <1>2, <1>3, <1>4

\* A process with all its declarations behind it has every queue bound.
LEMMA AllBound ==
  ASSUME \A n \in DOMAIN Program : Declared(Program[n])
  PROVE  exchange /\ Queue \subseteq queues /\ Queue \subseteq bound
<1>1. exchange
  <2>1. 1 \in DOMAIN Program /\ Program[1] = [op |-> "exchange", queue |-> None]
    BY ProgramType DEF Program, Listing
  <2> QED
    BY <2>1 DEF Declared
<1>2. ASSUME NEW q \in Queue PROVE q \in queues /\ q \in bound
  <2>1. PICK i \in 1 .. Len(Order) : Order[i] = q
    BY TopologyAssumption
  <2>2. /\ 2 * i \in DOMAIN Program /\ 2 * i + 1 \in DOMAIN Program
        /\ 2 * i # 1 /\ 2 * i + 1 # 1
        /\ (2 * i) % 2 = 0 /\ (2 * i + 1) % 2 # 0
        /\ (2 * i) \div 2 = i /\ (2 * i + 1) \div 2 = i
    BY ProgramType
  <2>3. /\ Program[2 * i] = [op |-> "queue", queue |-> q]
        /\ Program[2 * i + 1] = [op |-> "bind", queue |-> q]
    BY <2>1, <2>2, ProgramType DEF Program, Listing
  <2> QED
    BY <2>2, <2>3 DEF Declared
<1> QED
  BY <1>1, <1>2

LEMMA InitInductive == Init => Inductive
<1> SUFFICES ASSUME Init PROVE Inductive
  OBVIOUS
<1>1. 1 \in 1 .. Len(Program) + 1
  BY ProgramType
<1>2. TypeOK
  BY <1>1, TopologyAssumption DEF Init, TypeOK
<1>3. Behind
  BY DEF Init, Behind
<1>4. ConfirmedIsKept /\ OwnLaneOnly
  BY DEF Init, ConfirmedIsKept, OwnLaneOnly
<1> QED
  BY <1>2, <1>3, <1>4 DEF Inductive

\* The broker only ever gains declarations.
LEMMA Grows ==
  ASSUME Inductive, [Next]_vars
  PROVE  /\ exchange => exchange'
         /\ queues \subseteq queues'
         /\ bound \subseteq bound'
<1>1. ASSUME NEW p \in Process, Declare(p)
      PROVE  (exchange => exchange') /\ queues \subseteq queues' /\ bound \subseteq bound'
  BY <1>1 DEF Declare
<1>2. CASE BrokerRestarts
  BY <1>2 DEF BrokerRestarts
<1>3. CASE UNCHANGED <<exchange, queues, bound>>
  BY <1>3
<1> QED
  BY <1>1, <1>2, <1>3
     DEF Next, Boot, Start, Subscribe, Stop, Take, Publish, vars, brokerVars

LEMMA TypeStep ==
  ASSUME Inductive, [Next]_vars
  PROVE  TypeOK'
<1> USE DEF TypeOK
<1>0. TypeOK
  BY DEF Inductive
<1>1. ASSUME NEW p \in Process, Start(p) PROVE TypeOK'
  BY <1>0, <1>1, ProgramType DEF Start, brokerVars
<1>2. ASSUME NEW p \in Process, Declare(p) PROVE TypeOK'
  <2> DEFINE d == Program[next[p]]
  <2>1. d.op \in {"exchange", "queue", "bind"} /\ (d.op # "exchange" => d.queue \in Queue)
    BY <1>2, ProgramType DEF Declare
  <2>2. exchange' \in BOOLEAN /\ queues' \subseteq Queue /\ bound' \subseteq Queue
    BY <1>0, <1>2, <2>1 DEF Declare
  <2>3. next' \in [Process -> 1 .. Len(Program) + 1]
    BY <1>0, <1>2, ProgramType DEF Declare
  <2> QED
    BY <1>0, <1>2, <2>2, <2>3 DEF Declare
<1>3. ASSUME NEW p \in Process, Subscribe(p) PROVE TypeOK'
  BY <1>0, <1>3 DEF Subscribe, brokerVars
<1>4. ASSUME NEW p \in Process, NEW m \in Msg, NEW k \in Queue, Publish(p, m, k) PROVE TypeOK'
  BY <1>0, <1>4 DEF Publish, processVars
<1>5. ASSUME NEW p \in Process, NEW m \in Msg, Take(p, m) PROVE TypeOK'
  BY <1>0, <1>5, TopologyAssumption DEF Take, processVars
<1>6. ASSUME NEW p \in Process, Stop(p) PROVE TypeOK'
  BY <1>0, <1>6 DEF Stop, Fault, brokerVars
<1>7. CASE BrokerRestarts
  BY <1>0, <1>7 DEF BrokerRestarts, Fault
<1>8. CASE UNCHANGED vars
  BY <1>0, <1>8 DEF vars, brokerVars, processVars
<1> QED
  BY <1>1, <1>2, <1>3, <1>4, <1>5, <1>6, <1>7, <1>8 DEF Next, Boot

LEMMA BehindStep ==
  ASSUME Inductive, [Next]_vars
  PROVE  Behind'
<1> SUFFICES ASSUME NEW p \in Process
             PROVE  /\ phase'[p] # "down" => \A n \in 1 .. next'[p] - 1 : Declared(Program[n])'
                    /\ phase'[p] = "ready" => next'[p] = Len(Program) + 1
  BY DEF Behind, Program, Listing
<1>1. TypeOK /\ Behind
  BY DEF Inductive
<1>2. \A n \in DOMAIN Program : Declared(Program[n]) => Declared(Program[n])'
  BY Grows DEF Declared, Program, Listing
<1>3. next[p] \in 1 .. Len(Program) + 1 /\ DOMAIN Program = 1 .. Len(Program) /\ Len(Program) \in Nat
  BY <1>1, ProgramType DEF TypeOK
<1>4. CASE /\ next'[p] = next[p]
           /\ phase'[p] \in {phase[p], "down"} \/ (phase[p] # "down" /\ phase'[p] = "severed")
  BY <1>1, <1>2, <1>3, <1>4 DEF Behind
<1>5. CASE Start(p)
  BY <1>1, <1>5 DEF Start, TypeOK
<1>6. CASE Declare(p)
  <2>1. /\ phase[p] = "declaring" /\ phase'[p] = "declaring"
        /\ next'[p] = next[p] + 1 /\ next[p] \in DOMAIN Program
    BY <1>1, <1>6 DEF Declare, TypeOK
  <2>2. PICK k \in DOMAIN Program : k = next[p]
    BY <2>1
  <2>3. Declared(Program[k])'
    <3>1. /\ exchange' = (exchange \/ Program[k].op = "exchange")
          /\ queues' = IF Program[k].op = "queue" THEN queues \cup {Program[k].queue} ELSE queues
          /\ bound' = IF Program[k].op = "bind" THEN bound \cup {Program[k].queue} ELSE bound
      BY <1>6, <2>2 DEF Declare
    <3>2. \/ Program[k].op = "exchange" /\ exchange'
          \/ Program[k].op = "queue" /\ Program[k].queue \in queues'
          \/ Program[k].op = "bind" /\ Program[k].queue \in bound'
      BY <3>1, ProgramType
    <3>3. Program' = Program
      BY DEF Program, Listing
    <3> QED
      BY <3>2, <3>3 DEF Declared
  <2>4. ASSUME NEW n \in 1 .. next'[p] - 1 PROVE Declared(Program[n])'
    <3>1. CASE n = k
      BY <2>3, <3>1
    <3>2. CASE n # k
      <4>1. n \in 1 .. next[p] - 1 /\ n \in DOMAIN Program
        BY <1>3, <2>1, <2>2, <3>2
      <4>2. Declared(Program[n])
        BY <1>1, <2>1, <4>1 DEF Behind
      <4> QED
        BY <1>2, <4>1, <4>2
    <3> QED
      BY <3>1, <3>2
  <2> QED
    BY <2>1, <2>4
<1>7. CASE Subscribe(p)
  <2>1. /\ phase[p] = "declaring" /\ next[p] \notin DOMAIN Program /\ next' = next
        /\ phase'[p] = "ready"
    BY <1>1, <1>7 DEF Subscribe, TypeOK
  <2> QED
    BY <1>1, <1>2, <1>3, <2>1 DEF Behind
<1>8. ASSUME NEW q \in Process, q # p, Boot(q)
      PROVE  next'[p] = next[p] /\ phase'[p] = phase[p]
  BY <1>1, <1>8 DEF Boot, Start, Declare, Subscribe, TypeOK
<1>9. ASSUME NEW q \in Process, Stop(q)
      PROVE  next'[p] = next[p] /\ (phase'[p] = phase[p] \/ phase'[p] = "down")
  BY <1>1, <1>9 DEF Stop, TypeOK
<1>10. CASE BrokerRestarts
  <2>1. /\ next'[p] = next[p]
        /\ phase'[p] = "down" \/ (phase[p] # "down" /\ phase'[p] = "severed")
    BY <1>10 DEF BrokerRestarts
  <2> QED
    BY <1>4, <2>1
<1> QED
  BY <1>4, <1>5, <1>6, <1>7, <1>8, <1>9, <1>10
     DEF Next, Boot, Take, Publish, vars, processVars

\* Routing, taking and restarting keep every message where it belongs.
LEMMA KeptStep ==
  ASSUME Inductive, [Next]_vars
  PROVE  ConfirmedIsKept' /\ OwnLaneOnly'
<1> USE DEF ConfirmedIsKept, OwnLaneOnly
<1>0. TypeOK /\ ConfirmedIsKept /\ OwnLaneOnly
  BY DEF Inductive
<1>1. CASE UNCHANGED <<content, key, taken>>
  BY <1>0, <1>1
<1>2. ASSUME NEW p \in Process, NEW m \in Msg, NEW k \in Queue, Publish(p, m, k)
      PROVE  ConfirmedIsKept' /\ OwnLaneOnly'
  <2>1. next[p] = Len(Program) + 1 /\ \A n \in 1 .. next[p] - 1 : Declared(Program[n])
    BY <1>2 DEF Inductive, Behind, Publish
  <2>2. k \in bound
    BY <2>1, ProgramType, AllBound
  <2>3. \A q \in Queue : content'[q] = IF q = k THEN content[q] \cup {m} ELSE content[q]
    BY <1>2, <2>2 DEF Publish, Route
  <2>4. /\ \A x \in Msg : key'[x] = IF x = m THEN k ELSE key[x]
        /\ taken' = taken /\ key[m] = None
    BY <1>0, <1>2 DEF Publish, TypeOK
  <2>5. taken[m] = None /\ \A q \in Queue : m \notin content[q]
    BY <1>0, <2>4, TopologyAssumption DEF TypeOK
  <2>6. \A x \in Msg : key[x] \in Queue \cup {None}
    BY <1>0 DEF TypeOK
  <2>7. ASSUME NEW x \in Msg, key'[x] # None
        PROVE  taken'[x] # None \/ x \in content'[key'[x]]
    <3>1. CASE x = m
      BY <2>3, <2>4, <3>1
    <3>2. CASE x # m
      <4>1. key'[x] = key[x] /\ key[x] \in Queue /\ taken'[x] = taken[x]
        BY <2>4, <2>6, <2>7, <3>2
      <4>2. taken[x] # None \/ x \in content[key[x]]
        BY <1>0, <2>7, <4>1
      <4>3. \A q \in Queue : content[q] \subseteq content'[q]
        BY <2>3
      <4> QED
        BY <4>1, <4>2, <4>3
    <3> QED
      BY <3>1, <3>2
  <2>8. ASSUME NEW x \in Msg
        PROVE  /\ \A q \in Queue : x \in content'[q] => key'[x] = q
               /\ taken'[x] # None => taken'[x] = key'[x]
    <3>1. CASE x = m
      BY <2>3, <2>4, <2>5, <3>1
    <3>2. CASE x # m
      <4>1. key'[x] = key[x] /\ taken'[x] = taken[x]
        BY <2>4, <3>2
      <4>2. \A q \in Queue : x \in content'[q] => x \in content[q]
        BY <2>3, <3>2
      <4> QED
        BY <1>0, <4>1, <4>2
    <3> QED
      BY <3>1, <3>2
  <2> QED
    BY <2>7, <2>8
<1>3. ASSUME NEW p \in Process, NEW m \in Msg, Take(p, m)
      PROVE  ConfirmedIsKept' /\ OwnLaneOnly'
  <2>1. PICK k \in Queue : k = Reads[p]
    BY <1>3, TopologyAssumption DEF Take
  <2>2. /\ \A q \in Queue : content'[q] = IF q = k THEN content[q] \ {m} ELSE content[q]
        /\ \A x \in Msg : taken'[x] = IF x = m THEN k ELSE taken[x]
        /\ key' = key /\ m \in content[k]
    BY <1>0, <1>3, <2>1 DEF Take, TypeOK
  <2>3. /\ \A x \in Msg : key[x] \in Queue \cup {None}
        /\ k # None
    BY <1>0, TopologyAssumption DEF TypeOK
  <2>4. ConfirmedIsKept'
    BY <1>0, <2>2, <2>3
  <2>5. ASSUME NEW x \in Msg
        PROVE  /\ \A q \in Queue : x \in content'[q] => key'[x] = q
               /\ taken'[x] # None => taken'[x] = key'[x]
    <3>1. \A q \in Queue : x \in content'[q] => x \in content[q]
      BY <2>2
    <3>2. /\ \A q \in Queue : x \in content[q] => key[x] = q
          /\ taken[x] # None => taken[x] = key[x]
      BY <1>0
    <3>3. x = m => key[x] = k
      BY <2>2, <3>2
    <3> QED
      BY <2>2, <3>1, <3>2, <3>3
  <2> QED
    BY <2>4, <2>5
<1>4. CASE BrokerRestarts
  BY <1>0, <1>4 DEF BrokerRestarts
<1> QED
  BY <1>1, <1>2, <1>3, <1>4
     DEF Next, Boot, Start, Declare, Subscribe, Stop, vars, brokerVars

\* The declarations behind every process are there, and with them every
\* confirmed message, whoever starts, stops or restarts (topology.go:48-72).
THEOREM InductiveInvariant == Spec => []Inductive
<1>1. Inductive /\ [Next]_vars => Inductive'
  BY TypeStep, BehindStep, KeptStep DEF Inductive
<1> QED
  BY InitInductive, <1>1, PTL DEF Spec

\* A confirmed message is in its queue or was taken from it: mandatory=false
\* loses nothing (publisher.go:95).
THEOREM NothingUnroutable == Spec => []ConfirmedIsKept
<1>1. Inductive => ConfirmedIsKept
  BY DEF Inductive
<1> QED
  BY <1>1, InductiveInvariant, PTL

\* A message is in no queue but its own, and no other lane's worker takes it
\* (topology.go:14-16).
THEOREM LanesApart == Spec => []OwnLaneOnly
<1>1. Inductive => OwnLaneOnly
  BY DEF Inductive
<1> QED
  BY <1>1, InductiveInvariant, PTL

=============================================================================
