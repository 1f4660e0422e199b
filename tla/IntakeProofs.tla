---------------------------- MODULE IntakeProofs ----------------------------
(***************************************************************************)
(* Proofs about Intake, for any requests, items, templates and durations.  *)
(***************************************************************************)
EXTENDS Intake, TLAPS

LEMMA CallType ==
  ASSUME NEW r \in Request
  PROVE  /\ Len(Items[r]) \in Nat /\ Items[r] \in Seq(Item)
         /\ DOMAIN Items[r] = 1 .. Len(Items[r])
         /\ \A i \in DOMAIN Items[r] : <<r, i>> \in Call
<1>1. Items[r] \in Seq(Item)
  BY IntakeAssumption
<1>2. ASSUME NEW i \in DOMAIN Items[r] PROVE <<r, i>> \in Call
  BY <1>2 DEF Call
<1> QED
  BY <1>1, <1>2

\* The item in hand is one of the request's.
LEMMA InHand ==
  ASSUME TypeOK, NEW r \in Request, OneByOne(r), ~AllDone(r)
  PROVE  /\ Len(answers[r]) \in Nat
         /\ Len(answers[r]) + 1 \in DOMAIN Items[r]
         /\ Current(r) \in Call
<1>1. answers[r] \in Seq({"accepted", "invalid", "no_template", "failed"})
  BY DEF TypeOK
<1>2. Len(answers[r]) \in Nat /\ Len(answers[r]) + 1 \in DOMAIN Items[r]
  BY <1>1, CallType DEF OneByOne, AllDone
<1> QED
  BY <1>2, CallType DEF Current

LEMMA InitInductive == Init => Inductive
<1> SUFFICES ASSUME Init PROVE Inductive
  OBVIOUS
<1>1. TypeOK
  BY DEF Init, TypeOK, Reached, Broken, Contract!Init
<1>2. ASSUME NEW r \in Request PROVE OneByOne(r)
  <2>1. answers[r] = <<>> /\ phase[r] = "new" /\ Len(answers[r]) = 0
    BY DEF Init
  <2>2. \A i \in DOMAIN Items[r] : result[<<r, i>>] = "idle" /\ i > 0 /\ i \in Nat
    BY CallType DEF Init, Contract!Init
  <2> QED
    BY <2>1, <2>2, CallType DEF OneByOne
<1>3. ASSUME NEW r \in Request PROVE InTime(r)
  BY IntakeAssumption DEF Init, InTime, InFlight, Broken
<1>4. StoredIsPublished /\ ShutdownWaits
  BY DEF Init, Contract!Init, StoredIsPublished, ShutdownWaits
<1> QED
  BY <1>1, <1>2, <1>3, <1>4 DEF Inductive

\* What a step of one request leaves alone in another.
LEMMA OtherRequests ==
  ASSUME TypeOK, NEW q \in Request, NEW r \in Request, r # q,
         Receive(q) \/ Handle(q)
  PROVE  /\ phase'[r] = phase[r] /\ answers'[r] = answers[r]
         /\ age'[r] = age[r] /\ headAt'[r] = headAt[r] /\ readAt'[r] = readAt[r]
         /\ waited'[r] = waited[r] /\ cameAt'[r] = cameAt[r]
         /\ \A i \in DOMAIN Items[r] : result'[<<r, i>>] = result[<<r, i>>]
         /\ grace' = grace /\ proc' = proc
<1> USE DEF TypeOK, timeVars, contractVars
<1>1. CASE Connect(q) \/ Arrive(q) \/ Close(q)
  BY <1>1 DEF Connect, Arrive, Close
<1>2. CASE Read(q)
  BY <1>2 DEF Read
<1>3. CASE Refuse(q)
  BY <1>3 DEF Refuse
<1>4. CASE Reject(q)
  BY <1>4 DEF Reject
<1>5. CASE Publish(q)
  <2>1. result' = [result EXCEPT ![Current(q)] = "busy"]
    BY <1>5 DEF Publish, Contract!Begin
  <2>2. \A i \in DOMAIN Items[r] : <<r, i>> \in Call /\ <<r, i>> # Current(q)
    BY CallType DEF Current
  <2>3. \A i \in DOMAIN Items[r] : result'[<<r, i>>] = result[<<r, i>>]
    BY <2>1, <2>2
  <2> QED
    BY <1>5, <2>3 DEF Publish
<1>6. CASE Return(q)
  <2>1. \/ result' = [result EXCEPT ![Current(q)] = "ok"]
        \/ result' = [result EXCEPT ![Current(q)] = "error"]
    BY <1>6 DEF Return, Contract!ReturnOk, Contract!ReturnError
  <2>2. \A i \in DOMAIN Items[r] : <<r, i>> \in Call /\ <<r, i>> # Current(q)
    BY CallType DEF Current
  <2>3. \A i \in DOMAIN Items[r] : result'[<<r, i>>] = result[<<r, i>>]
    BY <2>1, <2>2
  <2> QED
    BY <1>6, <2>3 DEF Return
<1>7. CASE Answer(q)
  BY <1>7 DEF Answer
<1>8. CASE Leave(q)
  BY <1>8 DEF Leave
<1> QED
  BY <1>1, <1>2, <1>3, <1>4, <1>5, <1>6, <1>7, <1>8 DEF Receive, Handle

LEMMA TypeStep ==
  ASSUME Inductive, [Next]_vars
  PROVE  TypeOK'
<1> USE DEF TypeOK, timeVars, contractVars, Reached, Broken
<1>0. TypeOK
  BY DEF Inductive
<1>1. ASSUME NEW r \in Request, Connect(r) \/ Arrive(r) \/ Close(r) PROVE TypeOK'
  <2>1. CASE Connect(r) \/ Close(r)
    BY <1>0, <2>1 DEF Connect, Close
  <2>2. CASE Arrive(r)
    BY <1>0, <2>2 DEF Arrive
  <2> QED
    BY <1>1, <2>1, <2>2
<1>2. ASSUME NEW r \in Request, Read(r) PROVE TypeOK'
  BY <1>0, <1>2 DEF Read
<1>3. ASSUME NEW r \in Request, Refuse(r) PROVE TypeOK'
  BY <1>0, <1>3 DEF Refuse
<1>4. ASSUME NEW r \in Request, Reject(r) PROVE TypeOK'
  BY <1>0, <1>4 DEF Reject, VerdictOf, Verdict
<1>5. ASSUME NEW r \in Request, Publish(r) PROVE TypeOK'
  BY <1>0, <1>5 DEF Publish, Contract!Begin
<1>6. ASSUME NEW r \in Request, Return(r) PROVE TypeOK'
  <2>1. answers' \in [Request -> Seq({"accepted", "invalid", "no_template", "failed"})]
    <3>1. PICK a \in {"accepted", "failed"} : answers' = [answers EXCEPT ![r] = Append(@, a)]
      BY <1>6 DEF Return
    <3>2. Append(answers[r], a) \in Seq({"accepted", "invalid", "no_template", "failed"})
      BY <1>0
    <3> QED
      BY <1>0, <3>1, <3>2
  <2>2. result' \in [Call -> {"idle", "busy", "ok", "error"}] /\ stored' = stored
    <3>1. \/ result' = [result EXCEPT ![Current(r)] = "ok"]
          \/ result' = [result EXCEPT ![Current(r)] = "error"]
      BY <1>6 DEF Return, Contract!ReturnOk, Contract!ReturnError
    <3>2. stored' = stored
      BY <1>6 DEF Return, Contract!ReturnOk, Contract!ReturnError
    <3> QED
      BY <1>0, <3>1, <3>2
  <2> QED
    BY <1>0, <1>6, <2>1, <2>2 DEF Return
<1>7. ASSUME NEW r \in Request, Answer(r) PROVE TypeOK'
  BY <1>0, <1>7 DEF Answer
<1>8. ASSUME NEW r \in Request, Leave(r) PROVE TypeOK'
  BY <1>0, <1>8 DEF Leave
<1>9. CASE BrokerStores
  BY <1>0, <1>9 DEF BrokerStores, Contract!Store
<1>10. CASE Tick
  BY <1>0, <1>10 DEF Tick
<1>11. CASE Signal \/ Exit \/ GiveUp \/ Crash
  BY <1>0, <1>11 DEF Signal, Exit, GiveUp, Crash, Break
<1>12. CASE UNCHANGED vars
  BY <1>0, <1>12 DEF vars
<1> QED
  BY <1>1, <1>2, <1>3, <1>4, <1>5, <1>6, <1>7, <1>8, <1>9, <1>10, <1>11, <1>12
     DEF Next, Receive, Handle

\* A step that changes neither answers nor results, and breaks off at most.
LEMMA OneByOneFrame ==
  ASSUME TypeOK, NEW r \in Request, OneByOne(r),
         \/ phase'[r] = phase[r]
         \/ phase'[r] = "broken"
         \/ phase[r] = "connected" /\ phase'[r] = "closed"
         \/ phase[r] = "reading" /\ phase'[r] = "unread",
         answers'[r] = answers[r],
         \A i \in DOMAIN Items[r] : result'[<<r, i>>] = result[<<r, i>>]
  PROVE  OneByOne(r)'
<1>1. Current(r)' = Current(r) /\ AllDone(r)' = AllDone(r)
  BY DEF Current, AllDone
<1>2. ASSUME phase'[r] = "publishing" PROVE ~AllDone(r)' /\ result'[Current(r)'] = "busy"
  <2>1. phase[r] = "publishing"
    BY <1>2
  <2>2. ~AllDone(r) /\ result[Current(r)] = "busy"
    BY <2>1 DEF OneByOne
  <2>3. result'[Current(r)] = result[Current(r)]
    BY <2>2, InHand DEF Current
  <2> QED
    BY <1>1, <2>2, <2>3
<1> QED
  BY <1>1, <1>2 DEF OneByOne, ResultOf, AllDone

\* The items in front of the one in hand keep their answers when it gets one.
LEMMA Appended ==
  ASSUME TypeOK, NEW r \in Request, OneByOne(r), ~AllDone(r),
         NEW a \in {"accepted", "invalid", "no_template", "failed"},
         answers' = [answers EXCEPT ![r] = Append(@, a)]
  PROVE  /\ Len(answers'[r]) = Len(answers[r]) + 1
         /\ Len(answers'[r]) <= Len(Items[r])
         /\ \A i \in 1 .. Len(answers[r]) : answers'[r][i] = answers[r][i]
         /\ answers'[r][Len(answers[r]) + 1] = a
<1>1. answers[r] \in Seq({"accepted", "invalid", "no_template", "failed"})
  BY DEF TypeOK
<1>2. answers'[r] = Append(answers[r], a)
  BY DEF TypeOK
<1>3. Len(answers[r]) + 1 <= Len(Items[r])
  BY InHand, CallType
<1> QED
  BY <1>1, <1>2, <1>3

\* The item in hand gets the answer that goes with the result of its publish.
LEMMA AnsweredOneByOne ==
  ASSUME TypeOK, NEW r \in Request, OneByOne(r), ~AllDone(r), phase'[r] = "handling",
         NEW a \in {"accepted", "invalid", "no_template", "failed"},
         answers' = [answers EXCEPT ![r] = Append(@, a)],
         result'[Current(r)] = ResultOf(a),
         result'[Current(r)] # "idle" => VerdictOf(ItemInHand(r)) = "publish",
         \A i \in DOMAIN Items[r] :
           i # Len(answers[r]) + 1 => result'[<<r, i>>] = result[<<r, i>>]
  PROVE  OneByOne(r)'
<1>1. PICK n \in Nat : n = Len(answers[r])
  BY InHand
<1>2. /\ Len(answers'[r]) = n + 1 /\ n + 1 <= Len(Items[r])
      /\ \A i \in 1 .. n : answers'[r][i] = answers[r][i]
      /\ answers'[r][n + 1] = a
  BY <1>1, Appended
<1>3. DOMAIN Items[r] = 1 .. Len(Items[r]) /\ Len(Items[r]) \in Nat
  BY CallType
<1>4. ASSUME NEW i \in DOMAIN Items[r], i <= n + 1
      PROVE  result'[<<r, i>>] = ResultOf(answers'[r][i])
  <2>1. CASE i = n + 1
    BY <1>1, <1>2, <2>1 DEF Current
  <2>2. CASE i # n + 1
    <3>1. i \in 1 .. n
      BY <1>3, <1>4, <2>2
    <3>2. result[<<r, i>>] = ResultOf(answers[r][i])
      BY <1>1, <3>1 DEF OneByOne
    <3>3. answers'[r][i] = answers[r][i]
      BY <1>2, <3>1
    <3>4. result'[<<r, i>>] = result[<<r, i>>]
      BY <1>1, <2>2
    <3> QED
      BY <3>2, <3>3, <3>4
  <2> QED
    BY <2>1, <2>2
<1>5. ASSUME NEW i \in DOMAIN Items[r], i > n + 1 PROVE result'[<<r, i>>] = "idle"
  BY <1>1, <1>3, <1>5 DEF OneByOne
<1>6. ASSUME NEW i \in DOMAIN Items[r], result'[<<r, i>>] # "idle"
      PROVE  VerdictOf(Items[r][i]) = "publish"
  <2>1. CASE i = n + 1
    BY <1>1, <1>6, <2>1 DEF Current, ItemInHand
  <2>2. CASE i # n + 1
    BY <1>1, <1>6, <2>2 DEF OneByOne
  <2> QED
    BY <2>1, <2>2
<1> QED
  BY <1>2, <1>3, <1>4, <1>5, <1>6 DEF OneByOne, ResultOf

LEMMA RequestOneByOne ==
  ASSUME TypeOK, NEW r \in Request, OneByOne(r),
         Receive(r) \/ Handle(r)
  PROVE  OneByOne(r)'
<1>1. CASE UNCHANGED <<phase, answers, result>>
  BY <1>1, OneByOneFrame
<1>2. CASE /\ UNCHANGED <<answers, result>>
           /\ \/ phase[r] = "new" /\ phase'[r] = "connected"
              \/ phase[r] = "connected" /\ phase'[r] \in {"closed", "reading"}
              \/ phase[r] = "reading" /\ phase'[r] \in {"handling", "refused"}
              \/ phase[r] = "handling" /\ AllDone(r) /\ phase'[r] \in {"answered", "cut", "unseen"}
  BY <1>2 DEF OneByOne, AllDone, Current, ResultOf
<1>3. CASE Reject(r)
  <2>1. VerdictOf(ItemInHand(r)) \in {"invalid", "no_template"}
    BY <1>3 DEF Reject, VerdictOf, Verdict
  <2>2. /\ ~AllDone(r) /\ phase[r] = "handling" /\ phase' = phase /\ result' = result
        /\ answers' = [answers EXCEPT ![r] = Append(@, VerdictOf(ItemInHand(r)))]
    BY <1>3 DEF Reject, contractVars
  <2>3. result[Current(r)] = "idle"
    BY <2>2, InHand DEF OneByOne, Current
  <2>4. ResultOf(VerdictOf(ItemInHand(r))) = "idle"
    BY <2>1 DEF ResultOf
  <2> QED
    BY <2>1, <2>2, <2>3, <2>4, AnsweredOneByOne
<1>4. CASE Publish(r)
  <2>1. /\ ~AllDone(r) /\ phase[r] = "handling" /\ phase'[r] = "publishing"
        /\ answers' = answers /\ result' = [result EXCEPT ![Current(r)] = "busy"]
        /\ VerdictOf(ItemInHand(r)) = "publish"
    BY <1>4 DEF Publish, Contract!Begin, TypeOK
  <2>2. result'[Current(r)] = "busy"
    BY <2>1, InHand DEF TypeOK
  <2>3. \A i \in DOMAIN Items[r] :
          i # Len(answers[r]) + 1 => result'[<<r, i>>] = result[<<r, i>>]
    BY <2>1, CallType DEF Current, TypeOK
  <2>4. Len(answers[r]) \in Nat /\ DOMAIN Items[r] = 1 .. Len(Items[r]) /\ Len(Items[r]) \in Nat
    BY <2>1, InHand, CallType
  <2> QED
    BY <2>1, <2>2, <2>3, <2>4 DEF OneByOne, Current, ItemInHand, AllDone, ResultOf
<1>5. CASE Return(r)
  <2>1. ~AllDone(r) /\ result[Current(r)] = "busy"
    BY <1>5 DEF Return, OneByOne
  <2>2. Current(r) \in Call /\ phase'[r] = "handling" /\ VerdictOf(ItemInHand(r)) = "publish"
    BY <1>5, <2>1, InHand DEF Return, TypeOK, OneByOne, Current, ItemInHand
  <2>3. PICK a \in {"accepted", "failed"} :
          /\ answers' = [answers EXCEPT ![r] = Append(@, a)]
          /\ result' = [result EXCEPT ![Current(r)] = ResultOf(a)]
    BY <1>5 DEF Return, Contract!ReturnOk, Contract!ReturnError, ResultOf
  <2>4. result'[Current(r)] = ResultOf(a)
    BY <2>2, <2>3 DEF TypeOK
  <2>5. \A i \in DOMAIN Items[r] :
          i # Len(answers[r]) + 1 => result'[<<r, i>>] = result[<<r, i>>]
    BY <2>3, CallType DEF Current, TypeOK
  <2> QED
    BY <2>1, <2>2, <2>3, <2>4, <2>5, AnsweredOneByOne
<1> QED
  BY <1>1, <1>2, <1>3, <1>4, <1>5
     DEF Receive, Handle, Connect, Arrive, Close, Read, Refuse, Answer, Leave, TypeOK, contractVars

LEMMA OneByOneStep ==
  ASSUME Inductive, [Next]_vars, NEW r \in Request
  PROVE  OneByOne(r)'
<1>1. TypeOK /\ OneByOne(r)
  BY DEF Inductive
<1>2. CASE Receive(r) \/ Handle(r)
  BY <1>1, <1>2, RequestOneByOne
<1>3. ASSUME NEW q \in Request, q # r, Receive(q) \/ Handle(q)
      PROVE  OneByOne(r)'
  BY <1>1, <1>3, OtherRequests, OneByOneFrame
<1>4. CASE UNCHANGED <<answers, result>> /\ (phase' = phase \/ Break)
  <2>1. \/ phase'[r] = phase[r]
        \/ phase'[r] = "broken"
        \/ phase[r] = "connected" /\ phase'[r] = "closed"
        \/ phase[r] = "reading" /\ phase'[r] = "unread"
    BY <1>4 DEF Break
  <2> QED
    BY <1>1, <1>4, <2>1, OneByOneFrame
<1> QED
  BY <1>2, <1>3, <1>4
     DEF Next, BrokerStores, Contract!Store, Tick, Signal, Exit, GiveUp, Crash, vars,
         timeVars, contractVars

LEMMA StoredIsPublishedStep ==
  ASSUME Inductive, [Next]_vars
  PROVE  StoredIsPublished'
<1> USE DEF StoredIsPublished
<1>1. TypeOK /\ StoredIsPublished /\ Call' = Call
  BY DEF Inductive, Call
<1>2. CASE UNCHANGED <<result, stored>>
  BY <1>1, <1>2
<1>3. ASSUME NEW r \in Request, Publish(r) PROVE StoredIsPublished'
  BY <1>1, <1>3 DEF Publish, Contract!Begin, TypeOK
<1>4. ASSUME NEW r \in Request, Return(r) PROVE StoredIsPublished'
  BY <1>1, <1>4 DEF Return, Contract!ReturnOk, Contract!ReturnError, TypeOK
<1>5. CASE BrokerStores
  BY <1>1, <1>5 DEF BrokerStores, Contract!Store, TypeOK
<1> QED
  BY <1>2, <1>3, <1>4, <1>5
     DEF Next, Receive, Handle, Connect, Arrive, Close, Read, Refuse, Reject, Answer, Leave,
         Tick, Signal, Exit, GiveUp, Crash, vars, contractVars

\* Time that goes on for a request is time it reads or publishes.
LEMMA InTimeStep ==
  ASSUME Inductive, [Next]_vars, NEW r \in Request
  PROVE  InTime(r)'
<1> USE DEF InTime, InFlight, Serving, Broken
<1>1. /\ TypeOK /\ OneByOne(r) /\ InTime(r)
      /\ Budget \in Nat /\ WriteTimeout \in Nat /\ Grace \in Nat
      /\ HeaderTimeout \in Nat /\ ReadTimeout \in Nat /\ HeaderTimeout <= ReadTimeout
  BY IntakeAssumption DEF Inductive
<1>2. /\ age[r] \in Nat /\ headAt[r] \in Nat /\ readAt[r] \in Nat /\ waited[r] \in Nat
      /\ grace \in Nat /\ cameAt[r] \in Nat
      /\ Len(answers[r]) \in Nat /\ Budget * Len(answers[r]) \in Nat
  BY <1>1 DEF TypeOK
<1>3. Budget * (Len(answers[r]) + 1) = Budget * Len(answers[r]) + Budget
  BY <1>1, <1>2
<1>4. CASE /\ age'[r] = age[r] /\ headAt'[r] = headAt[r] /\ readAt'[r] = readAt[r]
           /\ waited'[r] = waited[r] /\ cameAt'[r] = cameAt[r]
           /\ answers'[r] = answers[r] /\ grace' = grace
           /\ phase'[r] = phase[r] /\ proc' = proc
  BY <1>1, <1>4
<1>5. ASSUME NEW q \in Request, q # r, Receive(q) \/ Handle(q)
      PROVE  InTime(r)'
  BY <1>1, <1>4, <1>5, OtherRequests
<1>6. CASE Connect(r) \/ Arrive(r) \/ Close(r)
  <2>1. CASE Connect(r)
    <3>1. /\ phase[r] = "new" /\ proc = "up" /\ phase'[r] = "connected"
          /\ UNCHANGED <<answers, proc, timeVars>>
      BY <1>1, <2>1 DEF Connect, TypeOK
    <3> QED
      BY <1>1, <1>2, <3>1 DEF timeVars
  <2>2. CASE Arrive(r)
    <3>1. /\ phase[r] = "connected" /\ phase'[r] = "reading"
          /\ headAt'[r] = age[r] /\ cameAt'[r] = grace
          /\ UNCHANGED <<answers, proc, age, readAt, waited, grace>>
      BY <1>1, <2>2 DEF Arrive, TypeOK
    <3>2. age[r] <= HeaderTimeout /\ grace <= age[r] /\ age[r] <= ReadTimeout
      BY <1>1, <1>2, <3>1
    <3> QED
      BY <1>1, <1>2, <3>1, <3>2
  <2>3. CASE Close(r)
    BY <1>1, <2>3 DEF Close, timeVars, TypeOK
  <2> QED
    BY <1>6, <2>1, <2>2, <2>3
<1>7. CASE Read(r)
  BY <1>1, <1>2, <1>7 DEF Read, TypeOK
<1>8. CASE Refuse(r)
  BY <1>1, <1>8 DEF Refuse, timeVars, TypeOK
<1>9. CASE Reject(r)
  <2>1. /\ phase[r] = "handling" /\ phase' = phase /\ UNCHANGED <<proc, timeVars>>
        /\ VerdictOf(ItemInHand(r)) \in {"invalid", "no_template"} /\ ~AllDone(r)
        /\ answers' = [answers EXCEPT ![r] = Append(@, VerdictOf(ItemInHand(r)))]
    BY <1>9 DEF Reject, VerdictOf, Verdict
  <2>2. Len(answers'[r]) = Len(answers[r]) + 1
    BY <1>1, <2>1, Appended
  <2>3. Budget * Len(answers'[r]) = Budget * Len(answers[r]) + Budget
    BY <1>3, <2>2
  <2>4. age[r] <= readAt[r] + Budget * Len(answers'[r])
    BY <1>1, <1>2, <2>1, <2>3
  <2> QED
    BY <1>1, <2>1, <2>4 DEF timeVars
<1>10. CASE Publish(r)
  BY <1>1, <1>2, <1>10 DEF Publish, TypeOK
<1>11. CASE Return(r)
  <2>1. PICK a \in {"accepted", "failed"} : answers' = [answers EXCEPT ![r] = Append(@, a)]
    BY <1>11 DEF Return
  <2>2. /\ phase[r] = "publishing" /\ phase'[r] = "handling" /\ UNCHANGED <<proc, timeVars>>
        /\ ~AllDone(r)
    BY <1>1, <1>11 DEF Return, OneByOne, TypeOK
  <2>3. Len(answers'[r]) = Len(answers[r]) + 1
    BY <1>1, <2>1, <2>2, Appended
  <2>4. Budget * Len(answers'[r]) = Budget * Len(answers[r]) + Budget
    BY <1>3, <2>3
  <2>5. age[r] <= readAt[r] + Budget * Len(answers'[r])
    BY <1>1, <1>2, <2>2, <2>4
  <2> QED
    BY <1>1, <2>2, <2>5 DEF timeVars
<1>12. CASE Answer(r)
  BY <1>1, <1>2, <1>12 DEF Answer, timeVars, TypeOK
<1>13. CASE Tick
  <2>1. /\ phase' = phase /\ proc' = proc /\ answers' = answers
        /\ headAt' = headAt /\ readAt' = readAt /\ cameAt' = cameAt
        /\ age'[r] = IF Open(r) THEN age[r] + 1 ELSE age[r]
        /\ waited'[r] = IF phase[r] = "publishing" THEN waited[r] + 1 ELSE waited[r]
        /\ grace' = IF proc = "stopping" THEN grace + 1 ELSE grace
        /\ phase[r] = "connected" => age[r] < HeaderTimeout
        /\ phase[r] = "reading" => age[r] < ReadTimeout
        /\ phase[r] = "publishing" => waited[r] < Budget
        /\ phase[r] # "handling"
    BY <1>1, <1>2, <1>13 DEF Tick, Overdue
  <2>2. CASE phase[r] \in {"connected", "reading"}
    <3>1. /\ age'[r] = age[r] + 1 /\ grace' \in Nat /\ grace' <= grace + 1
          /\ proc' = "up" => grace' = 0
      BY <1>1, <1>2, <2>1, <2>2 DEF Open
    <3>2. cameAt'[r] <= headAt'[r] /\ headAt'[r] <= age'[r] /\ headAt'[r] <= HeaderTimeout
      BY <1>1, <1>2, <2>1, <3>1
    <3>3. CASE phase[r] = "connected"
      <4>1. age'[r] <= HeaderTimeout /\ grace' <= age'[r]
        BY <1>1, <1>2, <2>1, <3>1, <3>3
      <4> QED
        BY <2>1, <3>1, <3>2, <3>3, <4>1
    <3>4. CASE phase[r] = "reading"
      <4>1. age'[r] <= ReadTimeout /\ grace' <= cameAt'[r] + (age'[r] - headAt'[r])
        BY <1>1, <1>2, <2>1, <3>1, <3>4
      <4> QED
        BY <2>1, <3>1, <3>2, <3>4, <4>1
    <3> QED
      BY <2>2, <3>3, <3>4
  <2>3. CASE phase[r] = "publishing"
    <3>1. /\ age'[r] = age[r] + 1 /\ waited'[r] = waited[r] + 1
          /\ Budget * Len(answers'[r]) = Budget * Len(answers[r])
      BY <2>1, <2>3 DEF Open
    <3>2. \A k \in Nat : age[r] <= readAt[r] + k + waited[r] =>
                          age'[r] <= readAt'[r] + k + waited'[r]
      <4>1. age[r] \in Nat /\ readAt[r] \in Nat /\ waited[r] \in Nat
        BY <1>2
      <4> QED
        BY <2>1, <3>1, <4>1
    <3>3. age'[r] <= readAt'[r] + Budget * Len(answers'[r]) + waited'[r]
      BY <1>1, <1>2, <2>3, <3>1, <3>2
    <3>4. waited'[r] <= Budget
      <4>1. waited[r] \in Nat /\ Budget \in Nat /\ waited[r] < Budget
        BY <1>1, <1>2, <2>1, <2>3
      <4> QED
        BY <3>1, <4>1
    <3>5. /\ proc' = "up" => grace' = 0
          /\ grace' <= cameAt'[r] + (age'[r] - headAt'[r])
          /\ cameAt'[r] <= headAt'[r] /\ headAt'[r] <= age'[r] /\ headAt'[r] <= HeaderTimeout
      <4>1. /\ age[r] \in Nat /\ headAt[r] \in Nat /\ cameAt[r] \in Nat /\ grace \in Nat
            /\ proc = "up" => grace = 0
            /\ grace <= cameAt[r] + (age[r] - headAt[r])
            /\ cameAt[r] <= headAt[r] /\ headAt[r] <= age[r] /\ headAt[r] <= HeaderTimeout
        BY <1>1, <1>2, <2>3
      <4> QED
        BY <2>1, <3>1, <4>1
    <3> QED
      BY <2>1, <2>3, <3>3, <3>4, <3>5
  <2>4. CASE ~Open(r)
    BY <1>1, <1>2, <2>1, <2>4 DEF Open
  <2> QED
    BY <2>1, <2>2, <2>3, <2>4 DEF Open
<1>14. CASE Signal
  BY <1>1, <1>2, <1>14 DEF Signal, timeVars
<1>15. CASE Exit \/ GiveUp \/ Crash
  BY <1>1, <1>15 DEF Exit, GiveUp, Crash, Break, timeVars, TypeOK
<1>16. CASE Leave(r) \/ BrokerStores \/ UNCHANGED vars
  BY <1>4, <1>16 DEF Leave, BrokerStores, vars, timeVars
<1> QED
  BY <1>5, <1>6, <1>7, <1>8, <1>9, <1>10, <1>11, <1>12, <1>13, <1>14, <1>15, <1>16
     DEF Next, Receive, Handle

LEMMA ShutdownWaitsStep ==
  ASSUME Inductive, [Next]_vars
  PROVE  ShutdownWaits'
<1> SUFFICES ASSUME NEW r \in Request, proc' = "gave_up"
             PROVE  /\ phase'[r] = "unread" => age'[r] - headAt'[r] >= Grace - cameAt'[r]
                    /\ phase'[r] = "broken" =>
                         (readAt'[r] - headAt'[r]) + Budget * (Len(answers'[r]) + 1)
                           >= Grace - cameAt'[r]
                    /\ cameAt'[r] <= HeaderTimeout
  BY DEF ShutdownWaits
<1>1. TypeOK /\ InTime(r) /\ ShutdownWaits
  BY DEF Inductive
<1>2. /\ Budget \in Nat /\ Grace \in Nat /\ HeaderTimeout \in Nat
      /\ age[r] \in Nat /\ headAt[r] \in Nat /\ readAt[r] \in Nat /\ waited[r] \in Nat
      /\ grace \in Nat /\ cameAt[r] \in Nat
      /\ Len(answers[r]) \in Nat /\ Budget * Len(answers[r]) \in Nat
      /\ Budget * (Len(answers[r]) + 1) = Budget * Len(answers[r]) + Budget
  BY <1>1, IntakeAssumption DEF TypeOK
<1>3. CASE UNCHANGED <<phase, proc, answers, age, headAt, readAt, cameAt>>
  BY <1>1, <1>3 DEF ShutdownWaits
<1>4. CASE proc' = proc /\ Serving
  BY <1>4 DEF Serving
<1>5. CASE GiveUp
  <2>1. /\ proc = "stopping" /\ grace = Grace
        /\ UNCHANGED <<answers, age, headAt, readAt, cameAt>>
    BY <1>5 DEF GiveUp, timeVars
  <2>2. /\ phase[r] \notin Broken
        /\ InFlight(r) => Grace <= cameAt[r] + (age[r] - headAt[r])
    BY <1>1, <2>1 DEF InTime, Serving
  <2>3. cameAt'[r] <= HeaderTimeout
    <3>1. cameAt[r] <= headAt[r] /\ headAt[r] <= HeaderTimeout
      BY <1>1 DEF InTime
    <3> QED
      BY <1>2, <2>1, <3>1
  <2>4. CASE phase[r] = "reading"
    <3>1. phase'[r] = "unread" /\ Grace <= cameAt[r] + (age[r] - headAt[r])
      BY <1>5, <2>2, <2>4 DEF GiveUp, Break, InFlight
    <3>2. age[r] - headAt[r] >= Grace - cameAt[r]
      BY <1>2, <3>1
    <3> QED
      BY <2>1, <2>3, <3>1, <3>2
  <2>5. CASE phase[r] \in {"handling", "publishing"}
    <3>1. phase'[r] = "broken" /\ Grace <= cameAt[r] + (age[r] - headAt[r])
      BY <1>5, <2>2, <2>5 DEF GiveUp, Break, InFlight
    <3>2. PICK spent \in Nat : spent = Budget * Len(answers[r])
      BY <1>2
    <3>3. \/ age[r] <= readAt[r] + spent
          \/ waited[r] <= Budget /\ age[r] <= readAt[r] + spent + waited[r]
      BY <1>1, <2>5, <3>2 DEF InTime
    <3>4. /\ age[r] \in Nat /\ headAt[r] \in Nat /\ readAt[r] \in Nat /\ waited[r] \in Nat
          /\ cameAt[r] \in Nat /\ Budget \in Nat /\ Grace \in Nat
      BY <1>2
    <3>5. (readAt[r] - headAt[r]) + (spent + Budget) >= Grace - cameAt[r]
      BY <3>1, <3>3, <3>4
    <3>6. Budget * (Len(answers[r]) + 1) = spent + Budget
      BY <1>2, <3>2
    <3> QED
      BY <2>1, <2>3, <3>1, <3>5, <3>6
  <2>6. CASE phase[r] \notin {"reading", "handling", "publishing"}
    BY <1>5, <2>2, <2>3, <2>6 DEF GiveUp, Break, Broken
  <2> QED
    BY <2>4, <2>5, <2>6
<1> QED
  BY <1>3, <1>4, <1>5
     DEF Next, Receive, Handle, Connect, Arrive, Close, Read, Refuse, Reject, Publish, Return,
         Answer, Leave, BrokerStores, Tick, Signal, Exit, Crash, Serving, vars, timeVars

\* The bookkeeping of requests, publishes and time is kept by every step
\* (handler.go:32-59, service.go:57-85, server.go:27-32, main.go:66-76).
THEOREM InductiveInvariant == Spec => []Inductive
<1>1. Inductive /\ [Next]_vars => Inductive'
  BY TypeStep, OneByOneStep, InTimeStep, StoredIsPublishedStep, ShutdownWaitsStep DEF Inductive
<1> QED
  BY InitInductive, <1>1, PTL DEF Spec

\* "accepted" stands for a stored message, and of a rejected item nothing is
\* ever stored (handler.go:48-56).
THEOREM AnswersAreTrue == Spec => []AnswersTrue
<1>1. ASSUME Inductive, NEW r \in Request, NEW i \in DOMAIN answers[r]
      PROVE  /\ answers[r][i] = "accepted" => <<r, i>> \in stored
             /\ answers[r][i] \in {"invalid", "no_template"} => <<r, i>> \notin stored
  <2>1. OneByOne(r) /\ StoredIsPublished
    BY <1>1 DEF Inductive
  <2>2. answers[r] \in Seq({"accepted", "invalid", "no_template", "failed"})
    BY <1>1 DEF Inductive, TypeOK
  <2>3. i \in DOMAIN Items[r] /\ i <= Len(answers[r])
    BY <2>1, <2>2, CallType DEF OneByOne
  <2>4. result[<<r, i>>] = ResultOf(answers[r][i]) /\ <<r, i>> \in Call
    BY <2>1, <2>3, CallType DEF OneByOne
  <2> QED
    BY <2>1, <2>4 DEF StoredIsPublished, ResultOf
<1>2. Inductive => AnswersTrue
  BY <1>1 DEF AnswersTrue
<1> QED
  BY <1>2, InductiveInvariant, PTL

\* After a 400 nothing of the request is stored (errors.go:28-57).
THEOREM ClientErrorsAreClean == Spec => []ClientErrorStoresNothing
<1>1. ASSUME Inductive, NEW r \in Request, NEW i \in DOMAIN Items[r],
             phase[r] \in {"refused", "answered"}, Status(r) = 400
      PROVE  <<r, i>> \notin stored
  <2>1. /\ OneByOne(r) /\ StoredIsPublished /\ <<r, i>> \in Call
        /\ DOMAIN Items[r] = 1 .. Len(Items[r]) /\ Len(Items[r]) \in Nat
        /\ answers[r] \in Seq({"accepted", "invalid", "no_template", "failed"})
    BY <1>1, CallType DEF Inductive, TypeOK
  <2>2. result[<<r, i>>] = "idle" => <<r, i>> \notin stored
    BY <2>1 DEF StoredIsPublished
  <2>3. CASE phase[r] = "refused"
    <3>1. answers[r] = <<>> /\ Len(answers[r]) = 0 /\ i >= 1
      BY <2>1, <2>3 DEF OneByOne
    <3>2. result[<<r, i>>] = "idle"
      BY <2>1, <2>3, <3>1 DEF OneByOne
    <3> QED
      BY <2>2, <3>2
  <2>4. CASE phase[r] = "answered"
    <3>1. r \notin Batches /\ MapError(answers[r][1]) = 400
      BY <1>1, <2>4 DEF Status
    <3>2. i = 1 /\ Len(answers[r]) = 1
      BY <2>1, <2>4, <3>1, IntakeAssumption DEF OneByOne, AllDone
    <3>3. answers[r][1] \in {"invalid", "no_template"}
      BY <2>1, <3>1, <3>2 DEF MapError
    <3>4. result[<<r, i>>] = ResultOf(answers[r][1])
      BY <2>1, <3>2 DEF OneByOne
    <3> QED
      BY <2>2, <3>3, <3>4 DEF ResultOf
  <2> QED
    BY <1>1, <2>3, <2>4
<1>2. Inductive => ClientErrorStoresNothing
  BY <1>1 DEF ClientErrorStoresNothing
<1> QED
  BY <1>2, InductiveInvariant, PTL

\* A stored message is in a declared lane, a bulk one only if asked, and names
\* a template of its type (service.go:58-76, notification.go:78-99).
THEOREM StoredIsRoutable == Spec => []RoutedAsAsked
<1>1. ASSUME Inductive, NEW c \in stored PROVE VerdictOf(Items[c[1]][c[2]]) = "publish"
  <2>1. PICK r \in Request : \E i \in DOMAIN Items[r] : c = <<r, i>>
    BY <1>1 DEF Inductive, TypeOK, Call
  <2>2. PICK i \in DOMAIN Items[r] : c = <<r, i>>
    BY <2>1
  <2>3. result[<<r, i>>] # "idle"
    BY <1>1, <2>2, CallType DEF Inductive, StoredIsPublished
  <2> QED
    BY <1>1, <2>2, <2>3 DEF Inductive, OneByOne
<1>2. Inductive => RoutedAsAsked
  BY <1>1 DEF RoutedAsAsked, VerdictOf, Verdict, IsValid, HasTemplate, Message, Lanes, PriorityOf
<1> QED
  BY <1>2, InductiveInvariant, PTL

\* An answer is lost to writeTimeout only if body and publishes could take so
\* long (server.go:24-32).
THEOREM CutOffOnlyIfLong == Spec => []CutOnlyIfLong
<1>1. ASSUME Inductive, NEW r \in Request, phase[r] = "cut"
      PROVE  (readAt[r] - headAt[r]) + Budget * Len(Items[r]) >= WriteTimeout
  <2>1. OneByOne(r) /\ InTime(r) /\ TypeOK
    BY <1>1 DEF Inductive
  <2>2. Len(answers[r]) = Len(Items[r])
    BY <1>1, <2>1 DEF OneByOne, AllDone
  <2>3. age[r] - headAt[r] >= WriteTimeout /\ age[r] <= readAt[r] + Budget * Len(Items[r])
    BY <1>1, <2>1, <2>2 DEF InTime
  <2>4. /\ age[r] \in Nat /\ headAt[r] \in Nat /\ readAt[r] \in Nat /\ WriteTimeout \in Nat
        /\ Budget * Len(Items[r]) \in Nat
    BY <2>1, CallType, IntakeAssumption DEF TypeOK
  <2> QED
    BY <2>3, <2>4
<1>2. Inductive => CutOnlyIfLong
  BY <1>1 DEF CutOnlyIfLong
<1> QED
  BY <1>2, InductiveInvariant, PTL

\* Shutdown breaks off no request that fits in what its header leaves of
\* shutdownTimeout, and a header that came before the signal leaves all of it
\* (main.go:70-74).
THEOREM ShutdownIsPatient == Spec => []ShutdownWaits
<1>1. Inductive => ShutdownWaits
  BY DEF Inductive
<1> QED
  BY <1>1, InductiveInvariant, PTL

=============================================================================
