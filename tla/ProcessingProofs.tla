-------------------------- MODULE ProcessingProofs --------------------------
(***************************************************************************)
(* Theorems about Processing, for any notifications, workers, environments *)
(* and releases of the templates.                                          *)
(***************************************************************************)
EXTENDS Processing, SequenceTheorems, FiniteSetTheorems, WellFoundedInduction, TLAPS

\* The release of a process is a number, never that of a process that is down.
LEMMA UsableReleases == Usable \subseteq Nat \ {0} /\ 0 \notin Usable
  BY ProcessingAssumption DEF Usable

LEMMA BurstType == \A w : Burst(w) \in Nat
  BY DEF Burst

LEMMA CauseType ==
  ASSUME NEW a, NEW type, NEW r
  PROVE  Cause(a, type, r) \in Causes \cup {"none"}
  BY DEF Cause, RenderError, Causes

\* What an API that publishes a request has checked.
LEMMA PublishedMeans ==
  ASSUME NEW a \in Ask, NEW r, VerdictAt(a, r) = "publish"
  PROVE  /\ IsAddress(a.type, a.recipient[a.type])
         /\ Message(a).template \in Known(Repo[r])[a.type]
<1>1. a.type \in Types
  BY DEF Ask
<1>2. /\ ItemOf(a).type = a.type
      /\ ItemOf(a).template = a.template
      /\ ItemOf(a).address[a.type] =
           IF a.recipient[a.type] = <<>> THEN "empty"
           ELSE IF IsAddress(a.type, a.recipient[a.type]) THEN "valid" ELSE "malformed"
  BY <1>1 DEF ItemOf
<1>3. IsValid(ItemOf(a)) /\ HasTemplate(ItemOf(a), Known(Repo[r]))
  BY DEF VerdictAt, Verdict
<1>4. IsAddress(a.type, a.recipient[a.type])
  BY <1>2, <1>3 DEF IsValid
<1>5. Message(a).template \in Known(Repo[r])[a.type]
  BY <1>2, <1>3 DEF HasTemplate, Resolved, Message
<1> QED
  BY <1>4, <1>5

\* A worker of the lane that drops such a request does so for a reason that the
\* API could not see.
LEMMA DropMeans ==
  ASSUME NEW a \in Ask, NEW r, NEW q, NEW type,
         VerdictAt(a, r) = "publish", type = a.type
  PROVE  /\ Cause(a, type, q) # "recipient"
         /\ Cause(a, type, q) = "unresolved" => q # r
  BY PublishedMeans DEF Cause, RenderError

\* The entries of a window and their counts.
LEMMA WindowType ==
  ASSUME TypeOK, NEW w \in Worker
  PROVE  /\ Len(window[w]) \in Nat
         /\ DOMAIN window[w] = 1 .. Len(window[w])
         /\ \A i \in DOMAIN window[w] :
              window[w][i].sends \in Nat /\ window[w][i].starts \in Nat
<1> DEFINE R == [sends: Nat, starts: Nat]
<1>1. window[w] \in Seq(R)
  BY DEF TypeOK
<1>2. /\ Len(window[w]) \in Nat
      /\ DOMAIN window[w] = 1 .. Len(window[w])
      /\ \A i \in 1 .. Len(window[w]) : window[w][i] \in R
  <2> HIDE DEF R
  <2> QED
    BY <1>1, LenProperties, ElementOfSeq
<1>3. \A x \in R : x.sends \in Nat /\ x.starts \in Nat
  OBVIOUS
<1> QED
  BY <1>2, <1>3

LEMMA CountType ==
  ASSUME TypeOK, NEW w \in Worker, NEW a \in Nat, NEW b \in Nat, Count(w, a, b)
  PROVE  window' \in [Worker -> Seq([sends: Nat, starts: Nat])]
<1> DEFINE R == [sends: Nat, starts: Nat]
           counted == [i \in DOMAIN window[w] |-> [sends  |-> window[w][i].sends + a,
                                                   starts |-> window[w][i].starts + b]]
<1>1. \A i \in DOMAIN window[w] : counted[i] \in R
  BY WindowType
<1>2. counted \in [1 .. Len(window[w]) -> R] /\ Len(window[w]) \in Nat
  BY <1>1, WindowType
<1>3. counted \in Seq(R)
  <2> HIDE DEF R, counted
  <2> QED
    BY <1>2, SeqDef
<1>4. window' = [window EXCEPT ![w] = counted]
  BY DEF Count
<1> QED
  <2> HIDE DEF counted
  <2> QED
    BY <1>3, <1>4 DEF TypeOK

LEMMA InitInductive == Init => Inductive
<1> SUFFICES ASSUME Init PROVE Inductive
  OBVIOUS
<1>1. \A w \in Worker : window[w] \in Seq([sends: Nat, starts: Nat])
  BY DEF Init
<1>2. TypeOK
  BY <1>1, ProcessingAssumption DEF Init, TypeOK, Processes
<1>3. HandsHold
  BY DEF Init, HandsHold, Processes
<1>4. DropsExplained
  BY DEF Init, DropsExplained
<1>5. ASSUME NEW w \in Worker
      PROVE  /\ tokens[w] = 0 /\ Len(window[w]) = 1 /\ DOMAIN window[w] = {1}
             /\ window[w][1].sends = 0 /\ window[w][1].starts = 0
  BY DEF Init
<1>6. BucketBounded
  <2>1. \A w \in Worker : Burst(w) * (1 + 0) = Burst(w) /\ Burst(w) >= 0
    BY BurstType
  <2> QED
    BY <1>5, <2>1, BurstType DEF BucketBounded
<1> QED
  BY <1>2, <1>3, <1>4, <1>6 DEF Inductive

\* The steps of a worker, one by one.
LEMMA StepCases ==
  ASSUME [Next]_vars
  PROVE  \/ Release \/ StartApi \/ StopApi
         \/ \E m \in Msg : \E a \in Asks[m] : Accept(m, a) \/ Refuse(m, a)
         \/ \E w \in Worker : \/ Start(w) \/ Signal(w) \/ Die(w)
                              \/ \E m \in Msg : Drop(w, m) \/ Take(w, m) \/ WaitRefused(w, m)
                              \/ Grant(w) \/ SendOk(w) \/ Fail(w) \/ Tick(w)
         \/ UNCHANGED vars
  BY DEF Next, Process

LEMMA TypeStep ==
  ASSUME TypeOK, HandsHold, [Next]_vars
  PROVE  TypeOK'
<1> USE DEF messages, bucket
<1>0. \A m \in Msg : Asks[m] \subseteq Ask
  BY ProcessingAssumption
<1>1. CASE Release
  <2>1. disk' \in DOMAIN Releases
    BY <1>1, ProcessingAssumption DEF Release, TypeOK
  <2> QED
    BY <1>1, <2>1 DEF Release, TypeOK
<1>2. CASE StartApi
  BY <1>2 DEF StartApi, TypeOK, Processes
<1>3. CASE StopApi
  BY <1>3 DEF StopApi, TypeOK
<1>4. ASSUME NEW m \in Msg, NEW a \in Asks[m], Accept(m, a)
      PROVE  TypeOK'
  <2>1. loaded[Api] \in Usable
    BY <1>4 DEF Accept, TypeOK, Processes
  <2> QED
    BY <1>0, <1>4, <2>1 DEF Accept, TypeOK
<1>5. ASSUME NEW m \in Msg, NEW a \in Asks[m], Refuse(m, a)
      PROVE  TypeOK'
  BY <1>0, <1>5 DEF Refuse, TypeOK
<1>6. ASSUME NEW w \in Worker, Start(w)
      PROVE  TypeOK'
  <2>1. window' \in [Worker -> Seq([sends: Nat, starts: Nat])]
    BY <1>6, CountType DEF Start
  <2> QED
    BY <1>6, <2>1, BurstType DEF Start, TypeOK, Processes
<1>7. ASSUME NEW w \in Worker, Signal(w)
      PROVE  TypeOK'
  BY <1>7 DEF Signal, TypeOK
<1>8. ASSUME NEW w \in Worker, Die(w)
      PROVE  TypeOK'
  BY <1>8 DEF Die, TypeOK
<1>9. ASSUME NEW w \in Worker, NEW m \in Msg, Drop(w, m)
      PROVE  TypeOK'
  <2>1. loaded[w] \in Usable
    BY <1>9 DEF Drop, CanTake, TypeOK, Processes
  <2>2. CauseFor(w, m) \in Causes \cup {"none"}
    BY CauseType DEF CauseFor
  <2> QED
    BY <1>9, <2>1, <2>2 DEF Drop, TypeOK
<1>10. ASSUME NEW w \in Worker, NEW m \in Msg, Take(w, m)
       PROVE  TypeOK'
  BY <1>10 DEF Take, TypeOK
<1>11. ASSUME NEW w \in Worker, NEW m \in Msg, WaitRefused(w, m)
       PROVE  TypeOK'
  BY <1>11 DEF WaitRefused, Retry, TypeOK
<1>12. ASSUME NEW w \in Worker, Grant(w)
       PROVE  TypeOK'
  <2>1. window' \in [Worker -> Seq([sends: Nat, starts: Nat])]
    BY <1>12, CountType DEF Grant
  <2>2. tokens' \in [Worker -> Nat]
    BY <1>12 DEF Grant, TypeOK
  <2> QED
    BY <1>12, <2>1, <2>2 DEF Grant, TypeOK
<1>13. ASSUME NEW w \in Worker, SendOk(w)
       PROVE  TypeOK'
  BY <1>13 DEF SendOk, LetGo, TypeOK
<1>14. ASSUME NEW w \in Worker, Fail(w)
       PROVE  TypeOK'
  <2>1. hand[w] \in Msg
    BY <1>14 DEF Fail, HandsHold, TypeOK
  <2>2. /\ at' \in [Msg -> {"new", "refused", "queued", "held", "sent", "dropped", "dead"}]
        /\ retries' \in [Msg -> Nat]
    <3>1. Retry(w, hand[w])
      BY <1>14 DEF Fail
    <3>2. CASE retries[hand[w]] < MaxRetries(w)
      <4>1. /\ at' = [at EXCEPT ![hand[w]] = "queued"]
            /\ retries' = [retries EXCEPT ![hand[w]] = retries[hand[w]] + 1]
        BY <3>1, <3>2 DEF Retry
      <4>2. retries[hand[w]] + 1 \in Nat
        BY <2>1 DEF TypeOK
      <4> QED
        BY <4>1, <4>2 DEF TypeOK
    <3>3. CASE ~(retries[hand[w]] < MaxRetries(w))
      BY <2>1, <3>1, <3>3 DEF Retry, TypeOK
    <3> QED
      BY <3>2, <3>3
  <2> QED
    BY <1>14, <2>2 DEF Fail, LetGo, TypeOK
<1>15. ASSUME NEW w \in Worker, Tick(w)
       PROVE  TypeOK'
  BY <1>15 DEF Tick, TypeOK
<1>16. CASE UNCHANGED vars
  BY <1>16 DEF vars, TypeOK
<1> QED
  BY StepCases, <1>1, <1>2, <1>3, <1>4, <1>5, <1>6, <1>7, <1>8, <1>9, <1>10, <1>11,
     <1>12, <1>13, <1>14, <1>15, <1>16

LEMMA HandsStep ==
  ASSUME TypeOK, HandsHold, [Next]_vars
  PROVE  HandsHold'
<1> USE DEF messages, bucket
<1>0. /\ \A m \in Msg : Asks[m] \subseteq Ask
      /\ Api \notin Worker /\ None \notin Msg \cup Ask
      /\ 0 \notin Usable
  BY ProcessingAssumption, UsableReleases
<1>1. CASE Release \/ UNCHANGED vars
  BY <1>1 DEF Release, vars, HandsHold, InLane, CauseFor
<1>2. CASE StartApi \/ StopApi
  <2>1. \A w \in Worker : loaded'[w] = loaded[w]
    BY <1>0, <1>2 DEF StartApi, StopApi, TypeOK, Processes
  <2> QED
    BY <1>2, <2>1 DEF StartApi, StopApi, HandsHold, InLane, CauseFor
<1>3. ASSUME NEW m \in Msg, NEW a \in Asks[m], Accept(m, a)
      PROVE  HandsHold'
  <2>1. a \in Ask /\ a # None
    BY <1>0
  <2>2. /\ ask' = [ask EXCEPT ![m] = a] /\ at' = [at EXCEPT ![m] = "queued"]
        /\ by' = [by EXCEPT ![m] = loaded[Api]]
        /\ at[m] = "new" /\ loaded[Api] # 0 /\ VerdictAt(a, loaded[Api]) = "publish"
        /\ UNCHANGED <<loaded, stopping, hand, stage>>
    BY <1>3 DEF Accept
  <2>3. \A w \in Worker : hand[w] # m
    BY <1>0, <2>2 DEF HandsHold
  <2>4. \A k \in Msg \ {m} : at'[k] = at[k] /\ by'[k] = by[k] /\ ask'[k] = ask[k]
    BY <2>2 DEF TypeOK
  <2>5. at'[m] = "queued" /\ by'[m] = loaded[Api] /\ ask'[m] = a
    BY <2>2 DEF TypeOK
  <2>6. \A w \in Worker : hand[w] \in Msg \cup {None}
    BY DEF TypeOK
  <2> QED
    BY <2>1, <2>2, <2>3, <2>4, <2>5, <2>6 DEF HandsHold, InLane, CauseFor
<1>4. ASSUME NEW m \in Msg, NEW a \in Asks[m], Refuse(m, a)
      PROVE  HandsHold'
  <2>2. /\ ask' = [ask EXCEPT ![m] = a] /\ at' = [at EXCEPT ![m] = "refused"]
        /\ at[m] = "new" /\ UNCHANGED <<by, loaded, stopping, hand, stage>>
    BY <1>4 DEF Refuse
  <2>3. \A w \in Worker : hand[w] # m
    BY <1>0, <2>2 DEF HandsHold
  <2>4. \A k \in Msg \ {m} : at'[k] = at[k] /\ ask'[k] = ask[k]
    BY <2>2 DEF TypeOK
  <2>5. at'[m] = "refused"
    BY <2>2 DEF TypeOK
  <2>6. \A w \in Worker : hand[w] \in Msg \cup {None}
    BY DEF TypeOK
  <2> QED
    BY <2>2, <2>3, <2>4, <2>5, <2>6 DEF HandsHold, InLane, CauseFor
<1>5. ASSUME NEW w \in Worker, Start(w)
      PROVE  HandsHold'
  <2>1. /\ loaded[w] = 0 /\ disk # 0 /\ loaded'[w] = disk
        /\ \A v \in Worker \ {w} : loaded'[v] = loaded[v]
        /\ IsWorkerEnv(Env[w]) /\ UNCHANGED <<stopping, ask, at, by, hand, stage>>
    BY <1>0, <1>5 DEF Start, TypeOK, Processes
  <2>2. hand[w] = None
    BY <2>1 DEF HandsHold
  <2> QED
    BY <2>1, <2>2 DEF HandsHold, InLane, CauseFor
<1>6. ASSUME NEW w \in Worker, Signal(w)
      PROVE  HandsHold'
  BY <1>6 DEF Signal, Up, HandsHold, InLane, CauseFor
<1>7. ASSUME NEW w \in Worker, Die(w)
      PROVE  HandsHold'
  <2>1. /\ loaded'[w] = 0 /\ \A v \in Worker \ {w} : loaded'[v] = loaded[v]
        /\ hand'[w] = None /\ \A v \in Worker \ {w} : hand'[v] = hand[v]
        /\ stage'[w] = "idle" /\ \A v \in Worker \ {w} : stage'[v] = stage[v]
        /\ stopping' = stopping \ {w}
        /\ UNCHANGED <<ask, by>>
    BY <1>7 DEF Die, TypeOK, Processes
  <2>2. \A k \in Msg : at'[k] = IF hand[w] = k THEN "queued" ELSE at[k]
    BY <1>7 DEF Die
  <2>3. \A v \in Worker : hand[v] \in Msg \cup {None}
    BY DEF TypeOK
  <2>4. \A k \in Msg : hand[w] = k => at[k] = "held"
    BY <1>0 DEF HandsHold
  <2>5. \A v \in Worker \ {w} : hand[v] # None => hand[v] # hand[w]
    BY DEF HandsHold
  <2> QED
    BY <2>1, <2>2, <2>3, <2>4, <2>5 DEF HandsHold, InLane, CauseFor
<1>8. ASSUME NEW w \in Worker, NEW m \in Msg, Drop(w, m) \/ WaitRefused(w, m)
      PROVE  HandsHold'
  <2>1. /\ at[m] = "queued" /\ at'[m] \notin {"new", "refused", "held"}
        /\ \A k \in Msg \ {m} : at'[k] = at[k]
        /\ UNCHANGED <<loaded, stopping, ask, by, hand, stage>>
    BY <1>8 DEF Drop, WaitRefused, Retry, CanTake, TypeOK
  <2>2. \A v \in Worker : hand[v] # m /\ hand[v] \in Msg \cup {None}
    BY <1>0, <2>1 DEF HandsHold, TypeOK
  <2> QED
    BY <2>1, <2>2 DEF HandsHold, InLane, CauseFor
<1>9. ASSUME NEW w \in Worker, NEW m \in Msg, Take(w, m)
      PROVE  HandsHold'
  <2>1. /\ at[m] = "queued" /\ loaded[w] # 0 /\ hand[w] = None
        /\ InLane(w, m) /\ CauseFor(w, m) = "none"
        /\ at'[m] = "held" /\ \A k \in Msg \ {m} : at'[k] = at[k]
        /\ hand'[w] = m /\ \A v \in Worker \ {w} : hand'[v] = hand[v]
        /\ stage'[w] = "waiting" /\ \A v \in Worker \ {w} : stage'[v] = stage[v]
        /\ UNCHANGED <<loaded, stopping, ask, by>>
    BY <1>9 DEF Take, CanTake, TypeOK
  <2>2. \A v \in Worker : hand[v] # m /\ hand[v] \in Msg \cup {None}
    BY <1>0, <2>1 DEF HandsHold, TypeOK
  <2> QED
    BY <1>0, <2>1, <2>2 DEF HandsHold, InLane, CauseFor
<1>10. ASSUME NEW w \in Worker, Grant(w)
       PROVE  HandsHold'
  <2>1. /\ stage[w] = "waiting" /\ stage'[w] = "sending"
        /\ \A v \in Worker \ {w} : stage'[v] = stage[v]
        /\ UNCHANGED <<loaded, stopping, ask, at, by, hand>>
    BY <1>10 DEF Grant, TypeOK
  <2> QED
    BY <2>1 DEF HandsHold, InLane, CauseFor
<1>11. ASSUME NEW w \in Worker, SendOk(w) \/ Fail(w)
       PROVE  HandsHold'
  <2>0. hand[w] \in Msg
    BY <1>11 DEF SendOk, Fail, HandsHold, TypeOK
  <2>1. /\ at'[hand[w]] \in {"sent", "queued", "dead"}
        /\ \A k \in Msg : k # hand[w] => at'[k] = at[k]
    BY <1>11, <2>0 DEF SendOk, Fail, Retry, TypeOK
  <2>2. /\ hand'[w] = None /\ \A v \in Worker \ {w} : hand'[v] = hand[v]
        /\ stage'[w] = "idle" /\ \A v \in Worker \ {w} : stage'[v] = stage[v]
        /\ UNCHANGED <<loaded, stopping, ask, by>>
    BY <1>11 DEF SendOk, Fail, LetGo, TypeOK
  <2>3. \A v \in Worker \ {w} : hand[v] # hand[w] /\ hand[v] \in Msg \cup {None}
    BY <1>0, <2>0 DEF HandsHold, TypeOK
  <2>4. at[hand[w]] = "held"
    BY <1>0, <2>0 DEF HandsHold
  <2> QED
    BY <2>0, <2>1, <2>2, <2>3, <2>4 DEF HandsHold, InLane, CauseFor
<1>12. ASSUME NEW w \in Worker, Tick(w)
       PROVE  HandsHold'
  BY <1>12 DEF Tick, HandsHold, InLane, CauseFor
<1> QED
  BY StepCases, <1>1, <1>2, <1>3, <1>4, <1>5, <1>6, <1>7, <1>8, <1>9, <1>10, <1>11, <1>12

LEMMA DropsStep ==
  ASSUME TypeOK, HandsHold, DropsExplained, [Next]_vars
  PROVE  DropsExplained'
<1> USE DEF messages, bucket
<1> SUFFICES ASSUME NEW m \in Msg, at'[m] = "dropped"
             PROVE  /\ why'[m][1] \in Causes \ {"recipient"}
                    /\ why'[m][1] = "unresolved" => why'[m][2] # by'[m]
  BY DEF DropsExplained
<1>1. ASSUME NEW w \in Worker, Drop(w, m)
      PROVE  /\ why'[m][1] \in Causes \ {"recipient"}
             /\ why'[m][1] = "unresolved" => why'[m][2] # by'[m]
  <2>1. /\ why'[m] = <<CauseFor(w, m), loaded[w]>> /\ by'[m] = by[m]
        /\ CauseFor(w, m) # "none" /\ at[m] = "queued" /\ InLane(w, m)
    BY <1>1 DEF Drop, CanTake, TypeOK
  <2>2. ask[m] \in Ask /\ VerdictAt(ask[m], by[m]) = "publish"
    <3>1. ask[m] # None /\ VerdictAt(ask[m], by[m]) = "publish"
      BY <2>1 DEF HandsHold
    <3> QED
      BY <3>1 DEF TypeOK
  <2>3. Env[w].type = ask[m].type
    BY <2>1 DEF InLane, LaneServed, Message
  <2>4. /\ CauseFor(w, m) # "recipient"
        /\ CauseFor(w, m) = "unresolved" => loaded[w] # by[m]
    BY <2>2, <2>3, DropMeans DEF CauseFor
  <2>5. CauseFor(w, m) \in Causes \cup {"none"}
    BY CauseType DEF CauseFor
  <2> QED
    BY <2>1, <2>4, <2>5
<1>2. ASSUME at[m] = "dropped", why'[m] = why[m], by'[m] = by[m]
      PROVE  /\ why'[m][1] \in Causes \ {"recipient"}
             /\ why'[m][1] = "unresolved" => why'[m][2] # by'[m]
  BY <1>2 DEF DropsExplained
<1>3. CASE UNCHANGED <<at, why, by>>
  BY <1>2, <1>3
<1>4. ASSUME NEW k \in Msg, NEW a \in Asks[k], Accept(k, a) \/ Refuse(k, a)
      PROVE  at[m] = "dropped" /\ why'[m] = why[m] /\ by'[m] = by[m]
  BY <1>4 DEF Accept, Refuse, TypeOK
<1>5. ASSUME NEW w \in Worker, Die(w)
      PROVE  at[m] = "dropped" /\ why'[m] = why[m] /\ by'[m] = by[m]
  BY <1>5 DEF Die, TypeOK
<1>6. ASSUME NEW w \in Worker, NEW k \in Msg, k # m, Drop(w, k)
      PROVE  at[m] = "dropped" /\ why'[m] = why[m] /\ by'[m] = by[m]
  BY <1>6 DEF Drop, TypeOK
<1>7. ASSUME NEW w \in Worker, NEW k \in Msg, Take(w, k) \/ WaitRefused(w, k)
      PROVE  at[m] = "dropped" /\ why'[m] = why[m] /\ by'[m] = by[m]
  BY <1>7 DEF Take, WaitRefused, Retry, TypeOK
<1>8. ASSUME NEW w \in Worker, SendOk(w) \/ Fail(w)
      PROVE  at[m] = "dropped" /\ why'[m] = why[m] /\ by'[m] = by[m]
  BY <1>8 DEF SendOk, Fail, Retry, LetGo, TypeOK
<1>9. ASSUME \/ Release \/ StartApi \/ StopApi \/ UNCHANGED vars
             \/ \E w \in Worker : Start(w) \/ Signal(w) \/ Grant(w) \/ Tick(w)
      PROVE  UNCHANGED <<at, why, by>>
  BY <1>9 DEF Release, StartApi, StopApi, Start, Signal, Grant, Tick, vars
<1> QED
  BY StepCases, <1>1, <1>2, <1>3, <1>4, <1>5, <1>6, <1>7, <1>8, <1>9

\* A send spends a token, a start adds a burst to what every open window
\* allows, and a tick a token to each of them.
LEMMA BucketStep ==
  ASSUME TypeOK, BucketBounded, [Next]_vars
  PROVE  BucketBounded'
<1> USE DEF messages, bucket
<1> DEFINE Bound(v, t, win) ==
      /\ t <= Burst(v)
      /\ Len(win) > 0
      /\ \A i \in DOMAIN win :
           win[i].sends + t <= Burst(v) * (1 + win[i].starts) + (Len(win) - i)
<1>0. \A v \in Worker : Bound(v, tokens[v], window[v])
  BY DEF BucketBounded
<1>1. CASE UNCHANGED bucket
  BY <1>0, <1>1 DEF BucketBounded
<1>2. ASSUME NEW w \in Worker, \A v \in Worker \ {w} : window'[v] = window[v] /\ tokens'[v] = tokens[v],
             Bound(w, tokens'[w], window'[w])
      PROVE  BucketBounded'
  BY <1>0, <1>2 DEF BucketBounded
<1>3. ASSUME NEW w \in Worker, Start(w)
      PROVE  BucketBounded'
  <2>1. /\ tokens'[w] = Burst(w)
        /\ window'[w] = [i \in DOMAIN window[w] |->
                           [sends |-> window[w][i].sends + 0,
                            starts |-> window[w][i].starts + 1]]
        /\ \A v \in Worker \ {w} : window'[v] = window[v] /\ tokens'[v] = tokens[v]
    BY <1>3 DEF Start, Count, TypeOK
  <2>2. /\ DOMAIN window'[w] = DOMAIN window[w] /\ Len(window'[w]) = Len(window[w])
        /\ \A i \in DOMAIN window[w] :
             window'[w][i].sends = window[w][i].sends + 0
             /\ window'[w][i].starts = window[w][i].starts + 1
    BY <2>1, WindowType
  <2>3. ASSUME NEW i \in DOMAIN window[w]
        PROVE  window'[w][i].sends + tokens'[w]
                 <= Burst(w) * (1 + window'[w][i].starts) + (Len(window'[w]) - i)
    <3> DEFINE b == Burst(w)
               n == 1 + window[w][i].starts
               s == window[w][i].sends
               g == Len(window[w]) - i
    <3>1. b \in Nat /\ n \in Nat /\ s \in Nat /\ g \in Int /\ tokens[w] \in Nat
      <4>1. window[w][i].starts \in Nat /\ s \in Nat
        BY WindowType
      <4>2. Len(window[w]) \in Nat /\ i \in Int
        BY WindowType
      <4>3. b \in Nat
        BY BurstType
      <4>4. tokens[w] \in Nat
        BY DEF TypeOK
      <4> QED
        BY <4>1, <4>2, <4>3, <4>4
    <3>2. s + tokens[w] <= b * n + g
      BY <1>0
    <3>3. 1 + window'[w][i].starts = n + 1 /\ window'[w][i].sends = s
      <4>1. window[w][i].starts \in Nat /\ s \in Nat
        BY WindowType
      <4>2. window'[w][i].starts = window[w][i].starts + 1 /\ window'[w][i].sends = s + 0
        BY <2>2
      <4> QED
        BY <4>1, <4>2
    <3>4. b * (n + 1) = b * n + b /\ b * n \in Nat
      <4> HIDE DEF b, n
      <4> QED
        BY <3>1
    <3>5. s + b <= b * (n + 1) + g
      <4> HIDE DEF b, n, s, g
      <4> QED
        BY <3>1, <3>2, <3>4
    <3> QED
      BY <2>1, <2>2, <3>3, <3>5
  <2>4. Bound(w, tokens'[w], window'[w])
    BY <1>0, <2>1, <2>2, <2>3, BurstType
  <2> QED
    BY <1>2, <2>1, <2>4
<1>4. ASSUME NEW w \in Worker, Grant(w)
      PROVE  BucketBounded'
  <2>1. /\ tokens'[w] = tokens[w] - 1
        /\ window'[w] = [i \in DOMAIN window[w] |->
                           [sends |-> window[w][i].sends + 1,
                            starts |-> window[w][i].starts + 0]]
        /\ \A v \in Worker \ {w} : window'[v] = window[v] /\ tokens'[v] = tokens[v]
    BY <1>4 DEF Grant, Count, TypeOK
  <2>2. /\ DOMAIN window'[w] = DOMAIN window[w] /\ Len(window'[w]) = Len(window[w])
        /\ \A i \in DOMAIN window[w] :
             window'[w][i].sends = window[w][i].sends + 1
             /\ window'[w][i].starts = window[w][i].starts
    BY <2>1, WindowType
  <2>3. tokens[w] \in Nat
    BY DEF TypeOK
  <2>4. ASSUME NEW i \in DOMAIN window[w]
        PROVE  window'[w][i].sends + tokens'[w]
                 <= Burst(w) * (1 + window'[w][i].starts) + (Len(window'[w]) - i)
    <3>1. window'[w][i].sends + tokens'[w] = window[w][i].sends + tokens[w]
      <4>1. window[w][i].sends \in Nat
        BY WindowType
      <4>2. window'[w][i].sends = window[w][i].sends + 1
        BY <2>2
      <4> QED
        BY <2>1, <2>3, <4>1, <4>2
    <3> QED
      BY <1>0, <2>2, <3>1
  <2>5. Bound(w, tokens'[w], window'[w])
    BY <1>0, <2>1, <2>2, <2>3, <2>4, BurstType
  <2> QED
    BY <1>2, <2>1, <2>5
<1>5. ASSUME NEW w \in Worker, Tick(w)
      PROVE  BucketBounded'
  <2>1. /\ tokens'[w] = tokens[w] + 1 /\ tokens[w] < Burst(w)
        /\ window'[w] = Append(window[w], [sends |-> 0, starts |-> 0])
        /\ \A v \in Worker \ {w} : window'[v] = window[v] /\ tokens'[v] = tokens[v]
    BY <1>5 DEF Tick, TypeOK
  <2> DEFINE R == [sends: Nat, starts: Nat]
             n == Len(window[w])
  <2>2. /\ Len(window'[w]) = n + 1
        /\ DOMAIN window'[w] = 1 .. (n + 1)
        /\ \A i \in 1 .. n : window'[w][i] = window[w][i]
        /\ window'[w][n + 1] = [sends |-> 0, starts |-> 0]
    <3>1. window[w] \in Seq(R) /\ [sends |-> 0, starts |-> 0] \in R
      BY DEF TypeOK
    <3> HIDE DEF R
    <3> QED
      BY <2>1, <3>1, AppendProperties, LenProperties
  <2>3. tokens'[w] <= Burst(w) /\ tokens'[w] \in Nat /\ Burst(w) \in Nat
    BY <2>1, BurstType DEF TypeOK
  <2>4. ASSUME NEW i \in 1 .. n
        PROVE  window'[w][i].sends + tokens'[w]
                 <= Burst(w) * (1 + window'[w][i].starts) + (n + 1 - i)
    <3> DEFINE c == Burst(w) * (1 + window[w][i].starts)
               s == window[w][i].sends
               t == tokens[w]
    <3>1. i \in DOMAIN window[w] /\ window'[w][i] = window[w][i] /\ n \in Nat
      BY <2>2, WindowType
    <3>2. s + t <= c + (n - i)
      BY <1>0, <3>1
    <3>3. c \in Int /\ s \in Nat /\ t \in Nat /\ i \in Int /\ tokens'[w] = t + 1
      <4>1. s \in Nat /\ window[w][i].starts \in Nat /\ i \in Int
        BY <3>1, WindowType
      <4>2. c \in Int
        BY <4>1, BurstType
      <4>3. t \in Nat /\ tokens'[w] = t + 1
        BY <2>1 DEF TypeOK
      <4> QED
        BY <4>1, <4>2, <4>3
    <3>4. s + (t + 1) <= c + (n + 1 - i)
      <4> HIDE DEF c, s, t, n
      <4> QED
        BY <3>1, <3>2, <3>3
    <3> QED
      BY <3>1, <3>3, <3>4
  <2>5. window'[w][n + 1].sends + tokens'[w]
          <= Burst(w) * (1 + window'[w][n + 1].starts) + (n + 1 - (n + 1))
    BY <2>2, <2>3, WindowType
  <2>6. Bound(w, tokens'[w], window'[w])
    <3>1. n \in Nat
      BY WindowType
    <3>2. \A i \in 1 .. (n + 1) : i \in 1 .. n \/ i = n + 1
      BY <3>1
    <3> HIDE DEF n
    <3> QED
      BY <2>2, <2>3, <2>4, <2>5, <3>1, <3>2
  <2> QED
    BY <1>2, <2>1, <2>6
<1>6. ASSUME \/ Release \/ StartApi \/ StopApi \/ UNCHANGED vars
             \/ \E m \in Msg : \E a \in Asks[m] : Accept(m, a) \/ Refuse(m, a)
             \/ \E w \in Worker : \/ Signal(w) \/ Die(w) \/ SendOk(w) \/ Fail(w)
                                  \/ \E m \in Msg : Drop(w, m) \/ Take(w, m) \/ WaitRefused(w, m)
      PROVE  UNCHANGED bucket
  BY <1>6 DEF Release, StartApi, StopApi, vars, Accept, Refuse, Signal, Die, SendOk, Fail,
              LetGo, Drop, Take, WaitRefused
<1> QED
  BY StepCases, <1>1, <1>3, <1>4, <1>5, <1>6

\* The inductive invariant of Processing: the types, what is in a worker's hand,
\* why a notification was dropped, and what each bucket may still spend.
THEOREM InductiveInvariant == Spec => []Inductive
<1>1. Inductive /\ [Next]_vars => Inductive'
  BY TypeStep, HandsStep, DropsStep, BucketStep DEF Inductive
<1> QED
  BY InitInductive, <1>1, PTL DEF Spec

\* The types of the variables, whatever the processes do.
THEOREM TypeCorrect == Spec => []TypeOK
<1>1. Inductive => TypeOK
  BY DEF Inductive
<1> QED
  BY InductiveInvariant, <1>1, PTL

\* What the API checked before the 202, a worker does not refuse afterwards
\* (service.go:63-74, email_processor.go:29-42): never for its recipient, and
\* for a missing template only with other templates than the API's.
THEOREM DropsAreExplained == Spec => []DropsExplained
<1>1. Inductive => DropsExplained
  BY DEF Inductive
<1> QED
  BY InductiveInvariant, <1>1, PTL

\* What remains in the bucket counts as spent, so the sends alone stay below the
\* bound too.
LEMMA BoundedSends == TypeOK /\ BucketBounded => RateBounded
<1> SUFFICES ASSUME TypeOK, BucketBounded, NEW w \in Worker, NEW i \in DOMAIN window[w]
             PROVE  window[w][i].sends
                      <= Burst(w) * (1 + window[w][i].starts) + (Len(window[w]) - i)
  BY DEF RateBounded
<1> DEFINE c == Burst(w) * (1 + window[w][i].starts)
           g == Len(window[w]) - i
           s == window[w][i].sends
           t == tokens[w]
<1>1. s + t <= c + g
  BY DEF BucketBounded
<1>2. s \in Nat /\ t \in Nat /\ c \in Int /\ g \in Int
  BY WindowType, BurstType DEF TypeOK
<1>3. s <= c + g
  <2> HIDE DEF c, g, s, t
  <2> QED
    BY <1>1, <1>2
<1> QED
  BY <1>3

\* A worker's limiter (cmd/worker/main.go:43), however often the worker starts:
\* while the bucket gains n tokens there are at most its burst and n sends, and
\* its burst again for each start.
THEOREM RateIsBounded == Spec => []RateBounded
<1>1. Inductive => RateBounded
  BY BoundedSends DEF Inductive
<1> QED
  BY InductiveInvariant, <1>1, PTL

(***************************************************************************)
(* The catalog of templates                                                *)
(***************************************************************************)
LEMMA LeastOf ==
  ASSUME NEW S \in SUBSET Nat, S # {}
  PROVE  \E n \in S : \A m \in S : n <= m
<1>1. PICK n \in S : \A m \in S : <<m, n>> \notin OpToRel(<, Nat)
  BY NatLessThanWellFounded, WFMin
<1>2. \A m \in S : ~(m < n)
  BY <1>1 DEF OpToRel
<1> QED
  BY <1>2

LEMMA MinOf ==
  ASSUME NEW S \in SUBSET Nat, S # {}
  PROVE  Min(S) \in S /\ \A m \in S : Min(S) <= m
BY LeastOf DEF Min

LEMMA MaxOf ==
  ASSUME NEW k \in Nat, NEW S \in SUBSET (1 .. k), S # {}
  PROVE  Max(S) \in S /\ \A m \in S : Max(S) >= m
<1> DEFINE T == {k - x : x \in S}
<1>1. \A x \in S : k - x \in Nat /\ x \in Nat
  OBVIOUS
<1>2. T \in SUBSET Nat /\ T # {}
  BY <1>1
<1>3. PICK n \in T : \A m \in T : n <= m
  <2> HIDE DEF T
  <2> QED
    BY <1>2, LeastOf
<1>4. PICK x \in S : n = k - x
  BY <1>3
<1>5. \A m \in S : x >= m
  BY <1>1, <1>3, <1>4
<1> QED
  BY <1>5 DEF Max

\* A directory of templates is read as what its files are named for.
LEMMA LoadedDirectory ==
  ASSUME NEW dir \in Directory
  PROVE  /\ DOMAIN LoadTypeDir(dir) \subseteq TemplateId
         /\ \A id \in DOMAIN LoadTypeDir(dir) :
              /\ LoadTypeDir(dir)[id].id = id
              /\ LoadTypeDir(dir)[id].type = dir.name
              /\ LoadTypeDir(dir)[id].isDefault <=> id = Default
<1>1. dir.files \in Seq(File)
  BY DEF Directory
<1>2. /\ Len(dir.files) \in Nat /\ DOMAIN dir.files = 1 .. Len(dir.files)
      /\ \A i \in DOMAIN dir.files : dir.files[i] \in File
  <2> HIDE DEF File
  <2> QED
    BY <1>1, LenProperties, ElementOfSeq
<1>3. \A i \in DOMAIN dir.files : dir.files[i].id \in TemplateId \cup {Hidden}
  BY <1>2 DEF File
<1>4. DOMAIN LoadTypeDir(dir) = {dir.files[i].id : i \in DOMAIN dir.files} \ {Hidden}
  BY DEF LoadTypeDir
<1>5. ASSUME NEW id \in DOMAIN LoadTypeDir(dir)
      PROVE  /\ LoadTypeDir(dir)[id].id = id
             /\ LoadTypeDir(dir)[id].type = dir.name
             /\ LoadTypeDir(dir)[id].isDefault <=> id = Default
  <2> DEFINE S == {i \in DOMAIN dir.files : dir.files[i].id = id}
  <2>1. S \in SUBSET (1 .. Len(dir.files)) /\ S # {}
    BY <1>2, <1>4
  <2>2. Max(S) \in S
    BY <1>2, <2>1, MaxOf
  <2>3. LoadTypeDir(dir)[id] = LoadTemplateFile(dir.name, dir.files[Max(S)])
    BY <1>4 DEF LoadTypeDir
  <2>4. PICK file : file = dir.files[Max(S)] /\ file.id = id
    BY <2>2
  <2>5. LoadTypeDir(dir)[id] = LoadTemplateFile(dir.name, file)
    BY <2>3, <2>4
  <2>6. /\ LoadTemplateFile(dir.name, file).id = id
        /\ LoadTemplateFile(dir.name, file).type = dir.name
        /\ LoadTemplateFile(dir.name, file).isDefault <=> id = Default
    BY <2>4 DEF LoadTemplateFile
  <2> QED
    BY <2>5, <2>6
<1> QED
  BY <1>3, <1>4, <1>5

LEMMA LoadedTemplates ==
  ASSUME NEW r \in Usable, NEW type \in DOMAIN Repo[r]
  PROVE  /\ DOMAIN Repo[r][type] \subseteq TemplateId
         /\ \A id \in DOMAIN Repo[r][type] :
              /\ Repo[r][type][id].id = id
              /\ Repo[r][type][id].type = type
              /\ Repo[r][type][id].isDefault <=> id = Default
<1> DEFINE tree == Releases[r]
           dir  == CHOOSE d \in tree : d.name = type
<1>1. tree \subseteq Directory
  BY ProcessingAssumption, ElementOfSeq, LenProperties DEF Usable
<1>2. Repo[r] = NewFileRepository(tree)
  BY DEF Repo
<1>3. type \in {d.name : d \in tree} \cap Types
  BY <1>2 DEF NewFileRepository
<1>4. dir \in tree /\ dir.name = type
  BY <1>3
<1>5. Repo[r][type] = LoadTypeDir(dir)
  BY <1>2, <1>3 DEF NewFileRepository
<1> HIDE DEF dir
<1> QED
  BY <1>1, <1>4, <1>5, LoadedDirectory

\* What is listed for a type is what is found under it.
LEMMA ListedAre ==
  ASSUME NEW r \in Usable, NEW type \in Types
  PROVE  /\ \A t \in ListTemplates(r, type) :
              /\ t.id \in Known(Repo[r])[type]
              /\ t.isDefault <=> t.id = Default
         /\ \A id \in Known(Repo[r])[type] :
              id \in TemplateId /\ \E t \in ListTemplates(r, type) : t.id = id
<1>1. ASSUME NEW t \in ListTemplates(r, type)
      PROVE  /\ t.id \in Known(Repo[r])[type]
             /\ t.isDefault <=> t.id = Default
  <2>1. PICK u \in List(Repo[r], type) : t.id = u.id /\ t.isDefault = u.isDefault
    BY <1>1 DEF ListTemplates
  <2>2. PICK k \in DOMAIN Repo[r] : u \in Range(Repo[r][k]) /\ u.type = type
    BY <2>1 DEF List
  <2>3. PICK id \in DOMAIN Repo[r][k] : u = Repo[r][k][id]
    BY <2>2 DEF Range
  <2>4. k = type /\ u.id = id /\ (u.isDefault <=> id = Default)
    BY <2>2, <2>3, LoadedTemplates
  <2> QED
    BY <2>1, <2>2, <2>3, <2>4 DEF Known
<1>2. ASSUME NEW id \in Known(Repo[r])[type]
      PROVE  id \in TemplateId /\ \E t \in ListTemplates(r, type) : t.id = id
  <2>1. type \in DOMAIN Repo[r] /\ id \in DOMAIN Repo[r][type]
    BY <1>2 DEF Known
  <2> DEFINE u == Repo[r][type][id]
  <2>2. id \in TemplateId /\ u.id = id /\ u.type = type
    BY <2>1, LoadedTemplates
  <2>3. u \in List(Repo[r], type)
    BY <2>1, <2>2 DEF List, Range
  <2> HIDE DEF u
  <2> DEFINE t == [id |-> u.id, type |-> u.type, name |-> u.name, isDefault |-> u.isDefault]
  <2>4. t \in ListTemplates(r, type) /\ t.id = id
    BY <2>2, <2>3 DEF ListTemplates
  <2> QED
    BY <2>2, <2>4
<1> QED
  BY <1>1, <1>2

\* Whatever trees of templates are put on disk, in whatever order, and whenever
\* the API is started: what it lists for a type is what a request may name, and
\* a request that names none is accepted just when a default is listed
\* (file_repository.go:66-108, service.go:32-74, handler.go:61-100).
THEOREM CatalogAlwaysUsable == Spec => []CatalogIsUsable
<1>1. TypeOK => CatalogIsUsable
  <2> SUFFICES ASSUME TypeOK, loaded[Api] # 0, NEW type \in Types
               PROVE  LET r == loaded[Api]
                          listed == ListTemplates(r, type)
                          known == {id \in TemplateId : GetTemplate(r, type, id) = 200}
                      IN  /\ {t.id : t \in listed} = known
                          /\ \A a \in UNION Range(Asks) :
                               a.type = type /\ IsValid(ItemOf(a)) =>
                                 (VerdictAt(a, r) = "publish" <=>
                                    IF a.template = Unset THEN \E t \in listed : t.isDefault
                                    ELSE \E t \in listed : t.id = a.template)
    BY DEF CatalogIsUsable
  <2>1. PICK r \in Usable : r = loaded[Api]
    BY DEF TypeOK, Processes
  <2>2. /\ \A t \in ListTemplates(r, type) :
             /\ t.id \in Known(Repo[r])[type]
             /\ t.isDefault <=> t.id = Default
        /\ \A id \in Known(Repo[r])[type] :
             id \in TemplateId /\ \E t \in ListTemplates(r, type) : t.id = id
    BY ListedAre
  <2>3. {id \in TemplateId : GetTemplate(r, type, id) = 200} = Known(Repo[r])[type]
    BY <2>2 DEF GetTemplate
  <2>4. {t.id : t \in ListTemplates(r, type)} = Known(Repo[r])[type]
    BY <2>2
  <2>5. ASSUME NEW a \in UNION Range(Asks), a.type = type, IsValid(ItemOf(a))
        PROVE  VerdictAt(a, r) = "publish" <=>
                 IF a.template = Unset THEN \E t \in ListTemplates(r, type) : t.isDefault
                 ELSE \E t \in ListTemplates(r, type) : t.id = a.template
    <3>1. ItemOf(a).type = type /\ ItemOf(a).template = a.template
      BY <2>5 DEF ItemOf
    <3>2. VerdictAt(a, r) = "publish" <=> Resolved(ItemOf(a)) \in Known(Repo[r])[type]
      BY <2>5, <3>1 DEF VerdictAt, Verdict, HasTemplate
    <3>3. Resolved(ItemOf(a)) = IF a.template = Unset THEN Default ELSE a.template
      BY <3>1 DEF Resolved
    <3> QED
      BY <2>2, <3>2, <3>3
  <2> QED
    BY <2>1, <2>3, <2>4, <2>5
<1> QED
  BY <1>1, TypeCorrect, PTL

(***************************************************************************)
(* Front matters                                                           *)
(***************************************************************************)
\* The pieces of s, then those of t.
IsJoined(u, s, t) ==
  /\ u \in Seq(Piece) /\ Len(s) \in Nat /\ Len(t) \in Nat /\ Len(u) = Len(s) + Len(t)
  /\ \A i \in 1 .. Len(s) : u[i] = s[i]
  /\ \A i \in 1 .. Len(t) : u[Len(s) + i] = t[i]

LEMMA Joined ==
  ASSUME NEW s \in Seq(Piece), NEW t \in Seq(Piece)
  PROVE  IsJoined(s \o t, s, t)
<1>1. Len(s) \in Nat /\ Len(t) \in Nat
  BY LenProperties
<1>2. PICK u : u = s \o t
  OBVIOUS
<1>3. /\ u \in Seq(Piece) /\ Len(u) = Len(s) + Len(t)
      /\ \A i \in 1 .. Len(s) + Len(t) : u[i] = IF i <= Len(s) THEN s[i] ELSE t[i - Len(s)]
  BY <1>2, ConcatProperties
<1>4. \A i \in 1 .. Len(t) : u[Len(s) + i] = t[i]
  <2> TAKE i \in 1 .. Len(t)
  <2>1. /\ Len(s) + i \in 1 .. Len(s) + Len(t) /\ ~(Len(s) + i <= Len(s))
        /\ (Len(s) + i) - Len(s) = i
    BY <1>1
  <2> QED
    BY <1>3, <2>1
<1>5. IsJoined(u, s, t)
  BY <1>1, <1>3, <1>4 DEF IsJoined
<1> QED
  BY <1>2, <1>5

LEMMA OpeningParts ==
  ASSUME NEW block \in Seq(Piece), NEW text, text = Opening(block)
  PROVE  /\ text \in Seq(Piece) /\ Len(text) = Len(block) + 2
         /\ text[1] = Delim /\ text[2] = NewLine
         /\ \A i \in 1 .. Len(block) : text[i + 2] = block[i]
<1>1. PICK opening : opening = <<Delim, NewLine>>
  OBVIOUS
<1>2. /\ opening \in Seq(Piece) /\ Len(opening) = 2
      /\ opening[1] = Delim /\ opening[2] = NewLine
  BY <1>1 DEF Piece
<1>3. PICK n \in Nat : n = Len(block)
  BY LenProperties
<1>4. /\ text \in Seq(Piece) /\ Len(text) = 2 + n
      /\ \A i \in 1 .. 2 : text[i] = opening[i]
      /\ \A i \in 1 .. n : text[2 + i] = block[i]
  <2>1. text = opening \o block
    BY <1>1 DEF Opening
  <2>2. IsJoined(text, opening, block)
    BY <1>2, <2>1, Joined
  <2> QED
    BY <1>2, <1>3, <2>2 DEF IsJoined
<1> QED
  BY <1>2, <1>3, <1>4

\* Where the parts of a file stand.
Parts(text, block, rest) ==
  /\ text \in Seq(Piece) /\ Len(text) = Len(block) + 4 + Len(rest)
  /\ text[1] = Delim /\ text[2] = NewLine
  /\ \A i \in 1 .. Len(block) : text[i + 2] = block[i]
  /\ text[Len(block) + 3] = NewLine /\ text[Len(block) + 4] = Delim
  /\ \A i \in 1 .. Len(rest) : text[Len(block) + 4 + i] = rest[i]

LEMMA FileParts ==
  ASSUME NEW block \in Seq(Piece), NEW rest \in Seq(Piece)
  PROVE  Parts(WithFrontMatter(block, rest), block, rest)
<1>1. PICK a : a = Opening(block)
  OBVIOUS
<1>2. PICK closing : closing = <<NewLine, Delim>>
  OBVIOUS
<1>3. closing \in Seq(Piece) /\ Len(closing) = 2 /\ closing[1] = NewLine /\ closing[2] = Delim
  BY <1>2 DEF Piece
<1>4. PICK b : b = a \o closing
  OBVIOUS
<1>5. PICK text : text = b \o rest
  OBVIOUS
<1>6. text = WithFrontMatter(block, rest)
  BY <1>1, <1>2, <1>4, <1>5 DEF WithFrontMatter
<1>7. PICK n \in Nat : n = Len(block)
  BY LenProperties
<1>8. PICK k \in Nat : k = Len(rest)
  BY LenProperties
<1>9. /\ a \in Seq(Piece) /\ Len(a) = n + 2
      /\ a[1] = Delim /\ a[2] = NewLine
      /\ \A i \in 1 .. n : a[i + 2] = block[i]
  BY <1>1, <1>7, OpeningParts
<1>10. /\ b \in Seq(Piece) /\ Len(b) = n + 4
       /\ \A i \in 1 .. n + 2 : b[i] = a[i]
       /\ \A i \in 1 .. 2 : b[n + 2 + i] = closing[i]
  <2>1. IsJoined(b, a, closing)
    BY <1>3, <1>4, <1>9, Joined
  <2> QED
    BY <1>3, <1>9, <2>1 DEF IsJoined
<1>11. /\ text \in Seq(Piece) /\ Len(text) = n + 4 + k
       /\ \A i \in 1 .. n + 4 : text[i] = b[i]
       /\ \A i \in 1 .. k : text[n + 4 + i] = rest[i]
  <2>1. IsJoined(text, b, rest)
    BY <1>5, <1>10, Joined
  <2> QED
    BY <1>8, <1>10, <2>1 DEF IsJoined
<1>12. text[1] = Delim /\ text[2] = NewLine /\ \A i \in 1 .. n : text[i + 2] = block[i]
  <2>1. \A i \in 1 .. n + 2 : text[i] = a[i]
    BY <1>10, <1>11
  <2> QED
    BY <1>9, <2>1
<1>13. text[n + 3] = NewLine /\ text[n + 4] = Delim
  <2>1. b[n + 2 + 1] = NewLine /\ b[n + 2 + 2] = Delim
    BY <1>3, <1>10
  <2>2. n + 2 + 1 = n + 3 /\ n + 2 + 2 = n + 4 /\ n + 3 \in 1 .. n + 4 /\ n + 4 \in 1 .. n + 4
    OBVIOUS
  <2> QED
    BY <1>11, <2>1, <2>2
<1> QED
  BY <1>6, <1>7, <1>8, <1>11, <1>12, <1>13 DEF Parts

\* The front matter ends with the first line behind its own that is a delimiter.
LEMMA FirstClosing ==
  ASSUME NEW block \in Seq(Piece), NEW rest \in Seq(Piece), IsBlock(block),
         NEW text, text = WithFrontMatter(block, rest)
  PROVE  Closings(text) # {} /\ Min(Closings(text)) = Len(block) + 3
<1>1. PICK n \in Nat : n = Len(block)
  BY LenProperties
<1>2. PICK k \in Nat : k = Len(rest)
  BY LenProperties
<1>3. /\ Len(text) = n + 4 + k
      /\ \A i \in 1 .. n : text[i + 2] = block[i]
      /\ text[n + 3] = NewLine /\ text[n + 4] = Delim
  <2>1. Parts(text, block, rest)
    BY FileParts
  <2> QED
    BY <1>1, <1>2, <2>1 DEF Parts
<1>4. n + 3 \in Closings(text)
  BY <1>3 DEF Closings
<1>5. ASSUME NEW i \in Closings(text), i < n + 3
      PROVE  FALSE
  <2>1. i \in Nat /\ i >= 3 /\ text[i] = NewLine /\ text[i + 1] = Delim
    BY <1>3 DEF Closings
  <2>2. CASE i = n + 2
    BY <1>3, <2>1, <2>2 DEF Delim, NewLine
  <2>3. CASE i < n + 2
    <3>1. PICK j \in 1 .. n - 1 : i = j + 2
      <4>1. i - 2 \in 1 .. n - 1 /\ i = (i - 2) + 2
        BY <2>1, <2>3
      <4> QED
        BY <4>1
    <3>2. j \in 1 .. n /\ j + 1 \in 1 .. n /\ (j + 1) + 2 = i + 1
      BY <3>1
    <3>3. block[j] = NewLine /\ block[j + 1] = Delim
      BY <1>3, <2>1, <3>1, <3>2
    <3> QED
      BY <1>1, <3>1, <3>3 DEF IsBlock
  <2> QED
    BY <1>5, <2>1, <2>2, <2>3
<1>6. Closings(text) \in SUBSET Nat
  BY <1>3 DEF Closings
<1>7. /\ Min(Closings(text)) \in Closings(text)
      /\ Min(Closings(text)) <= n + 3
  BY <1>4, <1>6, MinOf
<1>8. Min(Closings(text)) = n + 3
  BY <1>5, <1>6, <1>7
<1> QED
  BY <1>1, <1>4, <1>8

\* A block that is opened and not closed behind its first line is an error.
LEMMA UnclosedRefused ==
  ASSUME NEW block \in Seq(Piece), IsBlock(block)
  PROVE  ~IsTemplateFile(Opening(block))
<1>1. PICK text : text = Opening(block)
  OBVIOUS
<1>2. PICK n \in Nat : n = Len(block)
  BY LenProperties
<1>3. /\ Len(text) = n + 2 /\ text[1] = Delim /\ text[2] = NewLine
      /\ \A i \in 1 .. n : text[i + 2] = block[i]
  BY <1>1, <1>2, OpeningParts
<1>4. ASSUME NEW i \in Closings(text)
      PROVE  FALSE
  <2>1. i \in 3 .. n + 1 /\ text[i] = NewLine /\ text[i + 1] = Delim
    BY <1>3 DEF Closings
  <2>2. PICK j \in 1 .. n - 1 : i = j + 2
    <3>1. i - 2 \in 1 .. n - 1 /\ i = (i - 2) + 2
      BY <2>1
    <3> QED
      BY <3>1
  <2>3. j \in 1 .. n /\ j + 1 \in 1 .. n /\ (j + 1) + 2 = i + 1
    BY <2>2
  <2>4. block[j] = NewLine /\ block[j + 1] = Delim
    BY <1>3, <2>1, <2>2, <2>3
  <2> QED
    BY <1>2, <2>2, <2>4 DEF IsBlock
<1>5. Opens(text)
  BY <1>3 DEF Opens
<1> QED
  BY <1>1, <1>4, <1>5 DEF IsTemplateFile

\* The block is read as it is, and of the rest one line break is dropped.
LEMMA TakenApart ==
  ASSUME NEW block \in Seq(Piece), NEW rest \in Seq(Piece), IsBlock(block),
         NEW text, text = WithFrontMatter(block, rest)
  PROVE  /\ IsTemplateFile(text) <=> Unmarshals(block)
         /\ Meta(text) = Range(block) \cap Keys
         /\ BodyOf(text) = IF rest # <<>> /\ rest[1] = NewLine THEN Tail(rest) ELSE rest
<1>1. PICK n \in Nat : n = Len(block)
  BY LenProperties
<1>2. PICK k \in Nat : k = Len(rest)
  BY LenProperties
<1>3. /\ text \in Seq(Piece) /\ Len(text) = n + 4 + k
      /\ text[1] = Delim /\ text[2] = NewLine
      /\ \A i \in 1 .. n : text[i + 2] = block[i]
      /\ \A i \in 1 .. k : text[n + 4 + i] = rest[i]
  <2>1. Parts(text, block, rest)
    BY FileParts
  <2> QED
    BY <1>1, <1>2, <2>1 DEF Parts
<1>4. Closings(text) # {} /\ Min(Closings(text)) = n + 3
  BY <1>1, FirstClosing
<1>5. Opens(text)
  BY <1>3 DEF Opens
<1>6. \A i \in 1 .. Len(text) : text[i] \in Piece
  BY <1>3, ElementOfSeq
<1>7. Block(text) = block
  <2>1. Block(text) = SubSeq(text, 3, n + 2)
    BY <1>4 DEF Block
  <2>2. \A i \in 3 .. n + 2 : text[i] \in Piece
    BY <1>3, <1>6
  <2>3. /\ SubSeq(text, 3, n + 2) \in Seq(Piece)
        /\ Len(SubSeq(text, 3, n + 2)) = IF 3 <= n + 2 THEN (n + 2) - 3 + 1 ELSE 0
        /\ \A i \in 1 .. (n + 2) - 3 + 1 : SubSeq(text, 3, n + 2)[i] = text[3 + i - 1]
    BY <2>2, SubSeqProperties
  <2>4. \A i \in 1 .. n : text[3 + i - 1] = block[i]
    BY <1>3
  <2>5. Len(SubSeq(text, 3, n + 2)) = Len(block)
    BY <1>1, <2>3
  <2>6. \A i \in 1 .. Len(block) : SubSeq(text, 3, n + 2)[i] = block[i]
    BY <1>1, <2>3, <2>4
  <2> QED
    BY <2>1, <2>3, <2>5, <2>6, SeqEqual
<1>8. SubSeq(text, n + 5, Len(text)) = rest
  <2>1. PICK after : after = SubSeq(text, n + 5, Len(text))
    OBVIOUS
  <2>2. /\ \A i \in n + 5 .. Len(text) : text[i] \in Piece
        /\ Len(text) - (n + 5) + 1 = k /\ Len(text) \in Int
        /\ n + 5 <= Len(text) <=> k # 0
    BY <1>3, <1>6
  <2>3. /\ after \in Seq(Piece)
        /\ Len(after) = IF n + 5 <= Len(text) THEN Len(text) - (n + 5) + 1 ELSE 0
        /\ \A i \in 1 .. Len(text) - (n + 5) + 1 : after[i] = text[(n + 5) + i - 1]
    BY <2>1, <2>2, SubSeqProperties
  <2>4. Len(after) = Len(rest)
    BY <1>2, <2>2, <2>3
  <2>5. \A i \in 1 .. k : after[i] = text[n + 4 + i]
    BY <2>2, <2>3
  <2>6. \A i \in 1 .. Len(rest) : after[i] = rest[i]
    BY <1>2, <1>3, <2>5
  <2> QED
    BY <2>1, <2>3, <2>4, <2>6, SeqEqual
<1>9. SubSeq(text, Min(Closings(text)) + 2, Len(text)) = rest
  BY <1>4, <1>8
<1>10. BodyOf(text) = IF rest # <<>> /\ rest[1] = NewLine THEN Tail(rest) ELSE rest
  BY <1>5, <1>9 DEF BodyOf
<1>11. Meta(text) = Range(block) \cap Keys
  BY <1>5, <1>7 DEF Meta
<1>12. IsTemplateFile(text) <=> Unmarshals(block)
  BY <1>4, <1>5, <1>7 DEF IsTemplateFile
<1> QED
  BY <1>10, <1>11, <1>12

\* A template file with a front matter: whatever the lines of the front matter
\* and the body are, delimiters in the body included, the body that is rendered
\* is the one that was written, and the name and the subject are those of the
\* front matter, whether a line of its own closes it, a longer one, or the end of
\* the text (file_repository.go:173-196).
LEMMA FrontMatterReadsBack ==
  ASSUME NEW block \in Seq(Piece), NEW body \in Seq(Piece), IsBlock(block)
  PROVE  /\ ReadsBack(block, <<NewLine>> \o body, body)
         /\ (body = <<>> \/ body[1] # NewLine) => ReadsBack(block, body, body)
<1>1. ReadsBack(block, <<NewLine>> \o body, body)
  <2>1. PICK break : break = <<NewLine>>
    OBVIOUS
  <2>2. break \in Seq(Piece) /\ Len(break) = 1 /\ break[1] = NewLine
    BY <2>1 DEF Piece
  <2>3. PICK rest : rest = break \o body
    OBVIOUS
  <2>4. PICK k \in Nat : k = Len(body)
    BY LenProperties
  <2>5. /\ rest \in Seq(Piece) /\ Len(rest) = 1 + k /\ rest[1] = NewLine
        /\ \A i \in 1 .. k : rest[1 + i] = body[i]
    <3>1. IsJoined(rest, break, body)
      BY <2>2, <2>3, Joined
    <3> QED
      BY <2>2, <2>4, <3>1 DEF IsJoined
  <2>6. rest # <<>>
    BY <2>5
  <2>7. Tail(rest) = body
    <3>1. /\ Tail(rest) \in Seq(Piece) /\ Len(Tail(rest)) = Len(rest) - 1
          /\ \A i \in 1 .. Len(Tail(rest)) : Tail(rest)[i] = rest[i + 1]
      BY <2>5, <2>6, HeadTailProperties
    <3>2. Len(Tail(rest)) = Len(body)
      BY <2>4, <2>5, <3>1
    <3>3. \A i \in 1 .. Len(body) : Tail(rest)[i] = body[i]
      BY <2>4, <2>5, <3>1, <3>2
    <3> QED
      BY <3>1, <3>2, <3>3, SeqEqual
  <2>8. ReadsBack(block, rest, body)
    BY <2>5, <2>6, <2>7, TakenApart DEF ReadsBack
  <2> QED
    BY <2>1, <2>3, <2>8
<1>2. (body = <<>> \/ body[1] # NewLine) => ReadsBack(block, body, body)
  BY TakenApart DEF ReadsBack
<1> QED
  BY <1>1, <1>2

\* Of the texts that the run reads, and of any others: a closed front matter and
\* the body behind it come back as written, one that is not closed is refused,
\* and a text that opens none is its body (file_repository.go:173-196).
THEOREM FrontMattersComeBack == Spec => []FrontMatterComesBack
<1>1. ASSUME NEW block \in FrontMatters, IsBlock(block)
      PROVE  /\ \A body \in Bodies :
                  /\ ReadsBack(block, <<NewLine>> \o body, body)
                  /\ (body = <<>> \/ body[1] # NewLine) => ReadsBack(block, body, body)
             /\ ~IsTemplateFile(Opening(block))
  <2>1. block \in Seq(Piece) /\ \A body \in Bodies : body \in Seq(Piece)
    BY TextAssumption
  <2> QED
    BY <1>1, <2>1, FrontMatterReadsBack, UnclosedRefused
<1>2. ASSUME NEW text \in Bodies, ~Opens(text)
      PROVE  IsTemplateFile(text) /\ BodyOf(text) = text /\ Meta(text) = {}
  BY <1>2 DEF IsTemplateFile, BodyOf, Meta
<1>3. AllReadBack
  BY <1>1, <1>2 DEF AllReadBack
<1>4. FrontMatterComesBack
  BY <1>3 DEF FrontMatterComesBack
<1> QED
  BY <1>4, PTL

(***************************************************************************)
(* E-mail addresses                                                        *)
(***************************************************************************)
LEMMA DottedWords ==
  ASSUME NEW s \in Seq(EmailChar), IsDotted(s, {"atom"})
  PROVE  /\ Len(s) \in Nat /\ Len(s) >= 1 /\ s[Len(s)] = "atom"
         /\ \A i \in 1 .. Len(s) : s[i] \in {"atom", "."}
         /\ \A i \in 1 .. Len(s) : s[i] = "." =>
              i - 1 \in 1 .. Len(s) /\ i + 1 \in 1 .. Len(s)
                /\ s[i - 1] = "atom" /\ s[i + 1] = "atom"
<1>1. PICK n : n = Len(s)
  OBVIOUS
<1>2. n \in Nat /\ DOMAIN s = 1 .. n /\ n % 2 = 1
  BY <1>1, LenProperties DEF IsDotted
<1>3. \A i \in 1 .. n : IF i % 2 = 1 THEN s[i] = "atom" ELSE s[i] = "."
  BY <1>2 DEF IsDotted
<1>4. n >= 1
  BY <1>2
<1>5. ASSUME NEW i \in 1 .. n, s[i] = "."
      PROVE  /\ i - 1 \in 1 .. n /\ i + 1 \in 1 .. n
             /\ s[i - 1] = "atom" /\ s[i + 1] = "atom"
  <2>1. i % 2 = 0
    BY <1>3, <1>5
  <2>2. /\ i - 1 \in 1 .. n /\ (i - 1) % 2 = 1
        /\ i + 1 \in 1 .. n /\ (i + 1) % 2 = 1
    BY <1>2, <2>1
  <2> QED
    BY <1>3, <2>2
<1> QED
  BY <1>1, <1>2, <1>3, <1>4, <1>5

LEMMA PartOf ==
  ASSUME NEW S, NEW s \in Seq(S), NEW a \in 1 .. Len(s) + 1, NEW b \in 0 .. Len(s)
  PROVE  /\ SubSeq(s, a, b) \in Seq(S)
         /\ Len(SubSeq(s, a, b)) = IF a <= b THEN b - a + 1 ELSE 0
         /\ \A i \in a .. b : SubSeq(s, a, b)[i - a + 1] = s[i]
<1>1. Len(s) \in Nat
  BY LenProperties
<1>2. \A i \in a .. b : s[i] \in S
  BY <1>1, ElementOfSeq
<1>3. a \in Int /\ b \in Int
  BY <1>1
<1>4. PICK t : t = SubSeq(s, a, b)
  OBVIOUS
<1>5. /\ t \in Seq(S) /\ Len(t) = IF a <= b THEN b - a + 1 ELSE 0
      /\ \A i \in 1 .. b - a + 1 : t[i] = s[a + i - 1]
  BY <1>2, <1>3, <1>4, SubSeqProperties
<1>6. ASSUME NEW i \in a .. b PROVE t[i - a + 1] = s[i]
  <2>1. i - a + 1 \in 1 .. b - a + 1 /\ a + (i - a + 1) - 1 = i
    BY <1>3
  <2> QED
    BY <1>5, <2>1
<1> QED
  BY <1>4, <1>5, <1>6

\* The at sign of an address is its only one, and a dot behind it joins words.
LEMMA SpecHasDomain ==
  ASSUME NEW spec \in Seq(EmailChar), IsAddrSpec(spec), HasTopLevelDomain(spec)
  PROVE  HasDomain(spec)
<1>1. PICK n : n = Len(spec)
  OBVIOUS
<1>2. n \in Nat /\ DOMAIN spec = 1 .. n
  BY <1>1, LenProperties
<1>3. PICK sign \in 1 .. n :
        /\ spec[sign] = "@"
        /\ \/ IsDotted(SubSeq(spec, 1, sign - 1), {"atom"})
           \/ sign = 2 /\ spec[1] \in {"empty", "quoted"}
        /\ IsDotted(SubSeq(spec, sign + 1, n), {"atom"})
  BY <1>1, <1>2 DEF IsAddrSpec
<1>4. PICK local : local = SubSeq(spec, 1, sign - 1)
  OBVIOUS
<1>5. PICK domain : domain = SubSeq(spec, sign + 1, n)
  OBVIOUS
<1>6. /\ local \in Seq(EmailChar) /\ Len(local) = sign - 1
      /\ \A i \in 1 .. sign - 1 : local[i] = spec[i]
  <2>1. 1 \in 1 .. n + 1 /\ sign - 1 \in 0 .. n
    BY <1>2
  <2>2. /\ local \in Seq(EmailChar)
        /\ Len(local) = IF 1 <= sign - 1 THEN (sign - 1) - 1 + 1 ELSE 0
        /\ \A i \in 1 .. sign - 1 : local[i - 1 + 1] = spec[i]
    BY <1>1, <1>4, <2>1, PartOf
  <2>3. \A i \in 1 .. sign - 1 : i - 1 + 1 = i
    BY <1>2
  <2> QED
    BY <1>2, <2>2, <2>3
<1>7. /\ domain \in Seq(EmailChar) /\ Len(domain) = n - sign
      /\ \A i \in sign + 1 .. n : domain[i - sign] = spec[i]
  <2>1. sign + 1 \in 1 .. n + 1 /\ n \in 0 .. n
    BY <1>2
  <2>2. /\ domain \in Seq(EmailChar)
        /\ Len(domain) = IF sign + 1 <= n THEN n - (sign + 1) + 1 ELSE 0
        /\ \A i \in sign + 1 .. n : domain[i - (sign + 1) + 1] = spec[i]
    BY <1>1, <1>5, <2>1, PartOf
  <2>3. \A i \in sign + 1 .. n : i - (sign + 1) + 1 = i - sign
    BY <1>2
  <2> QED
    BY <1>2, <2>2, <2>3
<1>8. /\ sign >= 2 /\ spec[sign - 1] \in {"atom", "empty", "quoted"}
      /\ \A i \in 1 .. sign - 1 : spec[i] # "@"
  <2>1. CASE IsDotted(local, {"atom"})
    <3>1. /\ Len(local) >= 1 /\ local[Len(local)] = "atom"
          /\ \A i \in 1 .. Len(local) : local[i] \in {"atom", "."}
      BY <1>6, <2>1, DottedWords
    <3>2. sign - 1 \in 1 .. sign - 1
      BY <1>2, <1>6, <3>1
    <3> QED
      BY <1>2, <1>6, <3>1, <3>2
  <2>2. CASE sign = 2 /\ spec[1] \in {"empty", "quoted"}
    BY <2>2
  <2> QED
    BY <1>3, <1>4, <2>1, <2>2
<1>9. /\ \A i \in 1 .. n - sign : domain[i] \in {"atom", "."}
      /\ \A i \in 1 .. n - sign : domain[i] = "." =>
           i - 1 \in 1 .. n - sign /\ i + 1 \in 1 .. n - sign
             /\ domain[i - 1] = "atom" /\ domain[i + 1] = "atom"
  BY <1>3, <1>5, <1>7, DottedWords
<1>10. \A i \in sign + 1 .. n : i - sign \in 1 .. n - sign
  BY <1>2
<1>11. \A i \in sign + 1 .. n : spec[i] \in {"atom", "."}
  BY <1>7, <1>9, <1>10
<1>12. PICK at2 \in 1 .. n : spec[at2] = "@" /\ \E dot \in at2 + 1 .. n : spec[dot] = "."
  BY <1>1, <1>2 DEF HasTopLevelDomain
<1>13. at2 = sign
  BY <1>2, <1>8, <1>11, <1>12
<1>14. PICK dot \in sign + 1 .. n : spec[dot] = "."
  BY <1>12, <1>13
<1>15. /\ dot - 1 \in sign + 1 .. n /\ dot + 1 \in sign + 1 .. n
       /\ spec[dot - 1] = "atom" /\ spec[dot + 1] = "atom"
  <2>1. domain[dot - sign] = "." /\ dot - sign \in 1 .. n - sign
    BY <1>7, <1>10, <1>14
  <2>2. /\ (dot - sign) - 1 \in 1 .. n - sign /\ (dot - sign) + 1 \in 1 .. n - sign
        /\ domain[(dot - sign) - 1] = "atom" /\ domain[(dot - sign) + 1] = "atom"
    BY <1>9, <2>1
  <2>3. /\ dot - 1 \in sign + 1 .. n /\ dot + 1 \in sign + 1 .. n
        /\ (dot - 1) - sign = (dot - sign) - 1 /\ (dot + 1) - sign = (dot - sign) + 1
    BY <1>2, <2>2
  <2>4. domain[(dot - 1) - sign] = spec[dot - 1] /\ domain[(dot + 1) - sign] = spec[dot + 1]
    BY <1>7, <2>3
  <2> QED
    BY <2>2, <2>3, <2>4
<1>16. sign \in 2 .. n /\ dot \in sign + 2 .. n - 1
  BY <1>2, <1>8, <1>15
<1> QED
  BY <1>1, <1>3, <1>8, <1>11, <1>14, <1>15, <1>16 DEF HasDomain

\* A worker that holds an accepted e-mail address can send to it: whatever text
\* of these characters validateEmail lets through (internal/domain/provider/
\* email.go:45), of any length and with or without a display name, there are two
\* words joined by a dot behind its last at sign.
LEMMA EmailAddressesHaveADomain ==
  \A text \in Seq(EmailChar) : IsEmailAddress(text) => HasDomain(text)
<1> SUFFICES ASSUME NEW text \in Seq(EmailChar), IsEmailAddress(text)
             PROVE  HasDomain(text)
  OBVIOUS
<1>1. PICK spec \in Parsed(text) : HasTopLevelDomain(spec)
  BY DEF IsEmailAddress
<1>2. PICK n : n = Len(text)
  OBVIOUS
<1>3. n \in Nat /\ DOMAIN text = 1 .. n
  BY <1>2, LenProperties
<1>4. /\ IsAddrSpec(spec)
      /\ \/ spec = text
         \/ \E i \in 1 .. n : text[i] = "<" /\ text[n] = ">"
                               /\ spec = SubSeq(text, i + 1, n - 1)
  BY <1>1, <1>2, <1>3 DEF Parsed
<1>5. CASE spec = text
  BY <1>1, <1>4, <1>5, SpecHasDomain
<1>6. ASSUME NEW i \in 1 .. n, text[i] = "<", text[n] = ">",
             spec = SubSeq(text, i + 1, n - 1)
      PROVE  HasDomain(text)
  <2>1. i + 1 \in 1 .. n + 1 /\ n - 1 \in 0 .. n
    BY <1>3
  <2>2. /\ spec \in Seq(EmailChar)
        /\ Len(spec) = IF i + 1 <= n - 1 THEN (n - 1) - (i + 1) + 1 ELSE 0
        /\ \A k \in i + 1 .. n - 1 : spec[k - (i + 1) + 1] = text[k]
    BY <1>2, <1>6, <2>1, PartOf
  <2>3. PICK m : m = Len(spec)
    OBVIOUS
  <2>4. m \in Nat /\ (m = 0 \/ m = n - 1 - i)
    BY <1>3, <2>2, <2>3
  <2>5. ASSUME NEW k \in 1 .. m PROVE k + i \in 1 .. n - 1 /\ text[k + i] = spec[k]
    <3>1. k + i \in i + 1 .. n - 1 /\ (k + i) - (i + 1) + 1 = k
      BY <1>3, <2>4
    <3> QED
      BY <1>3, <2>2, <3>1
  <2>6. HasDomain(spec)
    BY <1>1, <1>4, <2>2, SpecHasDomain
  <2>7. PICK sign \in 2 .. m :
          /\ spec[sign] = "@" /\ spec[sign - 1] \notin {"@", ".", "<"}
          /\ \A k \in sign + 1 .. m : spec[k] # "@"
          /\ \E dot \in sign + 2 .. m - 1 :
               spec[dot - 1] = "atom" /\ spec[dot] = "." /\ spec[dot + 1] = "atom"
    BY <2>3, <2>6 DEF HasDomain
  <2>8. PICK dot \in sign + 2 .. m - 1 :
          spec[dot - 1] = "atom" /\ spec[dot] = "." /\ spec[dot + 1] = "atom"
    BY <2>7
  <2>9. /\ sign \in 1 .. m /\ sign - 1 \in 1 .. m
        /\ dot - 1 \in 1 .. m /\ dot \in 1 .. m /\ dot + 1 \in 1 .. m
    BY <2>4
  <2>10. /\ sign + i \in 2 .. n /\ dot + i \in (sign + i) + 2 .. n - 1
         /\ (sign - 1) + i = (sign + i) - 1
         /\ (dot - 1) + i = (dot + i) - 1 /\ (dot + 1) + i = (dot + i) + 1
    BY <1>3, <2>4, <2>9
  <2>11. text[sign + i] = "@" /\ text[(sign + i) - 1] \notin {"@", ".", "<"}
    BY <2>5, <2>7, <2>9, <2>10
  <2>12. /\ text[(dot + i) - 1] = "atom" /\ text[dot + i] = "."
         /\ text[(dot + i) + 1] = "atom"
    BY <2>5, <2>8, <2>9, <2>10
  <2>13. ASSUME NEW k \in (sign + i) + 1 .. n PROVE text[k] # "@"
    <3>1. CASE k = n
      BY <1>6, <3>1
    <3>2. CASE k # n
      <4>1. k - i \in sign + 1 .. m /\ k - i \in 1 .. m /\ (k - i) + i = k
        BY <1>3, <2>4, <2>9, <3>2
      <4> QED
        BY <2>5, <2>7, <4>1
    <3> QED
      BY <3>1, <3>2
  <2> QED
    BY <1>2, <2>10, <2>11, <2>12, <2>13 DEF HasDomain
<1> QED
  BY <1>4, <1>5, <1>6

LEMMA PlainIsAddress ==
  ASSUME NEW text \in Seq(EmailChar), IsPlain(text)
  PROVE  IsEmailAddress(text)
<1>1. PICK n : n = Len(text)
  OBVIOUS
<1>2. n \in Nat /\ DOMAIN text = 1 .. n
  BY <1>1, LenProperties
<1>3. PICK sign \in 2 .. n - 3 :
        /\ text[sign] = "@"
        /\ IsDotted(SubSeq(text, 1, sign - 1), {"atom"})
        /\ IsDotted(SubSeq(text, sign + 1, n), {"atom"})
  BY <1>1 DEF IsPlain
<1>4. PICK local : local = SubSeq(text, 1, sign - 1)
  OBVIOUS
<1>5. PICK domain : domain = SubSeq(text, sign + 1, n)
  OBVIOUS
<1>6. /\ local \in Seq(EmailChar) /\ Len(local) = sign - 1
      /\ \A i \in 1 .. sign - 1 : local[i] = text[i]
  <2>1. 1 \in 1 .. n + 1 /\ sign - 1 \in 0 .. n /\ 1 <= sign - 1
    BY <1>2
  <2>2. /\ local \in Seq(EmailChar)
        /\ Len(local) = IF 1 <= sign - 1 THEN (sign - 1) - 1 + 1 ELSE 0
        /\ \A i \in 1 .. sign - 1 : local[i - 1 + 1] = text[i]
    BY <1>1, <1>4, <2>1, PartOf
  <2>3. \A i \in 1 .. sign - 1 : i - 1 + 1 = i
    BY <1>2
  <2> QED
    BY <1>2, <2>1, <2>2, <2>3
<1>7. /\ domain \in Seq(EmailChar) /\ Len(domain) = n - sign
      /\ \A i \in sign + 1 .. n : domain[i - sign] = text[i]
  <2>1. sign + 1 \in 1 .. n + 1 /\ n \in 0 .. n /\ sign + 1 <= n
    BY <1>2
  <2>2. /\ domain \in Seq(EmailChar)
        /\ Len(domain) = IF sign + 1 <= n THEN n - (sign + 1) + 1 ELSE 0
        /\ \A i \in sign + 1 .. n : domain[i - (sign + 1) + 1] = text[i]
    BY <1>1, <1>5, <2>1, PartOf
  <2>3. \A i \in sign + 1 .. n : i - (sign + 1) + 1 = i - sign
    BY <1>2
  <2> QED
    BY <1>2, <2>1, <2>2, <2>3
<1>8. /\ \A i \in 1 .. sign - 1 : local[i] \in {"atom", "."}
      /\ local[1] = "atom"
  <2>1. \A i \in 1 .. Len(local) : local[i] \in {"atom", "."}
    BY <1>3, <1>4, <1>6, DottedWords
  <2>2. 1 \in DOMAIN local
    BY <1>2, <1>6, LenProperties
  <2>3. IF 1 % 2 = 1 THEN local[1] \in {"atom"} ELSE local[1] = "."
    BY <1>3, <1>4, <2>2 DEF IsDotted
  <2>4. 1 % 2 = 1
    OBVIOUS
  <2> QED
    BY <1>6, <2>1, <2>3, <2>4
<1>9. /\ \A i \in 1 .. n - sign : domain[i] \in {"atom", "."}
      /\ domain[n - sign] = "atom" /\ domain[2] = "."
  <2>1. /\ \A i \in 1 .. Len(domain) : domain[i] \in {"atom", "."}
        /\ domain[Len(domain)] = "atom"
    BY <1>3, <1>5, <1>7, DottedWords
  <2>2. 2 \in DOMAIN domain
    BY <1>2, <1>7, LenProperties
  <2>3. IF 2 % 2 = 1 THEN domain[2] \in {"atom"} ELSE domain[2] = "."
    BY <1>3, <1>5, <2>2 DEF IsDotted
  <2>4. 2 % 2 = 0
    OBVIOUS
  <2> QED
    BY <1>7, <2>1, <2>3, <2>4
<1>10. \A i \in sign + 1 .. n : i - sign \in 1 .. n - sign
  BY <1>2
<1>11. \A i \in 1 .. n : i # sign => text[i] \in {"atom", "."}
  <2>1. ASSUME NEW i \in 1 .. n, i # sign PROVE text[i] \in {"atom", "."}
    <3>1. CASE i < sign
      <4>1. i \in 1 .. sign - 1
        BY <1>2, <3>1
      <4> QED
        BY <1>6, <1>8, <4>1
    <3>2. CASE i > sign
      <4>1. i \in sign + 1 .. n
        BY <1>2, <3>2
      <4>2. domain[i - sign] \in {"atom", "."}
        BY <1>9, <1>10, <4>1
      <4> QED
        BY <1>7, <4>1, <4>2
    <3> QED
      BY <1>2, <2>1, <3>1, <3>2
  <2> QED
    BY <2>1
<1>12. sign \in 1 .. n /\ sign + 2 \in sign + 1 .. n /\ n \in sign + 1 .. n /\ 1 \in 1 .. sign - 1
  BY <1>2
<1>13. text[1] = "atom" /\ text[n] = "atom" /\ text[sign + 2] = "."
  <2>1. (sign + 2) - sign = 2
    BY <1>12
  <2>2. domain[(sign + 2) - sign] = text[sign + 2] /\ domain[n - sign] = text[n]
    BY <1>7, <1>12
  <2> QED
    BY <1>6, <1>8, <1>9, <1>12, <2>1, <2>2
<1>14. \A i \in DOMAIN text : text[i] # " "
  BY <1>2, <1>3, <1>11
<1>15. IsAddrSpec(text)
  BY <1>1, <1>2, <1>3, <1>12 DEF IsAddrSpec
<1>16. text \in Parsed(text)
  BY <1>15 DEF Parsed
<1>17. AtSigns(text) = 1
  <2>1. {i \in DOMAIN text : text[i] \in {"@", "quoted"}} = {sign}
    BY <1>2, <1>3, <1>11, <1>12
  <2> QED
    BY <2>1, FS_Singleton DEF AtSigns
<1>18. HasTopLevelDomain(text)
  BY <1>1, <1>2, <1>3, <1>12, <1>13 DEF HasTopLevelDomain
<1> QED
  BY <1>13, <1>14, <1>16, <1>17, <1>18 DEF IsEmailAddress

\* The same text is an address to the API and to the worker, so this is what a
\* user of the API can rely on: every plain address is accepted, and whatever is
\* accepted has a domain of two words or more (email.go:45-74).
THEOREM EmailsArePlainOrMore == Spec => []EmailsAreAddresses
<1>1. EmailsAreAddresses
  BY EmailAssumption, EmailAddressesHaveADomain, PlainIsAddress DEF EmailsAreAddresses, AcceptsAddresses
<1> QED
  BY <1>1, PTL

(***************************************************************************)
(* Phone numbers                                                           *)
(***************************************************************************)
\* Induction, with a set for what is to be shown of every number.
LEMMA Counting ==
  ASSUME NEW S, 0 \in S, \A n \in Nat : n \in S => n + 1 \in S
  PROVE  Nat \subseteq S
<1> DEFINE T == Nat \ S
<1>1. SUFFICES ASSUME T # {} PROVE FALSE
  OBVIOUS
<1>2. PICK n \in T : \A m \in T : n <= m
  BY <1>1, LeastOf
<1>3. n \in Nat \ {0} /\ n - 1 \in Nat /\ (n - 1) + 1 = n
  BY <1>2
<1>4. n - 1 \in S
  BY <1>2, <1>3
<1> QED
  BY <1>2, <1>3, <1>4

\* What the builder holds after character i, from what it held before.
AfterCharacter(number, f, i) ==
  IF i = 0 THEN <<>>
  ELSE IF number[i] = "format" THEN f[i - 1] ELSE Append(f[i - 1], number[i])

Builds(number, f, n) == f = [i \in 0 .. n |-> AfterCharacter(number, f, i)]

Built(number) == CHOOSE f : Builds(number, f, Len(number))

\* The loop of normalizePhoneNumber ends, so that its builder is what it builds.
LEMMA BuiltSteps ==
  ASSUME NEW number \in Seq(PhoneChar)
  PROVE  Builds(number, Built(number), Len(number))
<1> DEFINE S == {n \in Nat : \E f : Builds(number, f, n)}
<1>1. 0 \in S
  <2>1. Builds(number, [i \in 0 .. 0 |-> <<>>], 0)
    BY DEF Builds, AfterCharacter
  <2> QED
    BY <2>1
<1>2. ASSUME NEW n \in Nat, n \in S PROVE n + 1 \in S
  <2>1. PICK f : Builds(number, f, n)
    BY <1>2
  <2> DEFINE g == [i \in 0 .. n + 1 |->
                     IF i = n + 1 THEN AfterCharacter(number, f, n + 1) ELSE f[i]]
  <2>2. \A i \in 0 .. n : g[i] = f[i] /\ f[i] = AfterCharacter(number, f, i)
    <3>1. \A i \in 0 .. n : i \in 0 .. n + 1 /\ i # n + 1
      OBVIOUS
    <3>2. \A i \in 0 .. n : g[i] = f[i]
      BY <3>1
    <3>3. PICK h : h = [i \in 0 .. n |-> AfterCharacter(number, f, i)]
      OBVIOUS
    <3>4. f = h
      BY <2>1, <3>3 DEF Builds
    <3>5. \A i \in 0 .. n : h[i] = AfterCharacter(number, f, i)
      BY <3>3
    <3> QED
      BY <3>2, <3>4, <3>5
  <2>3. ASSUME NEW i \in 0 .. n + 1 PROVE g[i] = AfterCharacter(number, g, i)
    <3>1. CASE i = 0
      <4>1. 0 \in 0 .. n
        OBVIOUS
      <4> QED
        BY <2>2, <3>1, <4>1 DEF AfterCharacter
    <3>2. CASE i # 0
      <4>1. i - 1 \in 0 .. n
        BY <3>2
      <4>2. g[i - 1] = f[i - 1]
        BY <2>2, <4>1
      <4>3. AfterCharacter(number, g, i) = AfterCharacter(number, f, i)
        BY <3>2, <4>2 DEF AfterCharacter
      <4>4. CASE i = n + 1
        BY <4>3, <4>4
      <4>5. CASE i # n + 1
        <5>1. i \in 0 .. n
          BY <4>5
        <5> QED
          BY <2>2, <4>3, <5>1
      <4> QED
        BY <4>4, <4>5
    <3> QED
      BY <3>1, <3>2
  <2>4. PICK h : h = g
    OBVIOUS
  <2>5. h = [i \in 0 .. n + 1 |-> h[i]] /\ \A i \in 0 .. n + 1 : h[i] = AfterCharacter(number, h, i)
    BY <2>3, <2>4
  <2>6. Builds(number, h, n + 1)
    BY <2>5 DEF Builds
  <2> QED
    BY <2>6
<1>3. \E f : Builds(number, f, Len(number))
  <2> HIDE DEF S
  <2>1. Len(number) \in S
    BY <1>1, <1>2, Counting, LenProperties
  <2> QED
    BY <2>1 DEF S
<1> QED
  BY <1>3 DEF Built

\* The characters up to the i-th that are more than formatting.
WrittenTo(number, i) == {j \in 1 .. i : number[j] # "format"}

\* The first n characters of a text are those at W, the first one and then the
\* others, and nothing else.
Spells(text, n, number, W) ==
  \E first \in W :
    /\ \A j \in W : first <= j
    /\ text[1] = number[first]
    /\ \A k \in 2 .. n : \E j \in W : j # first /\ text[k] = number[j]
    /\ \A j \in W : j # first => \E k \in 2 .. n : text[k] = number[j]

\* What the characters at W are built into.
IsBuiltOf(text, number, W) ==
  /\ text \in Seq(PhoneChar)
  /\ Len(text) = Cardinality(W)
  /\ text # <<>> => Spells(text, Len(text), number, W)

LEMMA WrittenFinite ==
  ASSUME NEW number, NEW i \in Nat
  PROVE  /\ IsFiniteSet(WrittenTo(number, i)) /\ Cardinality(WrittenTo(number, i)) \in Nat
         /\ WrittenTo(number, i + 1) =
              IF number[i + 1] = "format" THEN WrittenTo(number, i)
              ELSE WrittenTo(number, i) \cup {i + 1}
         /\ \A j \in WrittenTo(number, i) : j \in 1 .. i
<1>1. IsFiniteSet(1 .. i)
  BY FS_Interval
<1>2. WrittenTo(number, i) \in SUBSET (1 .. i)
  BY DEF WrittenTo
<1>3. IsFiniteSet(WrittenTo(number, i)) /\ Cardinality(WrittenTo(number, i)) \in Nat
  BY <1>1, <1>2, FS_Subset, FS_CardinalityType
<1>4. \A j : j \in 1 .. i + 1 <=> j \in 1 .. i \/ j = i + 1
  OBVIOUS
<1> QED
  BY <1>2, <1>3, <1>4 DEF WrittenTo

\* One more character.
LEMMA WriteOne ==
  ASSUME NEW number \in Seq(PhoneChar), NEW i \in Nat, i + 1 <= Len(number),
         NEW text, IsBuiltOf(text, number, WrittenTo(number, i)), number[i + 1] # "format"
  PROVE  IsBuiltOf(Append(text, number[i + 1]), number, WrittenTo(number, i + 1))
<1>1. PICK W : W = WrittenTo(number, i)
  OBVIOUS
<1>2. PICK V : V = WrittenTo(number, i + 1)
  OBVIOUS
<1>3. PICK c : c = number[i + 1]
  OBVIOUS
<1>4. PICK longer : longer = Append(text, c)
  OBVIOUS
<1>5. PICK n : n = Len(text)
  OBVIOUS
<1>6. /\ IsFiniteSet(W) /\ Cardinality(W) \in Nat /\ V = W \cup {i + 1}
      /\ \A j \in W : j \in 1 .. i
  BY <1>1, <1>2, WrittenFinite
<1>7. c \in PhoneChar
  <2>1. Len(number) \in Nat
    BY LenProperties
  <2>2. i + 1 \in 1 .. Len(number)
    BY <2>1
  <2> QED
    BY <1>3, <2>2, ElementOfSeq
<1>8. /\ text \in Seq(PhoneChar) /\ n = Cardinality(W) /\ n \in Nat
      /\ text # <<>> =>
           \E first \in W :
             /\ \A j \in W : first <= j
             /\ text[1] = number[first]
             /\ \A k \in 2 .. n : \E j \in W : j # first /\ text[k] = number[j]
             /\ \A j \in W : j # first => \E k \in 2 .. n : text[k] = number[j]
  <2>1. /\ text \in Seq(PhoneChar) /\ n = Cardinality(W)
        /\ text # <<>> => Spells(text, n, number, W)
    BY <1>1, <1>5 DEF IsBuiltOf
  <2> QED
    BY <1>6, <2>1 DEF Spells
<1>9. /\ longer \in Seq(PhoneChar) /\ Len(longer) = n + 1
      /\ \A k \in 1 .. n : longer[k] = text[k]
      /\ longer[n + 1] = c
  <2>1. text \in Seq(PhoneChar)
    BY <1>8
  <2>2. /\ longer \in Seq(PhoneChar) /\ Len(longer) = Len(text) + 1
        /\ \A k \in 1 .. Len(text) : longer[k] = text[k]
        /\ longer[Len(text) + 1] = c
    BY <1>4, <1>7, <2>1, AppendProperties
  <2> QED
    BY <1>5, <2>2
<1>10. i + 1 \notin W /\ Cardinality(V) = n + 1
  <2>1. i + 1 \notin W
    BY <1>6
  <2> QED
    BY <1>6, <1>8, <2>1, FS_AddElement
<1>11. \E first \in V :
         /\ \A j \in V : first <= j
         /\ longer[1] = number[first]
         /\ \A k \in 2 .. n + 1 : \E j \in V : j # first /\ longer[k] = number[j]
         /\ \A j \in V : j # first => \E k \in 2 .. n + 1 : longer[k] = number[j]
  <2>1. CASE text = <<>>
    <3>1. n = 0 /\ W = {}
      BY <1>5, <1>6, <1>8, <2>1, FS_EmptySet
    <3>2. V = {i + 1} /\ longer[1] = number[i + 1]
      BY <1>3, <1>6, <1>9, <3>1
    <3>3. \A k \in 2 .. n + 1 : FALSE
      BY <3>1
    <3> QED
      BY <3>2, <3>3
  <2>2. CASE text # <<>>
    <3>1. n >= 1
      <4>1. text \in Seq(PhoneChar)
        BY <1>8
      <4>2. Len(text) # 0
        BY <2>2, <4>1, EmptySeq
      <4> QED
        BY <1>5, <1>8, <4>2
    <3>2. PICK first \in W :
             /\ \A j \in W : first <= j
             /\ text[1] = number[first]
             /\ \A k \in 2 .. n : \E j \in W : j # first /\ text[k] = number[j]
             /\ \A j \in W : j # first => \E k \in 2 .. n : text[k] = number[j]
      BY <1>8, <2>2
    <3>3. first \in V /\ first # i + 1 /\ \A j \in V : first <= j
      BY <1>6, <1>10, <3>2
    <3>4. longer[1] = number[first]
      BY <1>8, <1>9, <3>1, <3>2
    <3>5. ASSUME NEW k \in 2 .. n + 1 PROVE \E j \in V : j # first /\ longer[k] = number[j]
      <4>1. CASE k = n + 1
        <5>1. longer[k] = number[i + 1]
          BY <1>3, <1>9, <4>1
        <5> QED
          BY <1>6, <3>3, <5>1
      <4>2. CASE k # n + 1
        <5>1. k \in 2 .. n /\ k \in 1 .. n
          BY <1>8, <4>2
        <5>2. longer[k] = text[k]
          BY <1>9, <5>1
        <5> QED
          BY <1>6, <3>2, <5>1, <5>2
      <4> QED
        BY <4>1, <4>2
    <3>6. ASSUME NEW j \in V, j # first PROVE \E k \in 2 .. n + 1 : longer[k] = number[j]
      <4>1. CASE j = i + 1
        <5>1. n + 1 \in 2 .. n + 1
          BY <1>8, <3>1
        <5> QED
          BY <1>3, <1>9, <4>1, <5>1
      <4>2. CASE j # i + 1
        <5>1. PICK k \in 2 .. n : text[k] = number[j]
          BY <1>6, <3>2, <3>6, <4>2
        <5>2. k \in 2 .. n + 1 /\ k \in 1 .. n
          BY <1>8
        <5> QED
          BY <1>9, <5>1, <5>2
      <4> QED
        BY <4>1, <4>2
    <3> QED
      BY <3>3, <3>4, <3>5, <3>6
  <2> QED
    BY <2>1, <2>2
<1>12. IsBuiltOf(longer, number, V)
  <2>1. Spells(longer, n + 1, number, V)
    BY <1>11 DEF Spells
  <2>2. Len(longer) = n + 1 /\ longer \in Seq(PhoneChar)
    BY <1>9
  <2> QED
    BY <1>10, <2>1, <2>2 DEF IsBuiltOf
<1> QED
  BY <1>2, <1>3, <1>4, <1>12

\* Normalizing keeps what is written, and nothing else.
LEMMA NormalizedIs ==
  ASSUME NEW number \in Seq(PhoneChar)
  PROVE  IsBuiltOf(Normalized(number), number, WrittenTo(number, Len(number)))
<1>1. PICK n : n = Len(number)
  OBVIOUS
<1>2. PICK f : f = Built(number)
  OBVIOUS
<1>3. n \in Nat
  BY <1>1, LenProperties
<1>4. \A i \in 0 .. n : f[i] = AfterCharacter(number, f, i)
  <2>1. f = [i \in 0 .. n |-> AfterCharacter(number, f, i)]
    BY <1>1, <1>2, BuiltSteps DEF Builds
  <2> QED
    BY <2>1
<1> DEFINE S == {i \in Nat : i <= n => IsBuiltOf(f[i], number, WrittenTo(number, i))}
<1>5. 0 \in S
  <2>1. f[0] = <<>>
    BY <1>3, <1>4 DEF AfterCharacter
  <2>2. WrittenTo(number, 0) = {}
    BY DEF WrittenTo
  <2>3. <<>> \in Seq(PhoneChar) /\ Len(<<>>) = 0 /\ Cardinality({}) = 0
    BY EmptySeq, FS_EmptySet
  <2> QED
    BY <2>1, <2>2, <2>3 DEF IsBuiltOf
<1>6. ASSUME NEW i \in Nat, i \in S PROVE i + 1 \in S
  <2> SUFFICES ASSUME i + 1 <= n PROVE IsBuiltOf(f[i + 1], number, WrittenTo(number, i + 1))
    OBVIOUS
  <2>1. IsBuiltOf(f[i], number, WrittenTo(number, i))
    BY <1>3, <1>6
  <2>2. f[i + 1] = IF number[i + 1] = "format" THEN f[i] ELSE Append(f[i], number[i + 1])
    <3>1. i + 1 \in 0 .. n /\ i + 1 # 0 /\ (i + 1) - 1 = i
      BY <1>3
    <3> QED
      BY <1>4, <3>1 DEF AfterCharacter
  <2>3. CASE number[i + 1] = "format"
    <3>1. WrittenTo(number, i + 1) = WrittenTo(number, i) /\ f[i + 1] = f[i]
      BY <2>2, <2>3, WrittenFinite
    <3> QED
      BY <2>1, <3>1 DEF IsBuiltOf
  <2>4. CASE number[i + 1] # "format"
    BY <1>1, <2>1, <2>2, <2>4, WriteOne
  <2> QED
    BY <2>3, <2>4
<1>7. n \in S
  <2> HIDE DEF S
  <2> QED
    BY <1>3, <1>5, <1>6, Counting
<1>8. Normalized(number) = Built(number)[Len(number)]
  BY DEF Normalized, Built, Builds, AfterCharacter
<1> QED
  BY <1>1, <1>2, <1>3, <1>7, <1>8

\* What is wrong with a normalized number, in terms of its characters.
LEMMA PhoneNumberMeans ==
  ASSUME NEW number \in Seq(PhoneChar), NEW N, N = Normalized(number)
  PROVE  /\ IsPhoneNumber(number) =>
              /\ N # <<>> /\ N[1] = "+"
              /\ \A k \in 2 .. Len(N) : N[k] \in {"digit", "wide"}
              /\ Len(N) - 1 <= MaxPhoneDigits
         /\ N # <<>> /\ (\A k \in 1 .. Len(N) : N[k] # "wide") =>
              (IsPhoneNumber(number) <=>
                 /\ N[1] = "+"
                 /\ \A k \in 2 .. Len(N) : N[k] = "digit"
                 /\ Len(N) - 1 \in MinPhoneDigits .. MaxPhoneDigits)
<1>1. N \in Seq(PhoneChar)
  BY NormalizedIs DEF IsBuiltOf
<1>2. IsPhoneNumber(number) <=>
        /\ N # <<>> /\ Head(N) = "+"
        /\ \A k \in 2 .. Len(N) : N[k] \in {"digit", "wide"}
        /\ Bytes(Tail(N)) \in MinPhoneDigits .. MaxPhoneDigits
  BY DEF IsPhoneNumber
<1>3. CASE N = <<>>
  BY <1>2, <1>3
<1>4. CASE N # <<>>
  <2>1. PICK digits : digits = Tail(N)
    OBVIOUS
  <2>2. PICK n : n = Len(N)
    OBVIOUS
  <2>3. /\ n \in Nat \ {0} /\ Head(N) = N[1]
        /\ digits \in Seq(PhoneChar) /\ Len(digits) = n - 1
        /\ \A k \in 1 .. n - 1 : digits[k] = N[k + 1]
    <3>1. n \in Nat \ {0}
      BY <1>1, <1>4, <2>2, EmptySeq
    <3> QED
      BY <1>1, <1>4, <2>1, <2>2, <3>1, HeadTailProperties
  <2>4. PICK wides : wides = {k \in DOMAIN digits : digits[k] = "wide"}
    OBVIOUS
  <2>5. Bytes(digits) = (n - 1) + Cardinality(wides)
    BY <2>3, <2>4 DEF Bytes
  <2>6. DOMAIN digits = 1 .. n - 1
    BY <2>3, LenProperties
  <2>7. Cardinality(wides) \in Nat
    <3>1. IsFiniteSet(1 .. n - 1)
      BY <2>3, FS_Interval
    <3>2. wides \in SUBSET (1 .. n - 1)
      BY <2>4, <2>6
    <3> QED
      BY <3>1, <3>2, FS_Subset, FS_CardinalityType
  <2>8. Bytes(digits) \in MinPhoneDigits .. MaxPhoneDigits => n - 1 <= MaxPhoneDigits
    BY <2>3, <2>5, <2>7, RecipientAssumption
  <2>9. ASSUME \A k \in 1 .. n : N[k] # "wide" PROVE Bytes(digits) = n - 1
    <3>1. \A k \in 1 .. n - 1 : k + 1 \in 1 .. n
      BY <2>3
    <3>2. wides = {}
      BY <2>3, <2>4, <2>6, <2>9, <3>1
    <3> QED
      BY <2>3, <2>5, <3>2, FS_EmptySet
  <2>10. \A k \in 2 .. n : k \in 1 .. n
    BY <2>3
  <2>11. IsPhoneNumber(number) <=>
           /\ N[1] = "+"
           /\ \A k \in 2 .. n : N[k] \in {"digit", "wide"}
           /\ Bytes(digits) \in MinPhoneDigits .. MaxPhoneDigits
    BY <1>2, <1>4, <2>1, <2>2, <2>3
  <2> QED
    BY <1>4, <2>2, <2>8, <2>9, <2>10, <2>11
<1> QED
  BY <1>3, <1>4

\* Every number that NewPhoneNumber accepts, or refuses, is one that E.164 has,
\* or has not, as far as it is written in ASCII digits, whatever formatting is
\* between them; and no number it accepts is too long (sms.go:43-88).
THEOREM PhoneNumbersInE164 == Spec => []PhoneNumbersAreE164
<1>1. PhoneNumbersAreE164
  <2> SUFFICES ASSUME NEW number \in Seq(PhoneChar)
               PROVE  /\ (\A i \in DOMAIN number : number[i] # "wide") =>
                           (IsPhoneNumber(number) <=> IsE164(number))
                      /\ IsPhoneNumber(number) =>
                           Cardinality(Written(number)) <= 1 + MaxPhoneDigits
    BY PhoneAssumption DEF PhoneNumbersAreE164, AcceptsE164
  <2>1. PICK W : W = Written(number)
    OBVIOUS
  <2>2. PICK N : N = Normalized(number)
    OBVIOUS
  <2>3. PICK n : n = Len(N)
    OBVIOUS
  <2>4. W = WrittenTo(number, Len(number)) /\ Len(number) \in Nat
    BY <2>1, LenProperties DEF Written, WrittenTo
  <2>5. IsFiniteSet(W) /\ Cardinality(W) \in Nat /\ \A i \in W : i \in Nat /\ i \in DOMAIN number
    <3>1. IsFiniteSet(W) /\ Cardinality(W) \in Nat /\ \A i \in W : i \in 1 .. Len(number)
      BY <2>4, WrittenFinite
    <3> QED
      BY <2>4, <3>1, LenProperties
  <2>6. IsBuiltOf(N, number, W)
    BY <2>2, <2>4, NormalizedIs
  <2>7. N \in Seq(PhoneChar) /\ n = Cardinality(W) /\ n \in Nat
    BY <2>3, <2>5, <2>6 DEF IsBuiltOf
  <2>8. N # <<>> <=> n # 0
    BY <2>3, <2>7, EmptySeq
  <2>9. IsPhoneNumber(number) => n <= 1 + MaxPhoneDigits
    <3>1. IsPhoneNumber(number) => n - 1 <= MaxPhoneDigits
      BY <2>2, <2>3, PhoneNumberMeans
    <3> QED
      BY <2>7, <3>1, RecipientAssumption
  <2>10. ASSUME \A i \in DOMAIN number : number[i] # "wide"
         PROVE  IsPhoneNumber(number) <=> IsE164(number)
    <3>1. IsE164(number) <=>
            /\ \E plus \in W : /\ number[plus] = "+"
                               /\ \A i \in W : i # plus => plus < i /\ number[i] = "digit"
            /\ n - 1 \in MinPhoneDigits .. MaxPhoneDigits
      BY <2>1, <2>7 DEF IsE164
    <3>2. CASE n = 0
      <4>1. ~IsPhoneNumber(number)
        BY <2>2, <2>8, <3>2, PhoneNumberMeans
      <4>2. W = {}
        BY <2>5, <2>7, <3>2, FS_EmptySet
      <4> QED
        BY <3>1, <4>1, <4>2
    <3>3. CASE n # 0
      <4>1. PICK first \in W :
              /\ \A j \in W : first <= j
              /\ N[1] = number[first]
              /\ \A k \in 2 .. n : \E j \in W : j # first /\ N[k] = number[j]
              /\ \A j \in W : j # first => \E k \in 2 .. n : N[k] = number[j]
        <5>1. N # <<>>
          BY <2>8, <3>3
        <5>2. Spells(N, n, number, W)
          BY <2>3, <2>6, <5>1 DEF IsBuiltOf
        <5> QED
          BY <5>2 DEF Spells
      <4>2. \A k \in 1 .. n : N[k] # "wide"
        <5>1. \A k \in 1 .. n : k = 1 \/ k \in 2 .. n
          BY <2>7
        <5>2. \A k \in 1 .. n : \E j \in W : N[k] = number[j]
          BY <4>1, <5>1
        <5> QED
          BY <2>5, <2>10, <5>2
      <4>3. IsPhoneNumber(number) <=>
              /\ number[first] = "+"
              /\ \A k \in 2 .. n : N[k] = "digit"
              /\ n - 1 \in MinPhoneDigits .. MaxPhoneDigits
        BY <2>2, <2>3, <2>8, <3>3, <4>1, <4>2, PhoneNumberMeans
      <4>4. (\A k \in 2 .. n : N[k] = "digit")
              <=> \A j \in W : j # first => number[j] = "digit"
        BY <4>1
      <4>5. \A plus \in W : (\A i \in W : i # plus => plus < i) <=> plus = first
        BY <2>5, <4>1
      <4> QED
        BY <3>1, <4>3, <4>4, <4>5
    <3> QED
      BY <3>2, <3>3
  <2> QED
    BY <2>1, <2>7, <2>9, <2>10
<1> QED
  BY <1>1, PTL

=============================================================================
