----------------------------- MODULE Processing -----------------------------
(***************************************************************************)
(* What becomes of a notification between the API that accepts it and the  *)
(* processor of its channel (internal/app/notification/), when each        *)
(* process has the templates that were on disk when it started             *)
(* (cmd/api/main.go, cmd/worker/main.go) and a worker its own environment  *)
(* (internal/config/config.go) and token bucket (golang.org/x/time/rate).  *)
(*                                                                         *)
(* The queue of a lane keeps what it accepted and gives a delivery back    *)
(* when its worker dies; publishes and acknowledgements do not fail here.  *)
(***************************************************************************)
EXTENDS Recipients, Templates

CONSTANTS
  Msg,        \* notifications
  Asks,       \* what clients may ask for with each
  Api,        \* the API process
  Worker,
  Env,        \* the environment of each worker
  Releases,   \* the trees of templates, in the order they are put on disk
  Garbled,    \* the value of a variable that is no integer
  None,
  MaxStarts   \* bound on the starts of each worker

Processes == {Api} \cup Worker

Ask == [type: Types, priority: Priorities \cup {Unset},
        recipient: [Types -> Seq(PhoneChar \cup EmailChar \cup TokenChar)],
        template: TemplateId \cup {Unset}, value: Values]

Environment ==
  [type: Types \cup {Unset, "unknown"}, priority: Priorities \cup {Unset, "unknown"},
   prefetch: Int \cup {Unset, Garbled}, maxRetries: Int \cup {Unset, Garbled},
   rateLimit: Int \cup {Unset, Garbled}]

ASSUME ProcessingAssumption ==
  /\ Asks \in [Msg -> SUBSET Ask]
  /\ Api \notin Worker
  /\ Env \in [Worker -> Environment]
  /\ Releases \in Seq(SUBSET Directory) /\ Releases # <<>>
  /\ \A r \in DOMAIN Releases : \A d, e \in Releases[r] : d.name = e.name => d = e
  /\ Unset \notin Int /\ Garbled \notin Int /\ Garbled # Unset
  /\ None \notin Msg \cup Ask
  /\ MaxStarts \in [Worker -> Nat]

VARIABLES
  disk,      \* the release of the templates on disk
  loaded,    \* the release each process has, 0 while it is down
  stopping,  \* workers with a cancelled context
  ask,       \* what was asked for
  at,        \* where each notification is
  by,        \* the release of the API that accepted it
  retries,   \* its RetryCount
  why,       \* the cause a worker dropped it for, and the worker's release
  hand,      \* the notification each worker has in hand
  stage,     \* how far its processor is
  tokens,    \* of each worker's bucket
  window     \* history: of each tick of the bucket, what happened since

messages == <<ask, at, by, retries, why>>
bucket   == <<tokens, window>>
vars == <<disk, loaded, stopping, messages, hand, stage, bucket>>

(***************************************************************************)
(* LoadWorker                                                              *)
(***************************************************************************)
IsWorkerEnv(env) ==
  /\ env.type \in Types /\ env.priority \in Priorities
  /\ Garbled \notin {env.prefetch, env.maxRetries, env.rateLimit}

EnvInt(value, fallback) == IF value = Unset THEN fallback ELSE value

LaneServed(w)  == <<Env[w].type, Env[w].priority>>
MaxRetries(w)  == EnvInt(Env[w].maxRetries, 3)
RateLimit(w)   == EnvInt(Env[w].rateLimit, 50)

\* NewLimiter: the burst is the rate; below zero there is nothing to spend.
Burst(w) == IF RateLimit(w) \in Nat THEN RateLimit(w) ELSE 0

(***************************************************************************)
(* Templates and messages                                                  *)
(***************************************************************************)
Usable == {r \in DOMAIN Releases : Loads(Releases[r])}
Repo   == [r \in Usable |-> NewFileRepository(Releases[r])]

\* The request as notification.New sees it.
ItemOf(a) ==
  [type |-> a.type, priority |-> a.priority, template |-> a.template,
   address |-> [t \in Types |-> IF a.recipient[t] = <<>> THEN "empty"
                                ELSE IF IsAddress(t, a.recipient[t]) THEN "valid"
                                ELSE "malformed"]]

\* Service.Send of the API with release r.
VerdictAt(a, r) == Verdict(ItemOf(a), Known(Repo[r]))

\* Renderer.Render with release r: "none", or why it fails.
RenderError(a, r) ==
  LET id == Message(a).template IN
    IF id \notin Known(Repo[r])[a.type] THEN "unresolved"
    ELSE IF ~Renders(Repo[r][a.type][id]) THEN "unrendered"
    ELSE "none"

\* Processor.Process of a channel, up to the limiter: "none", or why it fails
\* for good.
Cause(a, type, r) ==
  IF RenderError(a, r) # "none" THEN RenderError(a, r)
  ELSE IF ~IsAddress(type, a.recipient[type]) THEN "recipient"
  ELSE IF IsBlank(Repo[r][a.type][Message(a).template], a.value) THEN "blank"
  ELSE "none"

Causes == {"unresolved", "unrendered", "recipient", "blank"}

CauseFor(w, m) == Cause(ask[m], Env[w].type, loaded[w])
InLane(w, m)   == ask[m] # None /\ Message(ask[m]).lane = LaneServed(w)

Up(w) == loaded[w] # 0 /\ w \notin stopping
CanTake(w, m) == loaded[w] # 0 /\ hand[w] = None /\ at[m] = "queued" /\ InLane(w, m)

Init ==
  /\ disk = 1
  /\ loaded = [p \in Processes |-> 0]
  /\ stopping = {}
  /\ ask = [m \in Msg |-> None]
  /\ at = [m \in Msg |-> "new"]
  /\ by = [m \in Msg |-> 0]
  /\ retries = [m \in Msg |-> 0]
  /\ why = [m \in Msg |-> <<"none", 0>>]
  /\ hand = [w \in Worker |-> None]
  /\ stage = [w \in Worker |-> "idle"]
  /\ tokens = [w \in Worker |-> 0]
  /\ window = [w \in Worker |-> <<[sends |-> 0, starts |-> 0]>>]

(***************************************************************************)
(* Processes                                                               *)
(***************************************************************************)
\* Other templates are put on disk.
Release ==
  /\ disk < Len(Releases)
  /\ disk' = disk + 1
  /\ UNCHANGED <<loaded, stopping, messages, hand, stage, bucket>>

StartApi ==
  /\ loaded[Api] = 0 /\ disk \in Usable
  /\ loaded' = [loaded EXCEPT ![Api] = disk]
  /\ UNCHANGED <<disk, stopping, messages, hand, stage, bucket>>

StopApi ==
  /\ loaded[Api] # 0
  /\ loaded' = [loaded EXCEPT ![Api] = 0]
  /\ UNCHANGED <<disk, stopping, messages, hand, stage, bucket>>

\* What happens in every window that is open.
Count(w, sends, starts) ==
  window' = [window EXCEPT ![w] =
    [i \in DOMAIN window[w] |-> [sends  |-> window[w][i].sends + sends,
                                 starts |-> window[w][i].starts + starts]]]

\* The configuration, the templates and a full bucket.
Start(w) ==
  /\ loaded[w] = 0 /\ disk \in Usable /\ IsWorkerEnv(Env[w])
  /\ window[w][1].starts < MaxStarts[w]
  /\ loaded' = [loaded EXCEPT ![w] = disk]
  /\ tokens' = [tokens EXCEPT ![w] = Burst(w)]
  /\ Count(w, 0, 1)
  /\ UNCHANGED <<disk, stopping, messages, hand, stage>>

Signal(w) ==
  /\ Up(w)
  /\ stopping' = stopping \cup {w}
  /\ UNCHANGED <<disk, loaded, messages, hand, stage, bucket>>

\* The process ends, and a delivery in hand goes back.
Die(w) ==
  /\ loaded[w] # 0
  /\ loaded' = [loaded EXCEPT ![w] = 0]
  /\ stopping' = stopping \ {w}
  /\ at' = [m \in Msg |-> IF hand[w] = m THEN "queued" ELSE at[m]]
  /\ hand' = [hand EXCEPT ![w] = None]
  /\ stage' = [stage EXCEPT ![w] = "idle"]
  /\ UNCHANGED <<disk, ask, by, retries, why, bucket>>

(***************************************************************************)
(* The API                                                                 *)
(***************************************************************************)
Accept(m, a) ==
  /\ loaded[Api] # 0 /\ at[m] = "new"
  /\ VerdictAt(a, loaded[Api]) = "publish"
  /\ ask' = [ask EXCEPT ![m] = a]
  /\ at' = [at EXCEPT ![m] = "queued"]
  /\ by' = [by EXCEPT ![m] = loaded[Api]]
  /\ UNCHANGED <<disk, loaded, stopping, retries, why, hand, stage, bucket>>

Refuse(m, a) ==
  /\ loaded[Api] # 0 /\ at[m] = "new"
  /\ VerdictAt(a, loaded[Api]) # "publish"
  /\ ask' = [ask EXCEPT ![m] = a]
  /\ at' = [at EXCEPT ![m] = "refused"]
  /\ UNCHANGED <<disk, loaded, stopping, by, retries, why, hand, stage, bucket>>

\* Handler.ListTemplates of a type, and whether Handler.GetTemplate finds an ID.
ListTemplates(r, type) ==
  {[id |-> t.id, type |-> t.type, name |-> t.name, isDefault |-> t.isDefault] :
     t \in List(Repo[r], type)}
GetTemplate(r, type, id) == IF id \in Known(Repo[r])[type] THEN 200 ELSE 404

(***************************************************************************)
(* A worker                                                                *)
(***************************************************************************)
\* A permanent failure: the delivery is acknowledged and the notification gone.
Drop(w, m) ==
  /\ CanTake(w, m)
  /\ CauseFor(w, m) # "none"
  /\ at' = [at EXCEPT ![m] = "dropped"]
  /\ why' = [why EXCEPT ![m] = <<CauseFor(w, m), loaded[w]>>]
  /\ UNCHANGED <<disk, loaded, stopping, ask, by, retries, hand, stage, bucket>>

\* Mutant: each notification has a limiter of its own.
TakeWithLimiter(w, m) ==
  /\ CanTake(w, m)
  /\ CauseFor(w, m) = "none"
  /\ w \notin stopping /\ RateLimit(w) >= 1
  /\ at' = [at EXCEPT ![m] = "held"]
  /\ hand' = [hand EXCEPT ![w] = m]
  /\ stage' = [stage EXCEPT ![w] = "waiting"]
  /\ tokens' = [tokens EXCEPT ![w] = Burst(w)]
  /\ UNCHANGED <<disk, loaded, stopping, ask, by, retries, why, window>>

\* Mutant: Wait lets a burst below one pass, and sleeps.
TakeAtAnyRate(w, m) ==
  /\ CanTake(w, m)
  /\ CauseFor(w, m) = "none"
  /\ w \notin stopping
  /\ at' = [at EXCEPT ![m] = "held"]
  /\ hand' = [hand EXCEPT ![w] = m]
  /\ stage' = [stage EXCEPT ![w] = "waiting"]
  /\ UNCHANGED <<disk, loaded, stopping, ask, by, retries, why, bucket>>

\* It is ready to be sent, and waits for the limiter.
Take(w, m) ==
  /\ CanTake(w, m)
  /\ CauseFor(w, m) = "none"
  /\ w \notin stopping /\ RateLimit(w) >= 1
  /\ at' = [at EXCEPT ![m] = "held"]
  /\ hand' = [hand EXCEPT ![w] = m]
  /\ stage' = [stage EXCEPT ![w] = "waiting"]
  /\ UNCHANGED <<disk, loaded, stopping, ask, by, retries, why, bucket>>

\* A transient failure: published again, or to the dead letters.
Retry(w, m) ==
  IF retries[m] < MaxRetries(w)
  THEN /\ at' = [at EXCEPT ![m] = "queued"]
       /\ retries' = [retries EXCEPT ![m] = @ + 1]
  ELSE /\ at' = [at EXCEPT ![m] = "dead"]
       /\ UNCHANGED retries

\* Wait fails at once: the context is cancelled, or the burst is below one.
WaitRefused(w, m) ==
  /\ CanTake(w, m)
  /\ CauseFor(w, m) = "none"
  /\ w \in stopping \/ RateLimit(w) < 1
  /\ Retry(w, m)
  /\ UNCHANGED <<disk, loaded, stopping, ask, by, why, hand, stage, bucket>>

\* Wait returns.
Grant(w) ==
  /\ stage[w] = "waiting" /\ tokens[w] > 0
  /\ tokens' = [tokens EXCEPT ![w] = @ - 1]
  /\ Count(w, 1, 0)
  /\ stage' = [stage EXCEPT ![w] = "sending"]
  /\ UNCHANGED <<disk, loaded, stopping, messages, hand>>

LetGo(w) ==
  /\ hand' = [hand EXCEPT ![w] = None]
  /\ stage' = [stage EXCEPT ![w] = "idle"]
  /\ UNCHANGED <<disk, loaded, stopping, ask, by, why, bucket>>

SendOk(w) ==
  /\ stage[w] = "sending"
  /\ at' = [at EXCEPT ![hand[w]] = "sent"]
  /\ UNCHANGED retries
  /\ LetGo(w)

\* Wait ends with the context, or Send returns an error.
Fail(w) ==
  /\ stage[w] = "sending" \/ (stage[w] = "waiting" /\ w \in stopping)
  /\ Retry(w, hand[w])
  /\ LetGo(w)

\* Mutant: unused tokens pile up.
TickUncapped(w) ==
  /\ loaded[w] # 0 /\ tokens[w] <= Burst(w)
  /\ tokens' = [tokens EXCEPT ![w] = @ + 1]
  /\ window' = [window EXCEPT ![w] = Append(@, [sends |-> 0, starts |-> 0])]
  /\ UNCHANGED <<disk, loaded, stopping, messages, hand, stage>>

\* The bucket of a running worker gains a token, up to its burst.
Tick(w) ==
  /\ loaded[w] # 0 /\ tokens[w] < Burst(w)
  /\ tokens' = [tokens EXCEPT ![w] = @ + 1]
  /\ window' = [window EXCEPT ![w] = Append(@, [sends |-> 0, starts |-> 0])]
  /\ UNCHANGED <<disk, loaded, stopping, messages, hand, stage>>

Process(w) ==
  \/ \E m \in Msg : Drop(w, m) \/ Take(w, m) \/ WaitRefused(w, m)
  \/ Grant(w) \/ SendOk(w) \/ Fail(w)

Next ==
  \/ Release \/ StartApi \/ StopApi
  \/ \E m \in Msg : \E a \in Asks[m] : Accept(m, a) \/ Refuse(m, a)
  \/ \E w \in Worker : Start(w) \/ Signal(w) \/ Die(w) \/ Process(w) \/ Tick(w)

Spec == Init /\ [][Next]_vars

\* A worker that runs handles its deliveries, and its bucket fills.
FairSpec == Spec /\ \A w \in Worker : WF_vars(Process(w)) /\ WF_vars(Tick(w))

(***************************************************************************)
(* Properties                                                              *)
(***************************************************************************)
\* Every variable has its type.
TypeOK ==
  /\ disk \in DOMAIN Releases
  /\ loaded \in [Processes -> Usable \cup {0}]
  /\ stopping \subseteq Worker
  /\ ask \in [Msg -> Ask \cup {None}]
  /\ at \in [Msg -> {"new", "refused", "queued", "held", "sent", "dropped", "dead"}]
  /\ by \in [Msg -> Usable \cup {0}]
  /\ retries \in [Msg -> Nat]
  /\ why \in [Msg -> (Causes \cup {"none"}) \X (Usable \cup {0})]
  /\ hand \in [Worker -> Msg \cup {None}]
  /\ stage \in [Worker -> {"idle", "waiting", "sending"}]
  /\ tokens \in [Worker -> Nat]
  /\ window \in [Worker -> Seq([sends: Nat, starts: Nat])]

\* A notification in hand is held, by one worker of its lane, and passed every
\* check; what left the API had passed its own.
HandsHold ==
  /\ \A w \in Worker :
       /\ loaded[w] = 0 => hand[w] = None /\ w \notin stopping
       /\ loaded[w] # 0 => IsWorkerEnv(Env[w])
       /\ hand[w] = None <=> stage[w] = "idle"
       /\ hand[w] # None =>
            at[hand[w]] = "held" /\ InLane(w, hand[w]) /\ CauseFor(w, hand[w]) = "none"
  /\ \A v, w \in Worker : hand[v] = hand[w] /\ hand[v] # None => v = w
  /\ \A m \in Msg :
       /\ at[m] = "held" => \E w \in Worker : hand[w] = m
       /\ at[m] \notin {"new", "refused"} =>
            by[m] # 0 /\ ask[m] # None /\ VerdictAt(ask[m], by[m]) = "publish"

\* After the 202 no recipient turns out to be invalid, and no template missing
\* unless the worker has other templates than the API had: "the API mitigates
\* the latter by checking template existence before publishing" (README.md:80,
\* service.go:63-74, email_processor.go:29-42).
DropsExplained ==
  \A m \in Msg : at[m] = "dropped" =>
    /\ why[m][1] \in Causes \ {"recipient"}
    /\ why[m][1] = "unresolved" => why[m][2] # by[m]

\* What a bucket still has counts as spent.
BucketBounded ==
  \A w \in Worker :
    /\ tokens[w] <= Burst(w)
    /\ Len(window[w]) > 0
    /\ \A i \in DOMAIN window[w] :
         window[w][i].sends + tokens[w]
           <= Burst(w) * (1 + window[w][i].starts) + (Len(window[w]) - i)

\* "Each worker rate-limits outbound calls" (README.md:84): while its bucket
\* gained n tokens, a worker began at most its rate and n more sends, and its
\* rate again for each restart; none if the rate is below one
\* (cmd/worker/main.go:43).
RateBounded ==
  \A w \in Worker : \A i \in DOMAIN window[w] :
    window[w][i].sends <= Burst(w) * (1 + window[w][i].starts) + (Len(window[w]) - i)

\* The templates that the API lists for a type are those it accepts in a
\* request, and the one marked as the default serves a request that names none
\* (handler.go:61-100, service.go:32-50).
CatalogIsUsable ==
  loaded[Api] # 0 =>
    \A type \in Types :
      LET r == loaded[Api]
          listed == ListTemplates(r, type)
          known == {id \in TemplateId : GetTemplate(r, type, id) = 200}
      IN  /\ {t.id : t \in listed} = known
          /\ \A a \in UNION Range(Asks) :
               a.type = type /\ IsValid(ItemOf(a)) =>
                 (VerdictAt(a, r) = "publish" <=>
                    IF a.template = Unset THEN \E t \in listed : t.isDefault
                    ELSE \E t \in listed : t.id = a.template)

\* "If a template is broken, fixing it applies to messages still in the queue"
\* (README.md:78): a notification is dropped for its template only if those on
\* disk would not do either.
FixAppliesInFlight ==
  [][\A m \in Msg : at[m] = "queued" /\ at'[m] = "dropped" =>
       (disk \in Usable => Cause(ask[m], ask[m].type, disk) # "none")]_vars

\* Whatever rate and retry budget a worker runs with, no notification stays in
\* a lane whose worker stays up (config.go:56-69, consumer.go:99).
EndsWhileServed ==
  \A m \in Msg : []<>~(/\ at[m] \in {"queued", "held"}
                      /\ \E w \in Worker : Up(w) /\ InLane(w, m))

\* The parsers keep no state: what is said of them is said once, in the initial
\* state, of the texts that a run names and a theorem leaves open.

\* A front matter and the body behind it come back whole, whatever the body
\* holds: the closing delimiter may end the text, or go on as a longer line whose
\* rest is body.  A front matter that no later line closes is refused, the empty
\* one of two delimiters included, and a text that opens none is all body
\* (file_repository.go:173-196).
FrontMatterComesBack == Init => AllReadBack

\* "E.164: 7-15 digits" (sms.go:65): a number in ASCII digits is accepted if and
\* only if it is that, however it is formatted, and none is too long.
PhoneNumbersAreE164 == Init => AcceptsE164

\* "Validate domain has at least one dot", and one at sign outside quotes
\* (email.go:53-74): what is accepted has a domain of two words or more, and
\* every plain address is accepted.
EmailsAreAddresses == Init => AcceptsAddresses

\* The inductive invariant behind the safety properties.
Inductive == TypeOK /\ HandsHold /\ DropsExplained /\ BucketBounded

=============================================================================
