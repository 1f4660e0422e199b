------------------------------- MODULE Intake -------------------------------
(***************************************************************************)
(* The API process: requests with one notification or a batch, answered    *)
(* item by item after publishing them one after the other                  *)
(* (internal/transport/rest/, internal/app/notification/service.go), and   *)
(* its graceful shutdown (cmd/api/main.go).                                *)
(*                                                                         *)
(* The publisher is what PublishContract says of it.  Time passes in Tick; *)
(* only a connection without a request, reading a body and publishing take *)
(* any.  Each request comes on a connection of its own.                    *)
(***************************************************************************)
EXTENDS Notifications, Sequences

CONSTANTS
  Request,
  Items,         \* the notifications each request asks for
  Templates,     \* the templates of each type, as loaded at start
  Batches,       \* the requests to /notifications/batch
  Budget,        \* DefaultPublishTimeout
  HeaderTimeout, \* readHeaderTimeout
  ReadTimeout,   \* readTimeout
  WriteTimeout,  \* writeTimeout
  Grace          \* shutdownTimeout

ASSUME IntakeAssumption ==
  /\ Items \in [Request -> Seq(Item)]
  /\ Templates \in [Types -> SUBSET TemplateId]
  /\ \A r \in Request : Len(Items[r]) > 0 /\ (r \notin Batches => Len(Items[r]) = 1)
  /\ Budget \in Nat /\ WriteTimeout \in Nat /\ Grace \in Nat
  /\ HeaderTimeout \in Nat /\ ReadTimeout \in Nat /\ HeaderTimeout <= ReadTimeout

VARIABLES
  phase,     \* where each request is
  answers,   \* what became of its items so far
  age,       \* time since its connection was accepted
  headAt,    \* its age when its header was read
  readAt,    \* its age when its body was read
  waited,    \* time the publish in progress has taken
  gone,      \* requests whose client closed the connection
  proc,      \* "up", "stopping", or how the process ended
  grace,     \* time since the stop signal
  cameAt,    \* history: grace when its header was read
  result,    \* of the publish of each item
  stored     \* the items whose message the broker has

timeVars     == <<age, headAt, readAt, waited, grace, cameAt>>
contractVars == <<result, stored>>
vars == <<phase, answers, gone, proc, timeVars, contractVars>>

\* A request's index and that of an item in it.
Call == UNION {{<<r, i>> : i \in DOMAIN Items[r]} : r \in Request}

Contract == INSTANCE PublishContract

VerdictOf(item) == Verdict(item, Templates)

\* How a request ends: the handler is through with it, or it never came, or
\* the process ended.
Reached == {"answered", "cut", "unseen", "refused", "closed"}
Broken  == {"unread", "broken"}

InFlight(r) == phase[r] \in {"reading", "handling", "publishing"}
Open(r) == InFlight(r) \/ phase[r] = "connected"
Serving == proc \in {"up", "stopping"}

\* The item in hand.
Current(r) == <<r, Len(answers[r]) + 1>>
ItemInHand(r) == Items[r][Len(answers[r]) + 1]
AllDone(r) == Len(answers[r]) = Len(Items[r])

Init ==
  /\ phase = [r \in Request |-> "new"]
  /\ answers = [r \in Request |-> <<>>]
  /\ age = [r \in Request |-> 0]
  /\ headAt = [r \in Request |-> 0]
  /\ readAt = [r \in Request |-> 0]
  /\ waited = [r \in Request |-> 0]
  /\ gone = {}
  /\ proc = "up"
  /\ grace = 0
  /\ cameAt = [r \in Request |-> 0]
  /\ Contract!Init

(***************************************************************************)
(* A request                                                               *)
(***************************************************************************)
\* The listener accepts its connection.
Connect(r) ==
  /\ proc = "up"
  /\ phase[r] = "new"
  /\ phase' = [phase EXCEPT ![r] = "connected"]
  /\ UNCHANGED <<answers, gone, proc, timeVars, contractVars>>

\* Its header is read; the body follows.  Shutdown closes the listener and what
\* is idle, but a connection that is still new is served.
Arrive(r) ==
  /\ Serving /\ phase[r] = "connected"
  /\ phase' = [phase EXCEPT ![r] = "reading"]
  /\ headAt' = [headAt EXCEPT ![r] = age[r]]
  /\ cameAt' = [cameAt EXCEPT ![r] = grace]
  /\ UNCHANGED <<answers, gone, proc, age, readAt, waited, grace, contractVars>>

\* No request comes on it: the client or Shutdown closes it, or the time for
\* the header is over.
Close(r) ==
  /\ Serving /\ phase[r] = "connected"
  /\ phase' = [phase EXCEPT ![r] = "closed"]
  /\ UNCHANGED <<answers, gone, proc, timeVars, contractVars>>

\* The schema's enumerations; the validator sees no address.
InSchema(item) == item.type \in Types /\ PriorityOf(item) \in Priorities

\* The body is read and the validator passes it on to the handler.
Read(r) ==
  /\ Serving /\ phase[r] = "reading"
  /\ \A i \in DOMAIN Items[r] : InSchema(Items[r][i])
  /\ phase' = [phase EXCEPT ![r] = "handling"]
  /\ readAt' = [readAt EXCEPT ![r] = age[r]]
  /\ UNCHANGED <<answers, gone, proc, age, headAt, waited, grace, cameAt, contractVars>>

\* Mutant: the server has no readTimeout.
WaitForBody(r) ==
  /\ Serving /\ phase[r] = "reading"
  /\ \/ \E i \in DOMAIN Items[r] : ~InSchema(Items[r][i])
     \/ r \in gone
  /\ phase' = [phase EXCEPT ![r] = "refused"]
  /\ UNCHANGED <<answers, gone, proc, timeVars, contractVars>>

\* The whole request is refused: by the validator, or its body never came.
Refuse(r) ==
  /\ Serving /\ phase[r] = "reading"
  /\ \/ \E i \in DOMAIN Items[r] : ~InSchema(Items[r][i])
     \/ age[r] = ReadTimeout
     \/ r \in gone
  /\ phase' = [phase EXCEPT ![r] = "refused"]
  /\ UNCHANGED <<answers, gone, proc, timeVars, contractVars>>

\* Service.Send fails before it publishes.
Reject(r) ==
  /\ Serving /\ phase[r] = "handling" /\ ~AllDone(r)
  /\ VerdictOf(ItemInHand(r)) # "publish"
  /\ answers' = [answers EXCEPT ![r] = Append(@, VerdictOf(ItemInHand(r)))]
  /\ UNCHANGED <<phase, gone, proc, timeVars, contractVars>>

\* Mutant: the error of New or of Resolve is ignored.
PublishUnchecked(r) ==
  /\ Serving /\ phase[r] = "handling" /\ ~AllDone(r)
  /\ Contract!Begin(Current(r))
  /\ phase' = [phase EXCEPT ![r] = "publishing"]
  /\ waited' = [waited EXCEPT ![r] = 0]
  /\ UNCHANGED <<answers, gone, proc, age, headAt, readAt, grace, cameAt>>

\* Service.Send publishes.
Publish(r) ==
  /\ Serving /\ phase[r] = "handling" /\ ~AllDone(r)
  /\ VerdictOf(ItemInHand(r)) = "publish"
  /\ Contract!Begin(Current(r))
  /\ phase' = [phase EXCEPT ![r] = "publishing"]
  /\ waited' = [waited EXCEPT ![r] = 0]
  /\ UNCHANGED <<answers, gone, proc, age, headAt, readAt, grace, cameAt>>

\* Mutant: the error of the publish is dropped.
ReturnAccepted(r) ==
  /\ Serving /\ phase[r] = "publishing"
  /\ Contract!ReturnOk(Current(r)) \/ Contract!ReturnError(Current(r))
  /\ answers' = [answers EXCEPT ![r] = Append(@, "accepted")]
  /\ phase' = [phase EXCEPT ![r] = "handling"]
  /\ UNCHANGED <<gone, proc, timeVars>>

\* The publish returns, and with it Service.Send.
Return(r) ==
  /\ Serving /\ phase[r] = "publishing"
  /\ \/ /\ Contract!ReturnOk(Current(r))
        /\ answers' = [answers EXCEPT ![r] = Append(@, "accepted")]
     \/ /\ Contract!ReturnError(Current(r))
        /\ answers' = [answers EXCEPT ![r] = Append(@, "failed")]
  /\ phase' = [phase EXCEPT ![r] = "handling"]
  /\ UNCHANGED <<gone, proc, timeVars>>

\* The answer is written, if the connection still takes it: writeTimeout counts
\* from the header.
Answer(r) ==
  /\ Serving /\ phase[r] = "handling" /\ AllDone(r)
  /\ \E end \in {"answered", "cut", "unseen"} :
       /\ (end = "unseen") <=> (r \in gone)
       /\ end = "answered" => age[r] - headAt[r] <= WriteTimeout
       /\ end = "cut" => age[r] - headAt[r] >= WriteTimeout
       /\ phase' = [phase EXCEPT ![r] = end]
  /\ UNCHANGED <<answers, gone, proc, timeVars, contractVars>>

\* Mutant: a failed publish is the client's fault.
BlameClient(answer) ==
  CASE answer \in {"invalid", "no_template", "failed"} -> 400
    [] answer = "accepted" -> 202

\* MapError, and 202 where there is no error.
MapError(answer) ==
  CASE answer \in {"invalid", "no_template"} -> 400
    [] answer = "failed" -> 500
    [] answer = "accepted" -> 202

\* The status a client sees: a batch has one result per item in its 202.
Status(r) ==
  IF phase[r] = "refused" THEN 400
  ELSE IF r \in Batches THEN 202 ELSE MapError(answers[r][1])

(***************************************************************************)
(* The client, the broker, the clock                                       *)
(***************************************************************************)
\* The client closes the connection; the handler goes on with the batch.
Leave(r) ==
  /\ Serving /\ InFlight(r) /\ r \notin gone
  /\ gone' = gone \cup {r}
  /\ UNCHANGED <<phase, answers, proc, timeVars, contractVars>>

BrokerStores ==
  /\ \E c \in Call : Contract!Store(c)
  /\ UNCHANGED <<phase, answers, gone, proc, timeVars>>

\* Mutant: publish has no timeout of its own.
NeverOverdue(r) == FALSE

\* The publish has used up its budget and returns.
Overdue(r) == phase[r] = "publishing" /\ waited[r] >= Budget

\* Nothing that has its time can wait any longer.
Tick ==
  /\ Serving
  /\ \A r \in Request :
       /\ ~Overdue(r)
       /\ phase[r] = "connected" => age[r] < HeaderTimeout
       /\ phase[r] = "reading" => age[r] < ReadTimeout
       /\ phase[r] # "handling"
  /\ proc = "stopping" => grace < Grace
  /\ age' = [r \in Request |-> IF Open(r) THEN age[r] + 1 ELSE age[r]]
  /\ waited' = [r \in Request |-> IF phase[r] = "publishing" THEN waited[r] + 1 ELSE waited[r]]
  /\ grace' = IF proc = "stopping" THEN grace + 1 ELSE grace
  /\ UNCHANGED <<phase, answers, gone, proc, headAt, readAt, cameAt, contractVars>>

(***************************************************************************)
(* The process                                                             *)
(***************************************************************************)
\* main calls Shutdown, which closes the listener.
Signal ==
  /\ proc = "up"
  /\ proc' = "stopping"
  /\ UNCHANGED <<phase, answers, gone, timeVars, contractVars>>

Break ==
  phase' = [r \in Request |-> CASE phase[r] = "connected" -> "closed"
                                [] phase[r] = "reading" -> "unread"
                                [] phase[r] \in {"handling", "publishing"} -> "broken"
                                [] OTHER -> phase[r]]

\* Shutdown returns nil: no connection is left.
Exit ==
  /\ proc = "stopping"
  /\ \A r \in Request : ~Open(r)
  /\ proc' = "exited"
  /\ UNCHANGED <<phase, answers, gone, timeVars, contractVars>>

\* Mutant: main closes the connection without waiting for Shutdown.
GiveUpAtOnce ==
  /\ proc = "stopping"
  /\ proc' = "gave_up"
  /\ Break
  /\ UNCHANGED <<answers, gone, timeVars, contractVars>>

\* Shutdown returns the deadline, and Fatal ends the process.
GiveUp ==
  /\ proc = "stopping"
  /\ grace = Grace
  /\ proc' = "gave_up"
  /\ Break
  /\ UNCHANGED <<answers, gone, timeVars, contractVars>>

Crash ==
  /\ Serving
  /\ proc' = "crashed"
  /\ Break
  /\ UNCHANGED <<answers, gone, timeVars, contractVars>>

\* What happens on the connection, and what the handler makes of the request.
Receive(r) == Connect(r) \/ Arrive(r) \/ Close(r) \/ Read(r) \/ Leave(r)
Handle(r)  == Refuse(r) \/ Reject(r) \/ Publish(r) \/ Return(r) \/ Answer(r)

Next ==
  \/ \E r \in Request : Receive(r) \/ Handle(r)
  \/ BrokerStores \/ Tick
  \/ Signal \/ Exit \/ GiveUp \/ Crash

Spec == Init /\ [][Next]_vars

\* What has to happen by itself: a handler goes on, and header, body and publish
\* are given up when their time is over.
Due(r) ==
  \/ age[r] = HeaderTimeout /\ Close(r)
  \/ (age[r] = ReadTimeout \/ r \in gone) /\ Refuse(r)
  \/ Reject(r) \/ Publish(r) \/ Answer(r)
  \/ Overdue(r) /\ Return(r)

\* Handlers run, timers fire, main waits for Shutdown.  Nothing is owed by the
\* client, whose header and body need not come, nor by the broker.
FairSpec ==
  /\ Spec
  /\ \A r \in Request : WF_vars(Due(r))
  /\ WF_vars(Tick) /\ WF_vars(Exit \/ GiveUp)

(***************************************************************************)
(* Properties                                                              *)
(***************************************************************************)
\* Every variable has its type.
TypeOK ==
  /\ phase \in [Request -> Reached \cup Broken \cup
                  {"new", "connected", "reading", "handling", "publishing"}]
  /\ answers \in [Request -> Seq({"accepted", "invalid", "no_template", "failed"})]
  /\ age \in [Request -> Nat] /\ headAt \in [Request -> Nat] /\ readAt \in [Request -> Nat]
  /\ waited \in [Request -> Nat] /\ cameAt \in [Request -> Nat]
  /\ gone \subseteq Request
  /\ proc \in {"up", "stopping", "exited", "gave_up", "crashed"}
  /\ grace \in Nat
  /\ result \in [Call -> {"idle", "busy", "ok", "error"}]
  /\ stored \subseteq Call

\* The result of the publish behind an answer.
ResultOf(answer) ==
  IF answer = "accepted" THEN "ok" ELSE IF answer = "failed" THEN "error" ELSE "idle"

\* The items of a request are taken in order, one publish at a time, and only
\* a valid one is published (handler.go:45-57, service.go:63-76).
OneByOne(r) ==
  /\ Len(answers[r]) <= Len(Items[r])
  /\ phase[r] \in {"new", "connected", "closed", "reading", "refused"} => answers[r] = <<>>
  /\ phase[r] = "publishing" => ~AllDone(r) /\ result[Current(r)] = "busy"
  /\ phase[r] \in {"answered", "cut", "unseen"} => AllDone(r)
  /\ \A i \in DOMAIN Items[r] :
       /\ i <= Len(answers[r]) => result[<<r, i>>] = ResultOf(answers[r][i])
       /\ i = Len(answers[r]) + 1 /\ phase[r] \notin {"publishing", "broken"} =>
            result[<<r, i>>] = "idle"
       /\ i > Len(answers[r]) + 1 => result[<<r, i>>] = "idle"
       /\ result[<<r, i>>] # "idle" => VerdictOf(Items[r][i]) = "publish"

\* The publisher's promise: nothing is stored without a publish, and success
\* means stored.
StoredIsPublished ==
  \A c \in Call :
    /\ c \in stored => result[c] # "idle"
    /\ result[c] = "ok" => c \in stored

\* Each item is answered by its own outcome: "accepted" stands for a stored
\* message, and of a rejected item nothing is ever stored (handler.go:48-56,
\* service.go:63-84).
AnswersTrue ==
  \A r \in Request : \A i \in DOMAIN answers[r] :
    /\ answers[r][i] = "accepted" => <<r, i>> \in stored
    /\ answers[r][i] \in {"invalid", "no_template"} => <<r, i>> \notin stored

\* After a 400 the client need not ask itself whether something was sent: of a
\* request refused as a whole nothing is stored, then or later (errors.go:28-57).
ClientErrorStoresNothing ==
  \A r \in Request :
    phase[r] \in {"refused", "answered"} /\ Status(r) = 400 =>
      \A i \in DOMAIN Items[r] : <<r, i>> \notin stored

\* "Routing is guaranteed by validated type+priority + declared topology"
\* (publisher.go:95), and "bulk senders must opt in explicitly" (service.go:20):
\* a stored message is in a declared lane, in a bulk one only if asked for, and
\* names a template that the API has.
RoutedAsAsked ==
  \A c \in stored :
    LET item    == Items[c[1]][c[2]]
        message == Message(item)
    IN  /\ message.lane \in Lanes
        /\ message.lane[1] = item.type
        /\ message.lane[2] = "bulk" => item.priority = "bulk"
        /\ message.template \in Templates[item.type]

\* A request spends its time waiting for its header and its body and in the
\* publishes it made.
InTime(r) ==
  /\ cameAt[r] <= headAt[r] /\ headAt[r] <= age[r] /\ headAt[r] <= HeaderTimeout
  /\ phase[r] = "new" => age[r] = 0
  /\ phase[r] = "connected" => age[r] <= HeaderTimeout /\ grace <= age[r]
  /\ phase[r] = "reading" => age[r] <= ReadTimeout
  /\ phase[r] = "handling" => age[r] <= readAt[r] + Budget * Len(answers[r])
  /\ phase[r] = "publishing" =>
       waited[r] <= Budget /\ age[r] <= readAt[r] + Budget * Len(answers[r]) + waited[r]
  /\ phase[r] = "cut" =>
       age[r] - headAt[r] >= WriteTimeout /\ age[r] <= readAt[r] + Budget * Len(answers[r])
  /\ proc = "up" => grace = 0
  /\ InFlight(r) => grace <= cameAt[r] + (age[r] - headAt[r])
  /\ phase[r] \in Broken => ~Serving

\* A request's answer is lost to writeTimeout only if its body and the publishes
\* of its items could take so long (server.go:24-32).
CutOnlyIfLong ==
  \A r \in Request :
    phase[r] = "cut" => (readAt[r] - headAt[r]) + Budget * Len(Items[r]) >= WriteTimeout

\* A shutdown waits: from the signal, or from the header of a request that came
\* after it, to the deadline, a request that is broken off was reading its body,
\* or had an item in hand that it could reach only after such a time.  A header
\* that comes late costs a request no more than readHeaderTimeout of that time
\* (cmd/api/main.go:70-74).
ShutdownWaits ==
  \A r \in Request : proc = "gave_up" =>
    /\ phase[r] = "unread" => age[r] - headAt[r] >= Grace - cameAt[r]
    /\ phase[r] = "broken" =>
         (readAt[r] - headAt[r]) + Budget * (Len(answers[r]) + 1) >= Grace - cameAt[r]
    /\ cameAt[r] <= HeaderTimeout

\* "WriteTimeout must exceed the publisher's confirm timeout so a valid but slow
\* publish isn't cut off mid-response" (server.go:25-26): a request all of whose
\* publishes were confirmed is answered.
SlowPublishAnswered ==
  \A r \in Request :
    phase[r] = "cut" => \E i \in DOMAIN answers[r] : answers[r][i] # "accepted"

\* A connection and the request on it end, however slow the client, the broker
\* or a shutdown is: each has its timeout (server.go:27-32, publisher.go:85).
Ends ==
  \A r \in Request : phase[r] = "connected" ~> phase[r] \in Reached \cup Broken

\* The inductive invariant behind the safety properties.
Inductive ==
  /\ TypeOK
  /\ \A r \in Request : OneByOne(r) /\ InTime(r)
  /\ StoredIsPublished
  /\ ShutdownWaits

=============================================================================
