# notifications-system in TLA+

A model of the notification system of this repository: an HTTP API validates a
request and publishes it to RabbitMQ, worker processes consume one queue each,
render the notification and hand it to a provider.  The project model-checks
the parts where the difficulty lies (at-least-once delivery across crashes and
lost connections, a publisher shared by concurrent requests, processes that
check one notification against different templates) and proves their main
safety properties for every value of the constants.

Paths below are relative to `src/`; `rabbitmq/` is
`internal/infrastructure/rabbitmq/`, `queue/` is `internal/transport/queue/`.

## The system

| Component | State | Operations | Talks to |
|---|---|---|---|
| REST API (`internal/transport/rest/`) | none between requests; server timeouts | send one, send a batch, list and get templates, health | notification service, template service |
| Notification service (`internal/app/notification/service.go`) | none | `Send`: validate, resolve the template, publish | templates, publisher |
| Publisher (`rabbitmq/publisher.go`) | one confirming channel, a mutex | `Publish`, `PublishDeadLetter` | RabbitMQ; called by concurrent requests in the API and by the handler in a worker |
| Topology (`rabbitmq/topology.go`) | the broker's exchange, queues, bindings | `DeclareTopology`, at every process start | RabbitMQ |
| RabbitMQ | durable queues, unacknowledged deliveries per consumer | deliver, requeue, store, confirm | everyone |
| Broker consumer adapter (`rabbitmq/consumer.go`, `adapt` in `cmd/worker/main.go`) | a library buffer and two forwarding goroutines | `Consume`, `Ack`, `Nack` | RabbitMQ, consumer |
| Queue consumer (`queue/consumer.go`) | the delivery in hand | `Run`, `handle` | processor, publisher, delivery |
| Channel processors (`internal/app/notification/*_processor.go`) | a rate limiter | `Process`: render, build, wait, send | templates, limiter, provider |
| Worker process (`cmd/worker/main.go`) | two connections, a context | start, signal, end of `Run`, exit | all of the above |
| Templates (`internal/infrastructure/template/`, `internal/domain/template/`, `internal/app/template/`) | a map loaded once at start | load, `Get`, `GetDefault`, `List`, `Render` | REST API, service, processors |
| Provider value objects (`internal/domain/provider/`) | none | validate an address, number or token | notification entity, processors |
| Configuration (`internal/config/`) | none | read the environment | both processes |

What is hard: the worker settles a delivery only after publishing its
successor on another connection, so two steps on two connections must be
ordered against crashes, timeouts and a shutdown that waits for nobody; the
broker may redeliver what a worker still has in hand; confirms may arrive
after the wait for them was given up; concurrent requests share one channel.

What makes each part correct:

* queue consumer and worker: an accepted notification is never lost; it is
  duplicated only by failures, and boundedly; a dead letter has used up its
  attempts; every notification settles as long as connections come back; lanes
  do not wait for each other;
* publisher: success means stored; one call at a time uses the channel; every
  call returns; an error promises nothing;
* API: an accepted answer stands for a stored message, each item of a batch is
  answered by its own outcome, the answer is written in time;
* topology: nothing is published to, or consumed from, a queue that is not
  declared and bound;
* processors and value objects: what the API accepts the worker does not
  reject for its recipient; only transient failures are retried;
* templates: a worker misses a template that the API accepted only if its
  templates are others, and the catalogue is what a request may name;
* limiter and configuration: sends stay below the rate, through restarts and
  for rates that nobody meant to set.

## Modules

### LaneDelivery: the worker side

Any number of workers, lanes and notifications.  The broker's queues are one
sequence `store` of every copy it accepted, `acked` the positions that are
gone, `held` the positions delivered to a worker and not settled: a queue is
the positions of its routing key that are neither, oldest first, so that a
requeued copy is again at its place.  A worker is three parties:

* its consumer goroutine, `pc`, `cur`, `inbox`.  `Take` is the select of `Run`;
  `Drop`, `PassLimiter`, `LimiterCancelled`, `SendOk`, `SendFails`,
  `SendAmbiguous` are the results of `Process`; `Retry`, `DeadLetter`,
  `Confirmed`, `ConfirmNacked`, `ConfirmAbandoned`, `Ack` and `Nack` are
  `handle` and the publisher calls it makes;
* its main goroutine, `main`: `Signal`, `RunDrained`, then the deferred calls
  in their order, `ClosePublisher`, `CloseConsumer`, `Exit`, none of which
  waits for the handler;
* its connections, `pubUp`, `consUp`, `wire`, `conf`: frames written and not
  yet read by the broker outlive the process that wrote them (`BrokerTakes`
  may happen after `Crash`), and a channel that closes resolves the open
  confirm as a nack.

`inbox` stands for the library's buffer and the two forwarding goroutines.
When the consumer connection goes, the buffer goes with it but up to two
deliveries in the goroutines are still handled, while the broker gives the
same copies to others.  Their acknowledgement does nothing.  Both ends see the
loss in one step.  A broker that gives up a client for missed heartbeats, while
the client still takes its connection for open, requeues the whole buffer at a
time when its deliveries are still handled: then more than `MostStale` of them
may be stale, up to the prefetch, and `DuplicatesBounded`, `Accounted` and
`FailuresStayLocal` hold with that number in its place only.

Abstractions: why a notification is undeliverable (rendering, recipient,
unparseable body) is one constant set; the rate limiter either grants a token
or returns the cancelled context's error; the provider accepts, fails, or
accepts and fails.  History variables (`sends`, `tries`, `cuts`, `dropped`,
`faults`) exist for the properties only; `tries` stops counting at
`MaxRetries + 1`.  A new process on a worker's place drops what the previous
one left unread on the wire, as if the old connection had ended.

### NotificationPromise: what the lanes implement

Known notifications, those still in a lane, and the outcomes each has had.  A
notification leaves its lane only after an outcome, an undeliverable one is
only ever given up, others are delivered or dead-lettered, and a settled one
may come back as a duplicate.  `KeepsPromise` states that LaneDelivery
implements it.

### Publisher and PublishContract: the publish path of the API

Any number of calls of `Publisher.publish` on one channel.  `Begin`, `Lock`,
`Write`, `Acked`, `Nacked`, `TimesOut`, `WriteFails` follow the function line by
line; `Expire` is the end of a call's context, by its five seconds or by its
request.  The broker stores or refuses what is on the wire, its confirms
travel back, the library resolves them, and the connection may close at any
time and is never re-opened.  The mutex does not see the context, the library
ignores the context when it writes, and `WaitContext` may pick the deadline
although the confirm is there.

PublishContract is what a caller may rely on: success only for stored
messages, each message stored at most once, and an error that excludes
nothing, not even that the message is stored later.

### Notifications and Intake: the API

`Notifications` is `Service.Send` up to the publish, as operators: the default
priority, the invariants of `notification.New`, the template that is resolved
and stamped on the message.  An address is empty, malformed or valid here; Recipients says which is which.

`Intake` is the API process.  A connection is accepted (`Connect`), a request is
read from it (`Arrive`, `Read`, `Refuse`) or none comes (`Close`), its items are rejected or published one after the other (`Reject`, `Publish`,
`Return`), and its answer is written if the connection still takes it
(`Answer`).  Publishing is PublishContract's: `Begin`, `ReturnOk`, `ReturnError`
and the broker's `Store` are steps of the contract, so a failed item may be
stored even after its answer.  A client may leave, which stops neither the
handler nor the batch.  `Signal`, `Exit` and `GiveUp` are the end of `main`: a
shutdown that closes the listener and returns nil or the deadline.  `Shutdown` of
net/http leaves a connection alone that is new, so a request whose header comes
after the signal is still served, with what is left of the grace; `cameAt` keeps
how much of it was gone.  `GiveUp` and `Crash` leave a request
"unread" whose body was still on its way, and "broken" one that was being
handled.

Time passes in `Tick`.  A header takes up to `readHeaderTimeout`, header and body
together up to `readTimeout` (both counted from the accepted connection), a
publish up to its budget, and everything else takes none; `writeTimeout` counts
from the header.  A connection carries one request here: a further one on a
kept-alive connection is a request with a connection of its own, which
`Shutdown` may close (`Close`) as long as it is idle.  That a publish keeps its
budget is what its comment claims; Publisher shows that the mutex does not
observe it.  Go's mutex hands over in order of arrival once a call waited a
millisecond, so a queued call gets it when those before it, whose budgets end
earlier, have returned; only a write that blocks in the socket breaks the bound.

### Recipients, Templates and Processing: what becomes of a notification

`Recipients` has the value objects as operators: an address is a sequence of
kinds of characters, and `IsAddress` accepts what the constructors accept.  A
digit outside ASCII is a digit of two bytes; what `net/mail` parses is modelled
as far as dots, quotes, brackets and at signs go.  What an accepted number
or address is like (`AcceptsE164`, `AcceptsAddresses`) is stated for the texts of
the constants `PhoneTexts` and `EmailTexts`, which may be any set of such
sequences.

`Templates` has the files as sequences of pieces: delimiters, line ends, words,
and actions of the template language.  `NewFileRepository` goes from a tree of
files to the repository, or refuses the tree (`Loads`); `BodyOf` and `Meta` are
`splitFrontMatter`; `Known` and `List` are the lookups; `Renders` and `IsBlank`
are what the worker's rendering comes to.  Front matter is as far as YAML goes
here: a line is a key or empty, and a key occurs once.  `AllReadBack` is
stated for the constants `FrontMatters` and `Bodies`, any sets of blocks and
bodies.  `Processing` has the three as its properties `PhoneNumbersAreE164`,
`EmailsAreAddresses` and `FrontMatterComesBack`, which TLC evaluates in the
initial state: the parsers keep no state.

`Processing` puts them into processes.  `Release` changes the templates on
disk, and each process has those that were there when it started (`StartApi`,
`Start`).  The API accepts or refuses a request by its own (`Accept`, `Refuse`).
A worker goes through `Process` with its own: `RenderError` and `Cause` are the
checks in their order, and lead to `Drop`; `Take` enters the limiter's wait,
`WaitRefused` is a wait that fails at once, `Grant` ends it, `SendOk` and `Fail`
end the send, and `Retry` is what the consumer makes of an error that is not
permanent.  `IsWorkerEnv` and `EnvInt` are `LoadWorker`.  The bucket is that of
`rate.NewLimiter(limit, limit)`: full at the start, a token for each `Tick`,
never above the burst.  `window` is a history: one entry for each tick, with
what was sent and how often the worker started since.

Brokers and connections do not fail here, a worker that dies gives its delivery
back, and the acknowledgement is part of the step it follows.  LaneDelivery has
those failures and takes the outcomes of `Process` as given.

### Topology: the declarations the other modules take for granted

The exchange, queues and bindings as RabbitMQ has them, and processes that
each go through `DeclareTopology` (`Program`, one `Declare` per call to the
broker) before they publish or consume (`Subscribe`: `NewPublisher` has
returned and, for a worker, `Consume` found its queue).  `Publish` is confirmed
whether or not a queue is bound for the message, because it is not mandatory.
`BrokerRestarts` drops what the code did not ask to be durable, and cuts every
connection.  A worker ends then, and so does a process that is still declaring;
the API goes on without a connection ("severed"), since nothing in
`cmd/api/main.go` sees the loss, and no step but `Stop` gets it out of there.  A message is
taken and acknowledged in one step: redelivery is LaneDelivery's subject.

### Proof and model-checking modules

`MCLaneDelivery`, `MCIntake`, `MCProcessing` and `MCTopology` give TLC its
functions, symmetry, the one-sided fairness of the isolation run, and the short
texts that the parsers are run on.
`LaneDeliveryProofs`, `LaneDuplicatesProofs`, `LaneExactlyOnceProofs`,
`LanePromiseProofs`, `PublisherProofs`, `IntakeProofs`, `ProcessingProofs` and
`TopologyProofs` hold the theorems.

Definitions commented "Mutant" are wrong versions of the definition after
them, as a bug would make it.  Nothing uses them; substituting one must make
the property it belongs to fail (`PROJECT.json`, "mutants").

## Runs

Run a configuration with `tlc -config <cfg> <module>`.

| Run | Instance | Shows |
|---|---|---|
| `LaneSafety.cfg` | 2 workers, 1 notification, 1 retry, no prefetch limit, 2 faults | `Inductive`, `ExactlyOnceUnlessFault`, `NeverLost`, `DeadLettersPaidFor`, `DuplicatesBounded`, `Accounted` |
| `LaneLiveness.cfg` | 1 worker, 2 notifications (1 undeliverable), 1 retry, prefetch 2, 2 faults | `KeepsPromise`, `Settles`, `Drains`, `ConsumerRecovers` |
| `LaneIsolation.cfg` | 2 lanes with a worker each, fairness for the first only, 1 fault | `FirstLaneIsolated`, `LanesStayApart`, `FailuresStayLocal` |
| `LaneHalfOpen.cfg` | 1 worker, 1 notification, 1 fault | `NeverLoopsForever` is violated |
| `LaneCutShort.cfg` | 1 worker, 1 notification, 1 fault | `DeadMeansTried` is violated |
| `PublisherCalls.cfg` | 3 calls | `Inductive`, `KeepsContract`, `CallsReturn` |
| `PublisherFailFast.cfg` | 2 calls | `QueuedFailFast` is violated |
| `IntakeSafety.cfg` | a single request and a batch with items to reject, at once | `Inductive`, `AnswersTrue`, `CutOnlyIfLong`, `ShutdownWaits`, `ClientErrorStoresNothing`, `RoutedAsAsked`, `Ends` |
| `IntakeCutOff.cfg` | a batch of 7, the code's durations | `SlowPublishAnswered` is violated |
| `TopologyStarts.cfg` | the API and a worker, 2 lanes and the dead letters, 2 messages, 3 faults | `Inductive`, `ConfirmedIsKept`, `OwnLaneOnly`, `ComesUp` |
| `ProcessingRollout.cfg` | the API and 2 workers (rate 1 and one retry, rate 0 and the default retries), 2 notifications with 3 and 2 possible requests, 3 releases of templates, the first of which does not load | `Inductive`, `DropsExplained`, `RateBounded`, `CatalogIsUsable`, `EndsWhileServed`; `FrontMatterComesBack`, `PhoneNumbersAreE164`, `EmailsAreAddresses` over short texts |
| `ProcessingFix.cfg` | the API and 1 worker, 1 notification | `FixAppliesInFlight` is violated |

Bounds.  One retry gives a fresh copy, a retry copy and a dead letter, the
three kinds there are.  Two workers are needed for a redelivery to another
process and for the cross-acknowledgement that the invariant is about; two
notifications, in `LaneLiveness`, for confirms and dequeues that could be mixed
up.  `MaxFaults`
bounds crashes, lost connections, refused or timed-out publishes, ambiguous
sends, signals and late picks together; two of them already give a stale
delivery whose successor is also interrupted.  Everything else is finite by
itself: every further copy costs a retry or a fault.  The publisher has no
bound but its calls, each of which runs once.  The workers wait for deliveries
when everything is settled and the calls all return, so the deadlock check is
off.

Of the seven queues the topology has, three suffice: one the worker reads, one it does not, and the
dead letters.  Three faults restart the broker after a process was stopped and
before another one is ready.

Intake's clock counts units of the publish timeout of five seconds: in the code
the budget and the header timeout are 1, the read timeout 3, the write timeout 6
and the grace 2.  `IntakeSafety` lowers the read timeout to 2 and the write timeout
to 3, so that a slow body and a slow publish are enough to be cut off.  A header
that comes one unit after the signal, a body still on its way when the grace ends
("unread" after `GiveUp`) and a publish broken off half-way all occur.  A batch
outside the schema does not: a third request is beyond TLC's reach, and `Refuse`
leaves it in the state of a request whose body never came.  The theorems cover
it.  Ages stay finite because time cannot pass beyond a limit.

Of Processing's releases one has a broken template and a file that is skipped,
the next fixes it with a second file of the same ID and adds a template to
one type and a first one, that is no default, to another, and one does not
load: it is on disk before the others in `ProcessingRollout.cfg`, where nothing
starts until it is replaced, and after them in `ProcessingFix.cfg`, where a
process that ends cannot come back.  Each of the causes a worker can drop for, apart from the recipient, occurs; so do a send after the
fix, a dead letter without any send (rate 0), and the exact bound of
`RateBounded` after a restart.  A worker starts at most `MaxStarts` times, and
ticks are counted only while a token is missing, which a send must have taken.
Texts of the front matter have up to 4 pieces before and 4 behind the closing
delimiter, delimiters among both, numbers 6 characters with limits lowered to 2 and 3 digits, and
e-mail addresses 5 characters of every kind or 7 of the main ones.

Fairness.  `WorkerFairness` is weak: Go runs every goroutine that can run, the
handler's blocking calls return (a publish by its timeout, a send by the
provider's), RabbitMQ delivers and reads, and `restart: unless-stopped`
(docker-compose.yaml) starts a worker that ended.  It says nothing about a
provider accepting, about signals or about connections staying up.  `Settles`
and `Drains` assume that no worker stays half open for ever (publisher
connection gone, still consuming), because the code has no step that ends that
state; `NeverLoopsForever` is the same claim without the assumption, and fails.
The publisher's fairness covers timers, the mutex and runnable goroutines.  The
broker need not answer anything, but it has to read: the write to the socket
(publisher.go:91) has no deadline, and one that blocks would hold the mutex and
everyone behind it, so `CallsReturn` is about brokers that hang without filling
the socket.  In Topology a start goes on and the supervisor starts a process that
has ended (`WF_vars(Boot(p))`, from `restart: unless-stopped`).  An API that lost
its connection has not ended, so `ComesUp` promises it nothing: it stays severed,
which is a defect of the code and not of the start.  In Intake handlers run,
timers fire and `main` waits for `Shutdown` (`Due`); that a header or a body
arrives, that a publish returns before its budget is used up or that a signal
comes is not assumed.  In Processing a worker that runs handles its
deliveries and its bucket fills; nothing restarts a worker, and no send needs to
succeed.

## Where the documents and the code differ

* `NeverLoopsForever`: the README's "rather than lost or looping forever" fails
  for a worker whose publisher connection is gone.  The failed publish
  requeues the delivery unchanged, so its retry count never grows.
* `DeadMeansTried`: a stop signal during the limiter wait spends a retry, or
  dead-letters, without a send.  `DeadLettersPaidFor` is what does hold:
  attempts and cut-short attempts together pay for every retry.
* `QueuedFailFast`: the comment in `publish` says that queued calls fail fast
  once their budget passes.  They wait for the mutex and publish.
* `SlowPublishAnswered`: the comment on `writeTimeout` says that a valid but slow
  publish is not cut off.  A batch publishes up to 100 items in a row and is.
  What holds is `CutOnlyIfLong`.
* `FixAppliesInFlight`: README.md:78 says that fixing a broken template applies
  to messages still in the queue.  It does once the worker restarts; until then
  the worker drops them for the template it has in memory.
* Without a run:
  * openapi.yaml wants exactly the address field of the type to be set; the code
    ignores the other fields (`IsValid`).
  * `file_repository.go:16-28` speaks of "---" lines: the closing delimiter is
    any line that starts with "---", and the rest of that line becomes body.  An
    empty front matter (two "---" lines in a row) is an error (`Closings`).
  * `sms.go:65` says 7 to 15 digits: they are counted in bytes, so that digits
    outside ASCII count twice or more, and fewer than seven are enough
    (`PhoneNumbersAreE164` says "exactly" of numbers in ASCII digits only).
  * `email.go:50` says that the display name is removed; it is removed for the
    checks only, and the value that is kept and sent to has it.
  * `config.go:40` says provider calls per second: a second may see twice the
    rate, and each restart a burst more (`RateBounded` is what holds).

## Proofs

Each theorem is for every value of the constants that satisfies the named
assumptions (`LaneAssumption`, `LimitAssumption`, `CallAssumption`,
`NotificationAssumption`, `IntakeAssumption`, `TopologyAssumption`,
`RecipientAssumption`, `PhoneAssumption`, `EmailAssumption`, `TextAssumption`,
`ProcessingAssumption`): any number
of workers, lanes, notifications, retries, faults, calls, and texts of any
length.  `tlapm <module>.tla` checks them.

*LaneDeliveryProofs.*  `NeverLost` is not inductive: `Ack` removes a copy, and
only the history of the handler says why that is harmless.  `Inductive` adds it.
`SettleSafe`: a handler about to acknowledge has a resolved notification or a
*later* pending copy.  Later matters: with "another copy" two workers could
acknowledge two copies at once, each relying on the other's, while with a later
one the latest copy is never acknowledged unless the notification is resolved.
`ConfirmOwn`: the confirm a handler waits for is that of the frame it wrote
last, so an abandoned publish of an earlier delivery cannot answer for it.
`AttemptsPaid` carries the accounting of `DeadLettersPaidFor` over the wire, and
`OnlyDeliverable` keeps undeliverable notifications off it.  The proof splits
the invariant into groups and treats each group action by action; a frame
lemma covers the actions that touch nothing a group speaks of.

`LanesAreIsolated` is the safety side of "bulk traffic can never delay
transactional traffic": a step that changes anything of a notification, its
sends, attempts, copies or dead letters, is the API's publish of it or a step of
a worker of its lane.  It rests on `OwnLane`, an invariant of the proof module:
what a worker has received, has in hand and has on the wire is of the lane it
serves, or a dead letter from it.  A retry keeps its lane, whose routing key is
made from the type and priority of the message.
`InboxStep`, `HandStep` and `WireStep` say where each of the three comes from.

*LaneDuplicatesProofs.*  `DuplicatesBounded` counts what happened, and a
delivery adds one to the count at any time, so the invariant has to count what
may yet happen as well.  `Accounted` does: a *claim* of a notification is a dead
letter, or something that can end in a delivery or a dead letter without a further
fault: a copy in the lane that no running worker sees to, a handler at work on
one, a stale delivery that will still be picked, a publish on the wire.  Deliveries
and claims together are at most 1 and `MostStale` for each fault.  The proof
(`ClaimsAccounted`) has one balance lemma for each way a step can change the sum.
`Take`, `Retry`, `DeadLetter` and `BrokerTakes` move a claim from one place to the
next (`ClaimMoves`), `SendOk` ends one in a delivery (`ClaimDelivered`), `Ack` and
the end of a worker add none (`NothingAdded`), and only a fault adds some
(`FaultAdds`): the deliveries in the goroutines when the consumer connection
goes, or the copy that a handler no longer sees to.  That a claim is not counted
twice needs `Deliveries`: what a worker has in hand is what the broker says
it holds, or stale, and no copy is held by two workers.  `FailuresBoundDuplicates`
follows, since dead letters are claims.

Each of these lemmas says what a step costs one notification: nothing (`Free`), or
at most `MostStale` at a fault of the worker that has it in hand (`Costs`).  That
is the invariant's step, and more: `FailuresCostOnlyWhatIsInHand` is the action
property that the total hides.  `DuplicatesBounded` alone would allow a thousand
failures elsewhere to be spent on one notification; the theorem says that a
notification whose workers never fail while they have it in hand keeps the one
delivery, or dead letter, it had coming.

*LaneExactlyOnceProofs.*  `ExactlyOnceUnlessFault` counts outcomes, and what
keeps the count at one is that work goes on with one copy at a time.  `Once`
says so: a copy is *open* while no handler has done with it what there is to do
but the `Ack`, an open copy is the youngest of its notification, and there is
none once the notification was delivered or dead-lettered.  A retry closes the
copy in hand in the same step in which the broker stores its successor, since
nothing but this publish is on the wire (`Steady`), and two handlers never have
one copy in hand (`Deliveries`, from `ClaimsAccounted`).  The first two hold only
before the first fault, so a step that preserves them is a step that is none
(`CalmCases`).

*LanePromiseProofs.*  Every step of the lanes maps to a step of the promise or
changes nothing in it.  The interesting cases are `Ack` (retiring the last
copy requires an outcome, by `SettleSafe`) and `BrokerTakes` (an abandoned
retry that surfaces late; by `NeverLost` its notification has an outcome or is
still in its lane).

*PublisherProofs.*  `Inductive` joins mutual exclusion (`Serialized`), truthful
confirms (`ConfirmsTrue`) and single storage (`WrittenOnce`); success and the
refinement of PublishContract follow.

*IntakeProofs.*  `Inductive` says which publish each answer stands for
(`OneByOne`), what the contract gives (`StoredIsPublished`) and where a
request's age comes from (`InTime`): its header, its body and a budget for each
item behind it.  The answers' truth, the clean 400 and the routing follow from
the first two, the bounds on cut-off answers and broken requests from the third:
during a shutdown the grace that has passed is at most what had passed when a
request's header came, and its age since.  `cameAt` is zero for a header before
the signal and never above `readHeaderTimeout`, because the listener is closed and
only connections accepted before the signal bring requests.  So a request of the
code's durations has five to ten seconds from its header before it is broken off.

*ProcessingProofs.*  `DropsExplained` speaks of a step at which a worker repeats
checks of the API, so it needs what the API had checked to be still known then:
`HandsHold` keeps, for everything that left the API, the release its verdict
was given by, and for what is in a hand that it passed every check of that
worker.  `PublishedMeans` and `DropMeans` compare the two lists of checks: the
recipient's is the same operator, and a template known in a release is
resolved with the same one.  `RateBounded` alone is not inductive either, since a
full bucket may be spent at any time: `BucketBounded` counts what is left in the
bucket as spent.  A send moves one from the bucket to the count, a tick adds one
to every window's allowance and opens a new one, and a start fills the bucket at
the price of one more burst.

Four theorems there are about operators.  `CatalogAlwaysUsable` is for any tree
of files: `LoadedTemplates` says what a template of a loaded repository is, whatever
files shared its ID, and `ListedAre` that the list and the lookups see the same
ones.  `FrontMattersComeBack` is for blocks and bodies of any length, and between
them its cases are all the texts there are: behind the opening line the first line
that starts with a delimiter closes (`FirstClosing`), whatever follows it on its
line or in the body (`TakenApart`); a block without such a line, or with one only
directly behind the opening delimiter, is refused (`UnclosedRefused`); and a text
that opens no block is its body.  `EmailsArePlainOrMore` is for
texts of any length: an address has one at sign, each dot behind it joins two
words (`DottedWords`), and a display name in front only shifts it; in the other
direction a plain address passes each check by itself (`PlainIsAddress`).
`PhoneNumbersInE164` needs an induction, since `normalizePhoneNumber` goes through
the number character by character.  `Counting` is that induction, stated for a
set of numbers instead of a predicate: `Built` uses it for the recursive function
to be defined at every length, and `NormalizedIs` for what it has written after each
character, which is every character but the separators, in their order.  The
length the code checks is then the bytes of what was written.

*TopologyProofs.*  `ConfirmedIsKept` needs `Behind`: what a started process has
declared is still there, whatever the others do and whether or not the broker
restarted since.  `AllBound` then gives that a process with every declaration
behind it publishes into a bound queue, and the broker only ever gains
declarations (`Grows`) because all of them are durable.

Only model-checked: everything under fairness (`Settles`, `Drains`,
`ConsumerRecovers`, `FirstLaneIsolated`, `CallsReturn`, `Ends`, `ComesUp`,
`EndsWhileServed`), which is out of the prover's reach.  Every other property of
a passing run is a theorem.

## Not modelled

One composition of the plan is not built, *Pipeline*: the API's publisher
composed with the lanes, so that a notification is followed from the request to
the provider through failures of both connections.  Intake already runs on PublishContract and LaneDelivery
already has `Enqueue` for what the API published; what the composition would
add is the client that sends again after an ambiguous answer.

Processing is not stated to implement NotificationPromise: it acknowledges in the
step that reaches the outcome, which the promise has as two steps.  LaneDelivery,
which has them apart, is the module that implements it.

Left out:

* what a client sees of the API's dead connection: it is dialled once, and when it
  closes every send fails (Publisher has that, and Topology has the severed
  process) while `/health` answers a constant, so there is no further step to
  model;
* contention for the mutex of the API's publisher between lanes: a notification
  enters LaneDelivery when it is published (`Enqueue`), so `FirstLaneIsolated`
  and `LanesStayApart` are about the workers' side, and a bulk batch that keeps
  the API's publisher busy is outside them;
* generated bindings (`server.gen.go`), which decode and route; logging and
  recovery middleware; wording of errors; the order in which templates are
  listed; the provider stubs; `MarkSent` and `MarkFailed`, called nowhere;
* the inside of RabbitMQ, amqp091-go, net/mail, yaml.v3, the template packages
  and x/time/rate beyond what the code relies on.
