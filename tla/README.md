# tagstrak in TLA+

A formal model of [tagstrak](https://github.com/iomz/tagstrak), which reads RFID
tags from an LLRP reader, translates and matches them against subscriptions, and
delivers the matches to HTTP destinations. The modules are translated from the Go
source (paths below are relative to the repository), checked on small instances
with TLC; the safety properties of every component and of the reader session against the
emulator, two refinements and that the subscription index answers as the linear matcher
are proved for every instance with TLAPS. What is only model-checked ends the section on
proofs.

## The system

| Component | State it keeps | Operations | Interacts with |
| --- | --- | --- | --- |
| Report dispatcher `internal/report` | per destination: a bounded queue, a worker with the batch it collects, counters | `Enqueue`, `Start`, `Close`, the worker's `run`, `deliver`, `abandon` | called by the consumer; calls a `Reporter`; closed by `App.Run` |
| HTTP reporter `internal/report/httpreport` | none | one POST per attempt, classification of the answer, `Retry-After` | called by `deliver` |
| Reader session `internal/reader` | connection state, retry attempt, `Snapshot` of counters | `Run`: dial, handshake, keepalives, reports, reconnect | writes the application's queue; read by telemetry |
| Application `internal/app/tagstrak/app.go` | the observation queue, atomics for draining, failure, processed, abandoned | `Run` starts, selects, drains and joins everything; `consume` | owns reader, consumer, dispatcher, servers |
| Subscription table `subscriptions.go`, management API `controlapi.go`, reload `configure.go` | an atomic snapshot with a revision, a lock for writers | GET, PUT with `If-Match`, SIGHUP reload, load at startup | writes the state file before publishing; read by every match |
| State file `internal/config/state.go` | one JSON file | write, sync, rename, sync directory; load | called under the table's lock |
| Filter `internal/filter` | immutable matchers; the adaptive one keeps a selection, estimates and counters | compile, match, sample, switch | called by the consumer |
| Telemetry and control servers `telemetry.go`, `listener.go`, `internal/control` | connection counts | status, metrics, authentication, limits | read everybody's state |
| Emulator `internal/emulator` | scenario catalogue and cursors, client slots, per-connection keepalives | accept, serve, replace the scenario | the reader session's peer in tests and demos |
| Rig application `internal/app/rig`, command `cmd/tagstrak-rig` | which of its two parts has ended, what it will return | `Run`; PUT of a scenario; generation of tags | owns the emulator and a control server |
| Tag data translation `internal/tdt`, identities `internal/identity` | none: generated tables, immutable values | decode, encode, print and parse, compile patterns | called by the consumer, the matchers and the rig |
| LLRP codec `llrp`, inventory `internal/inventory`, configuration `internal/config` | none | pure functions over bytes and strings | used by all of the above |

What is hard here: one worker per destination racing `Enqueue` and a `Close` with a
deadline; retries whose answers are lost; a session that may lose its peer, its
context or its queue at every step; a shutdown whose five causes may be ready at
once; replacements, reloads and restarts around one atomic snapshot and one file; a
crash between any two writes; an index that must agree with a linear scan; a matcher
that changes itself under its callers; a keepalive whose acknowledgement and deadline
arrive together; a connection closed from two sides; tag layouts that move with a
partition, and bit tests that must be exactly the fields they stand for. `PROJECT.json` lists each such hazard at its line with
the properties that answer it.

## Modules

| Module | Models | Uses |
| --- | --- | --- |
| `DeliveryContract` | the promises of the package comment of `internal/report/report.go`, lines 4 to 18 | |
| `Dispatcher` | `internal/report/dispatcher.go` | implements `DeliveryContract` |
| `DispatcherProofs` | theorems about `Dispatcher` and `RetrySchedule` | extends `MCRetrySchedule`, which states what the defaults promise |
| `RetrySchedule` | the clock of `deliver`, with the answers of `httpreport` | |
| `ObservationSource` | what `App.Run` relies on of a reader session | |
| `ReaderSession` | `internal/reader/session.go`, with what `protocol.go` accepts | implements `ObservationSource` |
| `ReaderSessionProofs` | theorems about `ReaderSession` | |
| `Application` | `App.Run`, `App.consume`, the readiness of `Status` | composed with `ObservationSource` |
| `ApplicationProofs` | theorems about `Application` | |
| `StateFile` | `internal/config/state.go` with crashes and power failures | |
| `Subscriptions` | `subscriptions.go`, `controlapi.go`, the reload of `configure.go` and `cmd/tagstrak` | composed with `StateFile` |
| `SubscriptionsProofs` | theorems about `Subscriptions` with its `StateFile` | |
| `Patterns` | `internal/identity/pattern.go` and the rule of `internal/filter/filter.go` | |
| `PatternIndex` | `internal/filter`: `linear.go`, `index.go` | extends `Patterns` |
| `Adaptive` | `internal/filter/adaptive.go` | |
| `FilterProofs` | theorems about `PatternIndex` and `Adaptive` | |
| `GS1Tags` | `internal/tdt/gs1epc` over `tdtdef` and `tdtcore`: layouts, decoding, encoding, URIs, patterns | extends `Patterns` |
| `ISOTags` | `internal/tdt/iso`: register, text, interpretation, encoding | extends `GS1Tags` |
| `Translation` | `internal/tdt/tdt.go`, the consumer of `app/tagstrak/translate.go`, the generator of `cmd/tagstrak-rig/uii.go` | extends `ISOTags` |
| `TranslationProofs` | theorems about `Translation` with `GS1Tags` and `ISOTags` | |
| `TagTables` | `schemes_gen.go` and `registry_gen.go` with the values the program has | |
| `MCMatching` | the instance of all of them together, and of the adaptive matcher: one behaviour follows a tag, matches a list or adapts, never two of them | extends `PatternIndex`, `Adaptive`, `Translation`, `TagTables` |
| `Emulator` | `internal/emulator`: `server.go`, `session.go`, `reports.go`, the catalogue and cursor of `scenario.go` | |
| `Link` | one TCP connection at a time between the two: `ReaderSession` against `Emulator` | composes both |
| `EmulatorProofs` | theorems about `Emulator` and `Link` | |
| `Rig` | `internal/app/rig`, the connections of `internal/control` | |
| `RigProofs` | theorems about `Rig` | |
| `MC...` | the instance TLC checks, with its `.cfg` of the same name | |

An operator that a comment calls a mutant is a plausible mistake in the operator
after it. It is not part of any specification: the properties were checked to fail
when it takes that operator's place. `RetrySchedule` and `PatternIndex` call their
specifications `ClockSpec` and `IndexSpec`, since a module of proofs extends them
together with another component.

### Dispatcher

An event is the number of the `Enqueue` call that offered it, in the order in which
the calls reach the `select` that decides about them. Each worker has a program
counter: `select` is the three-way select of `run`, `send` is `send` up to the batch
number, `attempt` and `sleep` are the loop of `deliver`, `resume` is the end of `send`.
`EnqueueSend` and `EnqueueCount` are separate because the counter of an accepted event
is raised after the send, when the worker may have delivered it already. A `Reporter`
may take a batch at any time of an attempt, or not, and answer anything; an attempt
that has taken the batch may still be answered by a time-out. `Close` has the steps
begin, deadline, join, and count, and may come before `Start`; a second `Close` returns
at once and changes nothing. After a queue is closed, the code sends its last batch and
returns: here that is one more turn of the loop. JSON is reduced to the size of an
event, with the envelope's bytes and a comma between two; `Unencodable` are the events
`encodeEvent` rejects (the present event type never is, so one run has such an event
and the other none). Which attempt is the last for lack of time is left open, so that every
outcome of `RetrySchedule` is one of `Dispatcher`. Flags used only for logging are left out.

The history variables `calls`, `fate`, `received` and `deadline` are those of
`DeliveryContract`, which `Dispatcher` is shown to implement: an event is owed from its
acceptance until it is settled once, a destination is shown only the oldest events it
is owed, delivered means taken, and given up means a deadline or a dispatcher that was
never started.

### RetrySchedule

One batch, with an exact clock: attempts that take up to `RequestTimeout`, the backoff
that doubles per attempt up to its cap, a longer `Retry-After` hint that replaces it up to
the same cap, and the budget, which is compared with the time spent plus the next wait.
Permanent errors, successes and the two limits end it. The attempt limit is a variable that
never changes: the runs try the default of 10 and the 5 it was raised from, with which the
attempt count does end retries. A `Retry-After` is a number of seconds that a duration may
not hold: `Duration` wraps it, so a hint may be negative.

### ReaderSession and ObservationSource

The places of `Run` and `connected` are the values of `pc`; `status` is the `Snapshot`,
and `Enter` its `transition`. A message is what `session.go` tells apart of it; anything
`protocol.go` rejects is malformed. The peer sends any message at any place, and reads
and writes fail at any moment, for the peer's reasons, a deadline's or because the
watcher closed the connection of a cancelled run. Observations are numbered as decoded,
so a gap shows. The length of the backoff is left out: its timer may fire at any time.
The snapshot may be read between any two of `Run`'s updates, so each update is a step: the state
`connecting` before the attempt is counted and the old delay cleared, the next delay before the
state `reconnecting`, the error cleared before the state `serving`. `StatusTrue` names the windows this
leaves: a session that has lost its connection still shows `ready` when the failure is counted, and with the delay
of the next attempt, until it announces `reconnecting`. A snapshot with `ready` never shows either while there is
a connection.

### Application

`pc` follows `Run`: the select, the drain loop, the wait after its deadline, then
delivery, control server and telemetry server. `ShutOn...` are the five ways out of the
select; each stops the reader. `consumer` is the consumer goroutine: waiting, in a
`Consume` call that has or has not enqueued its event, or what it returned. The reader is
`ObservationSource`; the delivery path is a number of accepted events, for one destination, which settle in
their own time or are given up when `Close` meets its deadline, as `Dispatcher` shows.
A readiness probe does the reads of `Status` one at a time.

### Subscriptions and StateFile

A PUT is the read of `revision_before`, `Replace` under the lock up to the start of
`commit`, the steps of `WriteState`, publication, and the answer; a GET tells a client
the published revision. A reload takes the signal, reads the file, and replaces. A file
is a saved state and whether its bytes have reached the disk; there is the file under
the path and the one a power failure would leave. Directory syncing is best effort in
the code, so it may fail here; properties about durability then make no claim, nor do
they when a process was restarted from a renamed file its predecessor died before
syncing: `LoadState` does not sync it, so a client can be told a revision that a power
failure right after takes back. Clients send only revisions they were told of. The lists of subscriptions are any set
with an empty one, which has no value in common with the marks of a torn file and of a
free lock.

### Patterns and PatternIndex

`Matches` is the rule of `filter.matches`, with the patterns of `internal/identity`;
`LinearMatch` is the linear matcher, the reference; `IndexMatch` is what the index
answers. Bits are sequences, and the size of a byte is a constant, so that small bytes
meet every alignment of a mask's leading run. The tries are modelled by the entries a
tag leads to (`Reached`), without their nodes: of a mask, the whole bytes of its leading
run are the path and the rest is the test of the next byte. A domain or scheme
fixes the names of a pattern's fields, which are left out. What a number reads
as is the constant operator `Number`, so that the index needs no texts. `Scan` is the
loop that both matchers have, over the list or over the sorted ranks of the entries found:
a match is appended once per subscription. It is a recursive function, which can be proved about.
`InputAssumption` says what the constructors of patterns and tags ensure: a list is one
the program compiles, and a tag's bits fill bytes.

### GS1Tags, ISOTags, Translation and TagTables

These modules are operators: a function of the code that may refuse is the set of its
results, empty or of one element, and a `...Refusal` operator names the error where a
caller tells errors apart. A field's text is its width and its value, which keeps
padding, leading zeros and empty texts apart; a URI is a family, a name and
parts, so only the splitting at colons and dots is left out. Of ISO text, a character is its
value, and the split of data identifiers, the controls and the words of the
encoding are the code's.

`Translation` follows one tag. `Consume` is the consumer: what a reader reports is
translated, passed over as untranslatable, or fails the application. `Generate` and `MakeUnit`
are the rig's generator. Then the translation is rewritten by its encoder, printed and
parsed as either URI, or sent over the air and read back, in any order and
number; `first` is what it was. `TranslateRefusal` has the checks of `Translate` in its order.

The model's layouts have twelve bits and three digits, so all 4,096 tags can be read;
they keep what sets the four generated schemes apart. `LayoutsAccepted` is what `newScheme`
checks at startup; `LayoutAssumption` is what the program relies on in a layout and leaves to the
generator: sites that share no bit and leave none out, room for every maximum, one option per
header and partition. `RegisterAssumption` is the same of the register: what can be
read under an entry can be written under the current one, with the same data identifiers.
`WordAssumption` relates both to the PC word: a layout fills whole words, and the
longest identity is shorter than the word can count. `TagTables` holds the layouts and the register
at their real values (a maximum as its number of bits) and says all of them; and that
maxima fit, and no ISO scheme has the name of a GS1 scheme.

### Adaptive

`Count` is the atomic counter of `Match`, which decides whether a call is sampled,
`MatchSelected` a call that is not, `Sample` one that is. A sampled call holds the lock
from its choice of a shadow to the publication of a new selection, so it is one step;
the callers around it count and read the selection at any time. What a run of a
matcher takes is any of `Costs`; means are rounded down as in the code.
That the candidates give one answer is `PatternIndex`'s.

### Emulator

`pc` is the place of each connection's `serve`, `reader` that of its read worker, and
`input` the queue of one message between them. Timers fire at any time. A message may
arrive at any time, is stamped when read, and may be held by the worker
while the queue is full: an acknowledgement that is stamped in time and not yet queued
when its deadline is due ends the connection, as in the code, and `AckedIsKept` speaks of
those in the queue. The handshake is one step with its failures. Tags and their bytes
are left out: a frame is its scenario, cycle and position, and how often the
cursor's random source was used before it, on which its order depends. What a connection
was sent is kept per revision of the scenario, with which the cursor starts anew. A scenario has at
least one cycle and no empty one, as its decoder requires. `Replace` may come between
any two steps. A connection gives its slot back one step before it is uncounted.

### Link

Both modules allow any peer. Here each is the other's: a step of one of them is taken
together with what it does to the connection, and the modules themselves are as they are
elsewhere. `link` is the connection the session has, `toClient` what the
emulator wrote to it and the session has not read, `toServer` what the session wrote to
each connection, which the emulator may go on reading when the session has left. Both arrive
in order, as over TCP; what is written to a connection that the session has left is read
by nobody. The kernel connects before the emulator accepts, so a session may wait
for a notification that never comes. Either end may fail, be cancelled, or let a deadline
pass at any moment, and the session then dials again.
A message is what the receiver tells apart of it: the
emulator compares an acknowledgement's id with the last one it sent, and takes anything else for a violation.
What `ReaderSession` leaves to its peer, that a first message is a notification or an answer comes
once, is not assumed here but follows.

### Rig

`pc` follows `App.Run`: refused, run without a socket, or the select, `Shutdown` or after its
deadline `Close`, and the join; `first` is what the select took. `data` is the goroutine
of the emulator's server, `serve` that of the control server's, and what each sent is in `dataErr` and
`serveErr`. A connection is accepted by the limited listener, which raises the count before it
compares; it is handed to a goroutine, serves requests, and is closed by that goroutine
and perhaps by `Run` as well. A `Close` is two steps, the socket and then the once that
gives the slot back. `PutReplaces` and `PutAudited` are separate, since requests overlap.
What `net/http` does is external, with two habits that a reader of `Run` may not expect:
a connection it has just accepted, and a request it has just read, are not yet seen by
`Shutdown`, which may return before they are served. So `Run` does not promise that no
request is handled after it, and `AuditsTell` holds of those as well.
The limited listener of `internal/app/tagstrak/listener.go` is the same code with
a limit of 32.

## Runs

| Run | Shows |
| --- | --- |
| `dispatcher` | one destination, two producers, four calls, a queue and batches of two, two attempts: `TypeOK`, order, loss only at the deadline, counters, limits, the contract, and that every event and `Close` come to an end |
| `dispatcher_lanes` | two destinations of which one may hang: batch numbers never collide, and the healthy one's events are settled |
| `retry_schedule` | the default configuration in units of 200 ms, with hints that overflow a duration of eleven bits: everything settles in time, and a destination that refuses connections for 20 s loses nothing |
| `retry_outage` | a violation: a destination that hangs for 22 s can lose a batch (see below) |
| `reader_session` | two reconnects, eight messages, reports of up to three against a queue of two |
| `reader_overflow` | a violation: an overflow that does not fail the run (see below) |
| `application` | four observations through a queue of two, all ends of all parts in all orders |
| `subscriptions` | two clients, three changes, two crashes |
| `matching` | every tag of three small layouts and some ISO tags, with and without PC words; their rewriting; the patterns over them; and lists of two subscriptions, with every mask and value of two bytes: the index answers as the linear matcher, bit tests are what their fields are, no tag ends the application, and rewriting changes nothing. And the matcher that adapts: three candidates, two callers, 81 calls of which eight are sampled, and full shadow |
| `emulator` | one connection with two keepalives and any messages, or two connections for one slot or two, with one replacement of the scenario: equal frames for all, slots and counters, acknowledgements honoured, an orderly stop |
| `link` | the session against the emulator: one connection with two reports and two keepalives, or a second connection after the first is lost, for one slot: neither ever reads what it does not expect, keepalives and acknowledgements pair up, and a ready session is served |
| `rig` | three control clients for two slots, two replacements, with and without a socket: slots given back once, audits that tell the truth, and a `Run` that ends with both its parts and hides no failure |

The bounds: with a queue of two and four calls an event can be in the queue, in the
batch, held over a full batch and dropped at the same time, and a retry can meet a newer batch. Two
reconnects distinguish a budget for the run from one for a connection; reports of three
overflow the queue in the middle. Four observations put one in the consumer, two in the
queue and one outside. Three changes allow two requests with one revision and one
between them; two crashes allow a revision to be issued twice. Two bytes of two bits
give leading runs that end before, inside and at the end of a byte, against tags that end
there too; two subscriptions of two patterns give duplicates and answers
out of order. Eight samples warm three candidates up and leave room for two switches and
a cooldown between them, and 81 calls let a budget of 5% be reached. Two keepalives
allow the acknowledgement of the first to meet the second, and one replacement falls
between any two frames. In `link`, two reports and two keepalives cross the handshake and
each other's answers, and one reconnect meets an emulator that has not yet noticed and has its
only slot taken. Three clients on two slots refuse one, and let one in as
another is closed from two sides; two replacements overlap. A larger value adds
repetitions of these situations and no new one.

Fairness: in `Dispatcher`, each worker's steps, since goroutines are scheduled, timers
fire, and an attempt ends by its time-out; `Start` and the deadline of a `Close` under way. In `ReaderSession`, its goroutine, since every
dial, read and write has a deadline or a watcher, and delays have timers; nothing
is assumed of the queue's consumer. In `Application`, `Run`, the consumer (a `Consume`
call has a time-out), the shutdown timer, and that a stopped reader ends, which
`CancelStops` shows of `ReaderSession`; nothing is assumed of destinations. In
`Subscriptions`, the reload goroutine only. In `Emulator`, `Run`, whose watcher
closes the listener of a cancelled server, and each connection's `serve` and worker, which
have deadlines and a watcher; nothing is assumed of peers, timers or replacements. `Link`
assumes none. In `Rig`, `Run`, the goroutine of `Serve`, and the emulator's when it is cancelled, which
`CancelStops` shows of `Emulator`; the shutdown deadline comes; nothing is assumed of clients.

### Where documentation and code differ

- `README.md:149` says a destination may be down for about 23 seconds with the
  defaults. That holds when it refuses at once (`RefusingOutageLosesNothing`). When
  attempts hang until their time-out, the 30 s budget, compared with the time spent plus
  the next wait, ends them sooner (`retry_outage`).
- `README.md:216` says any queue overflow fails the run. A cancellation between the
  overflow and the loop's look at its context makes `Run` return the cancellation,
  which is reported as success (`reader_overflow`).

Four more observations contradict no sentence of the documentation that a run checks.
`tagstrak_observations_received_total` counts the observations handed over: what an
overflow or a cancellation leaves of a report was decoded and is in no counter. A
`Retry-After` of more than 9,223,372,036 seconds overflows its duration and is taken for
a shorter wait or none; the retry clock stays within its bounds (`SettledInTime`).
A scrape may find `tagstrak_ready` at 1 and `tagstrak_reader_retry_delay_seconds` above 0: the
connection is lost by then, and readiness is withdrawn an update later (`session.go:133`). And
the comment of `rig/control.go:13` has every attempt to replace the scenario audited; one whose client has
gone before `Replace` (line 32) is not, and replaces nothing. `AuditsTell` speaks of the replacements made.

## Proofs

The theorems hold for every value of the constants that satisfies the assumptions of their
modules. Those are what `Validate` or a constructor of the code enforces: capacities
and limits are positive, a batch is no larger than its queue, the control server's limit is
one of 1 to 1024, a scenario has no empty cycle, the adaptive filter has its
bounds, a duration is wide enough for a budget, a time-out and a backoff. The bounds of
the runs (calls, changes, crashes, replacements, frames) are any numbers. Connections and
clients may even be infinitely many, and `ServedWithinLimit` and
`Occupancy` include that only finitely many are served.

Most properties are not inductive. What makes them so:

**`DispatcherProofs`.** `TypeCorrect`: waking from a retry's sleep raises the
attempt number, which stays in range only because `deliver` never sleeps after its
last attempt; `TypeInv` adds that. `ConservationHolds` (enqueued = delivered + failed +
undelivered + in hand, up to the calls between send and counter): `ConsInv` adds
`HandsFree`, that a worker holds an event back only while it sends the batch before it. One lemma
says what settling a batch does to the balance of its lane, one that other lanes are
untouched, and one step per action follows. `LostOnlyAtDeadlineHolds`: `ShutdownInv`
relates `closed`, `aborted`, `closer` and `deadline`: `Close` aborts the workers when its
deadline has passed or they are done, and a worker that is done has left its queue
empty. `KeysNameBatchesHolds`: a batch that was shown is shown again when it is
retried, so `KeyInv` says that its number is still no one else's.

The rest is built on `OrderInv`: of each lane the batch, the
event held back and the queue are one ascending line, which is exactly the pending events, and
what the destination has received is older, or is the batch under way.
- `ImplementsContractHolds`: `DeliveryContract` is implemented, step by step.
  `ContractInv` adds that an answer comes only from a destination that took
  the batch. There is a lemma for each action of the contract; the steps of the dispatcher
  that do none of them change nothing the contract sees.
- `BatchingHolds`: `LimitsInv` says that `size` is what the batch weighs, a comma for
  every event included, and that a worker that goes on receiving has room left.
- `CloseAccountsHolds`: `AccountInv` says all along that each counter is the number of events
  that met its outcome, and that `Close` collects when the workers are gone. With
  `LostOnlyAtDeadlineHolds` it is `ShutdownAccountsHolds`, which the run checks.
- `WaitIsBounded`, of every attempt number and every hint, wrapped ones included: it is why
  `ClockInv` holds, in which a sleep is planned only within the budget, and so
  `SettledInTimeHolds`. `DoubledIs` shows that the recursive definition of the backoff has a solution.
- `RefusingOutageSurvived`, of any configuration: `RefusedInv` says that while every attempt is refused
  at once, the attempt under way started where the waits before it put it, so that a batch is given up
  at the last attempt or when the next backoff ends past the budget, both after the outage.
  `DefaultOutageSurvived` adds up the waits of `DefaultConfig`, in any unit of time.

**`ReaderSessionProofs`.** `SessionInv` has four parts behind the types. `DeliveryInv`: an error
that loses observations is never one that `Run` retries, or the next connection would leave a
gap. `ResultInv`: what `Run` returns is the error it counted. `ReadyInv`: a session that serves was
configured and has no error to show, and no delay when it decides about a failure. `BudgetInv`: what the counters of the snapshot are at each place of `Run`. They
give `NothingVanishesHolds` and `StatusTrueHolds`, and with
`ImplementsSourceHolds` each step is one of `ObservationSource` or a stutter.

**`ApplicationProofs`.** `AppInv`: `PhaseInv` (where `Run` is decides what it has started,
joined and closed), `PartsInv` (what the goroutines have done, and what was
joined of them), `LossInv` (whatever is lost has an error in `Run`'s result that tells
so, if only the deadline's) and `ProbeInv` (a probe whose answer cannot become yes: something it has
not read yet already says no, and will not say yes again). From it: `AccountedHolds` and
`CleanStopLosesNothingHolds` (together `LossesToldHolds`), `ReadyAnswerHeldHolds`, `NothingOutlivesHolds`.

**`SubscriptionsProofs`.** `LockInv`: the lock is held by the one request that is being
committed, whose precondition still holds. `FileInv`: what is being written is the next snapshot.
`DiskInv`: the disk may be one snapshot behind while the directory is not
synced. `KnownInv`: whatever a client knows is not ahead of disk, file or snapshot, and agrees with
each that has the same revision, so that a restart contradicts none of it, whichever file it
finds. `SeenInv` is about the requests under way. `BoundInv` keeps revisions in the bounded set
of the model. From them `ShownIsDurableHolds`, `RevisionNamesSpecHolds`, `AuditBracketsHolds`, and the action property
`ConditionalReplacesSeenHolds`.

**`EmulatorProofs`.** `WorkerInv` and `CountInv` (the slots are those in `serve`, and the
counters those in `serve` and those leaving) give `ClientsCountedHolds` and
`ReturnLeavesNobodyHolds`, together `OccupancyHolds`. `ReproducibleHolds` is a statement about two connections, and is proved of each
alone: what is sent is a chain whose first frame and whose next frame are determined by the
scenario and the last frame; `PlayInv` says where the cursor is on it, and
`ChainsAgree`, by induction over the frames, that two chains of one scenario agree.
`AckedIsKeptHolds` is an action property.

For `Link`, the invariant `LinkInv` adds three parts to those of the emulator. `PhaseInv` says what each
place of the session means for the other end: it waits for the notification, has seen it,
waits for the answer, which is the first message to come if any has, or is served and
has only reports and keepalives before it. `FreshInv`: a connection that is not served
yet has at most the request under way. `TokenInv` is the one that carries the result: the keepalive,
or the acknowledgement it has turned into, is at one of five places (sent, with the session, sent back, read by the
worker, queued for `serve`) or nowhere, it bears the number of the last keepalive, and while it is anywhere the
emulator awaits it and has no other one armed. Each step moves it by one place, takes it away
together with the connection, or leaves it (`TokenAt`, `TokenNowhere`, `TokenKept`); what one connection
does leaves the others alone (`OthersKept`). From it `NeitherAtFaultHolds`,
`OneUnderWayHolds` and `ReadyIsServedHolds`. So the two violations a step of
either module may report are ones that these two programs never commit against each other.

**`RigProofs`.** `RunInv`: what `Run` returns is put together from errors decided earlier, and
one that says cancelled comes from a cancellation. `SlotInv`: a slot comes
back once because its socket is closed before, and the listener counts one too many
only while it rejects that one. `AuditInv`: a request that replaced the scenario and has not
recorded it yet knows its own revision, of which there is no record. From them
`ReturnTellsHolds`, `ServedWithinLimitHolds`, `AuditsTellHolds`.

**`FilterProofs`**, for the index. `PruningIsExact`: an entry that the rule accepts is
reached; `ByteEndsInside` is the arithmetic of a test that looks at the whole next byte,
`BitsReached` and `FieldsReached` are the two tries. `FoundIsMatched`: so the
entries the index confirms are those the rule accepts. `IndexMatchIsLinear`: the scan of their sorted
ranks is the scan of the whole list, because a scan passes over what does not match
(`ScanOfFew`) and does not depend on how the entries are numbered (`ScanMaps`). So `IndexAgreesHolds`.
For the adaptive matcher, `AdaptiveInv`: `CooldownKept` (the controller's counter is the distance
to the last switch), `RoundsKept` (while it warms up, `nextShadow` says how far the
round of the shadows is), `OverheadKept` (what warming up may cost, and what the calls pay for) and
`AnswersKept`. From it `ShadowsHarmlessHolds` and the action property `SwitchJustifiedHolds`.

**`TranslationProofs`.** That a bit test is what the fields of its pattern say
(`BitTestIsExactHolds`) takes four layers.
- Numbers: `BitsAtBits` and `BitsAtValue` say that what is read at a site determines its bits and
  is determined by them, so `WrittenIsRead` (literals and fields written
  together are read back, as they share no bit) and `PinsTested` (a tag passes a mask when each
  pinned site has its value).
- Texts: `RenderFacts` and `ParsedRenders`, with the powers of the base: a field's text determines its value,
  and what `parseField` accepts is what `Render` writes.
- Tags: `LiteralsSelect` (header and partition literals select the one layout whose
  literals hold), so that encoding and decoding agree (`EncodedDecodes`). The inductive invariant is `TagsKnown`:
  however it was read, made, printed or parsed, a tag is an ISO tag or
  `ReadsAs`, at some layout, what its bits say.
- Patterns: `PinsAre`, since stars are a suffix, so every exact field lies before the
  first of them and is pinned; then `ImpliedTestIsExact` for a pattern with a company prefix, and
  `HeaderTestIsExact` for one of stars alone.

`IdentityKeptHolds` rests on these. `KeptInv` is its invariant: the tag, and the one it began
with, could both have been `Written`, and are the `SameThing` (identity, scheme and kind).
- GS1: `ReadingCanonical` says that components read from a tag are ones `Encode` accepts, so every
  encoder and both URIs give a tag back (`GS1Rewrites`, `PureURIKeeps`,
  `TagURIKeeps`), and what the generator makes up is never refused
  (`RandomEncodes`). `ReadingUnique`: sites leave no bit out, so
  identity, scheme and filter determine all bits.
- ISO: `TextRead` and `TextWritten` are the round trips of six-bit text. `EncodeISO` writes
  only what its decoder splits in the same way, which gives `UnitReads` and
  `DecodedUnit`; a historical identifier is rewritten under a current one with the same data
  identifiers (`UnitRewrites`).
- Both: `AirInput`, that a PC word counts the words of what was written.

`NoTagFailsTheConsumerHolds` says that `Untranslatable` has every refusal that any stage gives. The
theorems rest on `LayoutsAccepted`, `LayoutAssumption`, `SchemesApart`, `RegisterAssumption` and
`WordAssumption`, which TLC evaluates for the small layouts and `TagTables` states of the generated ones
(`GeneratedAccepted`, `GeneratedAssumption`, `MaximaFit`, `RegisterApart`, `GeneratedWords`), and on
`TagInputAssumption`, that what is read are bits and what is asked for are digits.

The library's induction theorems take an operator as a parameter and cannot be used here.
Induction goes over a set of numbers instead (`LeastNumber`, `InductiveSet`, from the
well-foundedness of the numbers). That is enough for the sums, scans, means and doublings
of these modules, whose recursive functions are shown to have a solution first (as `ScansExist` does).

Only model-checked:
- Liveness, and everything that needs fairness: `DeliveryEnds`, `Isolation`, `CancelStops`
  of both modules that have one, `RunReturns`, `HangupTakesEffect`, `RunEnds`. The
  prover has no rule for it.

## Not modelled

- The LLRP wire format, inventory files, configuration and secret files, and the
  commands' flags: parsers without state, each run once or once per message, with
  round-trip, table and fuzz tests of their own. What they refuse enters the modules as a malformed
  message, an invalid file, or an assumption on a constant.
- Authentication, request ids and JSON bodies of the control server: decided within
  one request; what they refuse changes nothing.
- The splitting and escaping of URIs, the wording of errors, logs, metric texts, TLS and
  headers: layout or I/O.
- Tools, benchmarks and the generator of the tables: not part of the running programs.
  The generator's output is `TagTables`.

## Plan

1. Done: `Dispatcher` and its contract, `RetrySchedule`, `ReaderSession`,
   `Application`, `StateFile` and `Subscriptions`, as the paths an observation and
   a subscription take; `PatternIndex` and `Adaptive`, which match; `Emulator`; tag data;
   `Rig` with the control server's connections.
2. Done: the proofs of the safety properties, action properties and refinements of
   all components.
3. Done: `Link`, in which `ReaderSession` has `Emulator` as its peer.
