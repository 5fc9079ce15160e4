---------------------------- MODULE Application ----------------------------
(***************************************************************************)
(* internal/app/tagstrak/app.go: App.Run starts the reader session, the    *)
(* consumer, the delivery path and the two HTTP servers, waits for the     *)
(* first of them to end or for its own context, and shuts everything down  *)
(* within one ShutdownTimeout.  The reader is ObservationSource, which     *)
(* ReaderSession implements; the delivery path is the backlog of a         *)
(* Dispatcher, which settles its events in its own time.                   *)
(***************************************************************************)
EXTENDS Naturals, Sequences

CONSTANTS QueueCapacity,
          MaxObservations  \* bound: observations the reader hands over

ASSUME ApplicationAssumption == QueueCapacity \in Nat \ {0} /\ MaxObservations \in Nat

VARIABLES
    queue, handed, serving, stopped, outcome,  \* the reader: ObservationSource
    pc,         \* where Run is
    result,     \* the errors joined into Run's result
    cancelled,  \* Run's context is cancelled
    late,       \* shutdownEnd has passed
    draining, consumerFailed, processed, abandoned,  \* App's atomics
    readJoined, consumerJoined,  \* readFinished and consumeFinished
    consumer,   \* the consumer goroutine: its place, or what it returned
    halted,     \* consumeCtx is cancelled
    delivery,   \* the dispatcher: "new", "started" or "closed"
    backlog, undelivered, refused,  \* events accepted, given up, offered too late
    server, control,  \* the HTTP servers: "up", "failed" or "joined"
    asked,      \* how many of Status's reads a readiness probe has done
    held        \* history: the application was ready when the first was done

reader  == <<queue, handed, serving, stopped, outcome>>
consume == <<consumerFailed, processed, abandoned, consumer>>
deliver == <<delivery, backlog, undelivered, refused>>
joins   == <<readJoined, consumerJoined>>
probe   == <<asked, held>>
appVars == <<reader, pc, result, cancelled, late, draining, joins, consume, halted, deliver,
             server, control>>
vars == <<appVars, probe>>

Reader == INSTANCE ObservationSource

Init ==
    /\ Reader!Init
    /\ pc = "new" /\ result = {} /\ cancelled = FALSE /\ late = FALSE
    /\ draining = FALSE /\ consumerFailed = FALSE /\ processed = 0 /\ abandoned = 0
    /\ readJoined = FALSE /\ consumerJoined = FALSE
    /\ consumer = "waiting" /\ halted = FALSE
    /\ delivery = "new" /\ backlog = 0 /\ undelivered = 0 /\ refused = 0
    /\ server = "up" /\ control = "up"
    /\ asked = 0 /\ held = FALSE

Started == pc # "new" /\ ~(pc = "returned" /\ delivery = "new")
ReaderEnded == outcome # "running"

-----------------------------------------------------------------------------
(* The environment: the caller's context, the clock, the servers, and the  *)
(* reader session                                                          *)

Cancel == /\ ~cancelled /\ pc # "returned"
          /\ cancelled' = TRUE
          /\ stopped' = (stopped \/ Started)  \* readCtx is its child
          /\ UNCHANGED <<queue, handed, serving, outcome, pc, result, late, draining, joins,
                         consume, halted, deliver, server, control>>

Deadline == /\ draining /\ ~late /\ pc # "returned"
            /\ late' = TRUE
            /\ UNCHANGED <<reader, pc, result, cancelled, draining, joins, consume, halted,
                           deliver, server, control>>

ServerFails == /\ Started /\ server = "up" /\ pc # "returned"
               /\ server' = "failed"
               /\ UNCHANGED <<reader, pc, result, cancelled, late, draining, joins, consume,
                              halted, deliver, control>>

ControlFails == /\ Started /\ control = "up" /\ pc # "returned"
                /\ control' = "failed"
                /\ UNCHANGED <<reader, pc, result, cancelled, late, draining, joins, consume,
                               halted, deliver, server>>

\* The goroutine that runs the session, closes the queue and reports the end.
Read == /\ Started
        /\ \/ handed < MaxObservations /\ Reader!Hand
           \/ \E b \in BOOLEAN : Reader!Serving(b)
           \/ \E r \in {"failed", "cancelled"} : Reader!End(r)
        /\ UNCHANGED <<pc, result, cancelled, late, draining, joins, consume, halted, deliver,
                       server, control>>

-----------------------------------------------------------------------------
(* The consumer: App.consume, TranslatingConsumer, MatchingProcessor       *)

ConsumerOnly == UNCHANGED <<handed, serving, stopped, outcome, pc, result, cancelled, late,
                            draining, joins, halted, server, control>>

ConsumerTakes ==
    /\ Started /\ consumer = "waiting" /\ queue # <<>>
    /\ queue' = Tail(queue)
    /\ consumer' = "consuming"
    /\ ConsumerOnly /\ UNCHANGED <<consumerFailed, processed, abandoned, deliver>>

\* The queue is closed and empty.
ConsumerDrained ==
    /\ Started /\ consumer = "waiting" /\ queue = <<>> /\ ReaderEnded
    /\ consumer' = "nil"
    /\ ConsumerOnly /\ UNCHANGED <<queue, consumerFailed, processed, abandoned, deliver>>

ConsumerHalted ==
    /\ consumer = "waiting" /\ halted
    /\ consumer' = "cancelled"
    /\ ConsumerOnly /\ UNCHANGED <<queue, consumerFailed, processed, abandoned, deliver>>

\* The observation is translated and matched. If its matches route to a
\* destination, its event is offered to the delivery path, which refuses it
\* when it is closed.
Enqueue == IF delivery = "closed"
           THEN refused' = refused + 1 /\ UNCHANGED backlog
           ELSE backlog' = backlog + 1 /\ UNCHANGED refused

ConsumerMatches ==
    /\ consumer = "consuming"
    /\ consumer' = "matched"
    /\ Enqueue \/ UNCHANGED <<backlog, refused>>
    /\ ConsumerOnly /\ UNCHANGED <<queue, consumerFailed, processed, abandoned, delivery, undelivered>>

\* Consume returns nil before its context ends.
ConsumerSucceeds ==
    /\ consumer = "matched" /\ ~halted
    /\ processed' = processed + 1
    /\ consumer' = "waiting"
    /\ ConsumerOnly /\ UNCHANGED <<queue, consumerFailed, abandoned, deliver>>

\* Consume returns an error, or runs out of time: perhaps after its event was
\* accepted.
ConsumerFails ==
    /\ consumer \in {"consuming", "matched"}
    /\ consumerFailed' = TRUE
    /\ abandoned' = abandoned + 1
    /\ consumer' = "failed"
    /\ ConsumerOnly /\ UNCHANGED <<queue, processed, deliver>>

ConsumerEnded == consumer \in {"nil", "cancelled", "failed"}

Consumer == \/ ConsumerTakes \/ ConsumerDrained \/ ConsumerHalted \/ ConsumerMatches
            \/ ConsumerSucceeds \/ ConsumerFails

\* The dispatcher delivers an event or finally fails it.
Settle == /\ delivery # "new" /\ backlog > 0
          /\ backlog' = backlog - 1
          /\ UNCHANGED <<reader, pc, result, cancelled, late, draining, joins, consume, halted,
                         delivery, undelivered, refused, server, control>>

-----------------------------------------------------------------------------
(* App.Run                                                                 *)

Goto(label) == pc' = label
RunOnly == UNCHANGED <<queue, handed, serving, outcome, cancelled, late, consumerFailed,
                       processed, consumer>>

Start ==
    /\ pc = "new" /\ ~cancelled
    /\ Goto("select")
    /\ delivery' = "started"
    /\ RunOnly /\ UNCHANGED <<stopped, result, draining, joins, abandoned, halted, backlog,
                              undelivered, refused, server, control>>

\* The context is already done, or a listener cannot be opened.
StartFails ==
    /\ pc = "new"
    /\ Goto("returned")
    /\ \/ cancelled /\ result' = {"cancelled"}
       \/ result' = {"start"}
    /\ RunOnly /\ UNCHANGED <<stopped, draining, joins, abandoned, halted, deliver, server, control>>

\* The reader's error counts, unless it is the answer to being stopped.
ReaderError == IF outcome = "failed" THEN {"reader"} ELSE {}
ConsumerError == IF consumer = "nil" THEN {} ELSE {consumer}

\* Mutant: the reader is stopped only by the caller's context.
ShutKeepsReader == /\ pc = "select"
                   /\ Goto("drain")
                   /\ draining' = TRUE /\ UNCHANGED stopped
                   /\ RunOnly /\ UNCHANGED <<abandoned, halted, deliver>>

\* Run takes the first end it sees, and stops the reader.
Shut == /\ pc = "select"
        /\ Goto("drain")
        /\ draining' = TRUE /\ stopped' = TRUE
        /\ RunOnly /\ UNCHANGED <<abandoned, halted, deliver>>

ShutOnCancel == /\ Shut /\ cancelled
                /\ result' = {"cancelled"}
                /\ UNCHANGED <<joins, server, control>>

ShutOnReader == /\ Shut /\ ReaderEnded
                /\ result' = IF outcome = "failed" THEN {"reader"} ELSE {"cancelled"}
                /\ readJoined' = TRUE
                /\ UNCHANGED <<consumerJoined, server, control>>

ShutOnConsumer == /\ Shut /\ ConsumerEnded
                  /\ result' = ConsumerError
                  /\ consumerJoined' = TRUE
                  /\ UNCHANGED <<readJoined, server, control>>

ShutOnServer == /\ Shut /\ server = "failed"
                /\ result' = {"server"} /\ server' = "joined"
                /\ UNCHANGED <<joins, control>>

ShutOnControl == /\ Shut /\ control = "failed"
                 /\ result' = {"control"} /\ control' = "joined"
                 /\ UNCHANGED <<joins, server>>

\* Joining the reader and the consumer.
Drain == RunOnly /\ UNCHANGED <<stopped, draining, abandoned, deliver, server, control>>

JoinReader == /\ pc = "drain" /\ ~readJoined /\ ReaderEnded
              /\ readJoined' = TRUE /\ result' = result \cup ReaderError
              /\ Drain /\ UNCHANGED <<pc, consumerJoined, halted>>

\* Mutant: what a consumer says while it is drained is ignored.
JoinConsumerSilently ==
    /\ pc = "drain" /\ ~consumerJoined /\ ConsumerEnded
    /\ consumerJoined' = TRUE /\ UNCHANGED result
    /\ Drain /\ UNCHANGED <<pc, readJoined, halted>>

JoinConsumer == /\ pc = "drain" /\ ~consumerJoined /\ ConsumerEnded
                /\ consumerJoined' = TRUE /\ result' = result \cup ConsumerError
                /\ Drain /\ UNCHANGED <<pc, readJoined, halted>>

\* Mutant: nobody waits for what was cancelled.
DrainDeadlineLeaves == /\ pc = "drain" /\ late /\ ~(readJoined /\ consumerJoined)
                       /\ Goto("abort")
                       /\ halted' = TRUE /\ result' = result \cup {"deadline"}
                       /\ readJoined' = TRUE /\ consumerJoined' = TRUE
                       /\ Drain

\* The deadline passed: the consumer is cancelled too, and both are awaited.
DrainDeadline == /\ pc = "drain" /\ late /\ ~(readJoined /\ consumerJoined)
                 /\ Goto("abort")
                 /\ halted' = TRUE /\ result' = result \cup {"deadline"}
                 /\ Drain /\ UNCHANGED joins

AbortReader == /\ pc = "abort" /\ ~readJoined /\ ReaderEnded
               /\ readJoined' = TRUE
               /\ Drain /\ UNCHANGED <<pc, result, consumerJoined, halted>>

AbortConsumer == /\ pc = "abort" /\ readJoined /\ ~consumerJoined /\ ConsumerEnded
                 /\ consumerJoined' = TRUE
                 /\ Drain /\ UNCHANGED <<pc, result, readJoined, halted>>

\* Mutant: delivery is closed as soon as the reader is joined.
CollectEarly ==
    /\ pc \in {"drain", "abort"} /\ readJoined
    /\ Goto("deliver")
    /\ abandoned' = abandoned + Len(queue) /\ queue' = <<>>
    /\ delivery' = "closed"
    /\ UNCHANGED <<handed, serving, outcome, cancelled, late, consumerFailed, processed, consumer,
                   stopped, result, draining, joins, halted, backlog, undelivered, refused,
                   server, control>>

\* Mutant: what is left in the queue is released uncounted.
CollectUncounted ==
    /\ pc \in {"drain", "abort"} /\ readJoined /\ consumerJoined
    /\ Goto("deliver")
    /\ queue' = <<>> /\ UNCHANGED abandoned
    /\ delivery' = "closed"
    /\ UNCHANGED <<handed, serving, outcome, cancelled, late, consumerFailed, processed, consumer,
                   stopped, result, draining, joins, halted, backlog, undelivered, refused,
                   server, control>>

\* What is left in the queue is abandoned, and delivery stops accepting.
Collect ==
    /\ pc \in {"drain", "abort"} /\ readJoined /\ consumerJoined
    /\ Goto("deliver")
    /\ abandoned' = abandoned + Len(queue) /\ queue' = <<>>
    /\ delivery' = "closed"
    /\ UNCHANGED <<handed, serving, outcome, cancelled, late, consumerFailed, processed, consumer,
                   stopped, result, draining, joins, halted, backlog, undelivered, refused,
                   server, control>>

Finish == RunOnly /\ UNCHANGED <<stopped, draining, joins, abandoned, halted, delivery, refused>>

\* delivery.Close returns: drained, or giving up the backlog at the deadline.
DeliveryClosed ==
    /\ pc = "deliver" /\ (backlog = 0 \/ late)
    /\ Goto("control")
    /\ undelivered' = backlog /\ backlog' = 0
    /\ result' = IF backlog > 0 THEN result \cup {"undelivered"} ELSE result
    /\ Finish /\ UNCHANGED <<server, control>>

\* A server is shut down: requests that outlive the deadline are an error, and
\* so is a server that had failed before and was not the cause of the shutdown.
ShutdownErrors(s) == (IF late THEN {{}, {"shutdown"}} ELSE {{}})
                     \X {IF s = "failed" THEN {"server"} ELSE {}}

ControlDown ==
    /\ pc = "control"
    /\ Goto("telemetry")
    /\ \E e \in ShutdownErrors(control) : result' = result \cup e[1] \cup e[2]
    /\ control' = "joined"
    /\ Finish /\ UNCHANGED <<backlog, undelivered, server>>

ServerDown ==
    /\ pc = "telemetry"
    /\ Goto("returned")
    /\ \E e \in ShutdownErrors(server) : result' = result \cup e[1] \cup e[2]
    /\ server' = "joined"
    /\ Finish /\ UNCHANGED <<backlog, undelivered, control>>

Run == \/ Start \/ ShutOnCancel \/ ShutOnReader \/ ShutOnConsumer \/ ShutOnServer \/ ShutOnControl
       \/ JoinReader \/ JoinConsumer \/ DrainDeadline \/ AbortReader \/ AbortConsumer \/ Collect
       \/ DeliveryClosed \/ ControlDown \/ ServerDown

Terminated == pc = "returned" /\ UNCHANGED appVars

App == Cancel \/ Deadline \/ ServerFails \/ ControlFails \/ Read \/ Consumer \/ Settle
       \/ Run \/ StartFails \/ Terminated

-----------------------------------------------------------------------------
(* Status, for a readiness probe: four reads, one after the other. The     *)
(* answer is yes when all of them say so.                                  *)

Running == Started /\ pc # "returned"
Ready   == Running /\ ~draining /\ ~consumerFailed /\ serving

Says(read) == CASE read = "snapshot" -> serving
                [] read = "running"  -> Running
                [] read = "draining" -> ~draining
                [] read = "consumer" -> ~consumerFailed

\* Mutant: the reader's snapshot is taken last.
ReadsSnapshotLast == <<"running", "draining", "consumer", "snapshot">>

Reads == <<"snapshot", "running", "draining", "consumer">>

Probe == /\ asked < Len(Reads)
         /\ LET read == Reads[asked + 1] IN
              IF Says(read)
              THEN asked' = asked + 1 /\ held' = IF read = "snapshot" THEN Ready ELSE held
              ELSE asked' = 0 /\ held' = FALSE
         /\ UNCHANGED appVars

Answered == /\ asked = Len(Reads)
            /\ asked' = 0 /\ held' = FALSE
            /\ UNCHANGED appVars

Next == (App /\ UNCHANGED probe) \/ Probe \/ Answered

Spec == Init /\ [][Next]_vars

\* Run and the consumer are scheduled, the shutdown timer fires, a stopped
\* reader ends (its Dialer honours its context and its connection is closed), a
\* Consume call returns when its context ends.
FairSpec == /\ Spec
            /\ WF_appVars(Run) /\ WF_appVars(Consumer) /\ WF_appVars(Deadline)
            /\ WF_appVars(stopped /\ Read /\ ReaderEnded')

-----------------------------------------------------------------------------

\* Every observation the reader handed over is in the queue, with the consumer,
\* processed or abandoned, whatever ends the run and in whatever order.
Accounted ==
    handed = processed + abandoned + Len(queue)
                + (IF consumer \in {"consuming", "matched"} THEN 1 ELSE 0)

\* Delivery is closed behind the consumer: no event is refused because of it.
DeliveryOutlivesConsumer ==
    /\ refused = 0
    /\ delivery = "closed" => ConsumerEnded /\ ReaderEnded

\* A run that returns nothing but its cancellation, which main turns into
\* success, lost nothing: all that was handed over was processed, and every
\* event was delivered or finally failed.
CleanStopLosesNothing ==
    pc = "returned" /\ result \subseteq {"cancelled"} =>
        /\ abandoned = 0 /\ processed = handed
        /\ undelivered = 0 /\ ~consumerFailed /\ outcome # "failed"

\* Nothing is lost without being counted, nor without Run saying so.
LossesTold == Accounted /\ CleanStopLosesNothing

\* The application is ready, as Status defines it, only while somebody takes what
\* the reader hands over, and the delivery path accepts it. A probe that is
\* answered yes is answered so for a moment of the probe, although what it read
\* changes between its reads.
ReadyAnswerHeld ==
    /\ Ready => ~ConsumerEnded /\ ~ReaderEnded /\ delivery = "started"
    /\ asked = Len(Reads) => held

\* Run's parts end in their order, delivery behind the consumer, and when it has
\* returned, the goroutines it started are gone, and no event is still with the
\* delivery path.
NothingOutlives ==
    /\ DeliveryOutlivesConsumer
    /\ pc = "returned" /\ Started =>
          ReaderEnded /\ ConsumerEnded /\ backlog = 0 /\ server = "joined" /\ control = "joined"

\* A run that is cancelled, or whose first part has ended, returns, whatever the
\* reader, the queue and the destinations do.
RunReturns == (cancelled /\ pc = "select") \/ pc = "drain" ~> pc = "returned"
=============================================================================
