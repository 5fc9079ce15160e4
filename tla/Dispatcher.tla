----------------------------- MODULE Dispatcher -----------------------------
(***************************************************************************)
(* internal/report/dispatcher.go: one bounded queue and one worker per     *)
(* destination (a "lane"), batching, bounded retries, and a Close that     *)
(* drains until a deadline.  Producers call Enqueue, workers run d.run and *)
(* d.deliver, the application calls Start and Close, and a Reporter        *)
(* (external) takes batches and answers.                                   *)
(*                                                                         *)
(* An event is the number of the Enqueue call that offered it, in the      *)
(* order in which the calls reach the select that decides about them.      *)
(* Sizes of encoded events are a constant function; time is abstract: a    *)
(* running timer or context may end at any moment.                         *)
(***************************************************************************)
EXTENDS Naturals, Sequences, FiniteSets, Functions

CONSTANTS Lanes,          \* the destinations
          Producers,      \* goroutines that call Enqueue
          QueueCapacity, BatchEvents, BatchBytes, MaxAttempts,  \* Config
          Envelope,       \* batchEnvelope: the bytes of a batch with no events
          MaxCalls,       \* bound: how many Enqueue calls are made
          Size,           \* [Events -> bytes of the encoded event]
          Unencodable     \* the events encodeEvent rejects

Events == 1..MaxCalls

\* What Config.Validate accepts. The bounds on the values are not needed.
ASSUME ConfigAssumption ==
    /\ QueueCapacity \in Nat \ {0}
    /\ BatchEvents \in 1..QueueCapacity
    /\ BatchBytes \in Nat \ {0}
    /\ MaxAttempts \in Nat \ {0}

ASSUME EnvironmentAssumption ==
    /\ IsFiniteSet(Producers)
    /\ Envelope \in Nat
    /\ MaxCalls \in Nat
    /\ Size \in [Events -> Nat \ {0}]
    /\ Unencodable \subseteq Events

VARIABLES
    started, closed,  \* Dispatcher.started and Dispatcher.closed
    aborted,          \* Dispatcher.abort is cancelled
    queue,            \* lane.queue: the channel's contents
    uncounted,        \* the producers in Enqueue between the send and the counter
    stats,            \* the lane's counters
    pc,               \* where the lane's worker is
    batch, size,      \* run's events (and encoded) and size
    carry,            \* the event run holds while it sends the batch before it, or 0
    send,             \* deliver's batch id, attempt, and whether the Reporter took it
    batches,          \* Dispatcher.batches, the counter behind batch ids
    closer, lost,     \* where Close is, and whether it returns ErrUndelivered
    calls, fate, received, deadline  \* history: see DeliveryContract

workerVars == <<pc, batch, size, carry, send, batches>>
closeVars  == <<started, closed, aborted, closer, lost, deadline>>
vars == <<queue, uncounted, stats, workerVars, closeVars, calls, fate, received>>

-----------------------------------------------------------------------------

PCs == {"new", "select", "send", "attempt", "sleep", "resume", "done"}
Counters == {"enqueued", "delivered", "dropped", "failed", "undelivered", "retries"}
Fates == {"none", "pending", "dropped", "delivered", "failed", "undelivered"}

Init == /\ started = FALSE /\ closed = FALSE /\ aborted = FALSE
        /\ queue     = [l \in Lanes |-> <<>>]
        /\ uncounted = [l \in Lanes |-> {}]
        /\ stats     = [l \in Lanes |-> [c \in Counters |-> 0]]
        /\ pc        = [l \in Lanes |-> "new"]
        /\ batch     = [l \in Lanes |-> <<>>]
        /\ size      = [l \in Lanes |-> Envelope]
        /\ carry     = [l \in Lanes |-> 0]
        /\ send      = [l \in Lanes |-> [id |-> 0, attempt |-> 0, taken |-> FALSE]]
        /\ batches = 0
        /\ closer = "open" /\ lost = FALSE
        /\ calls = 0
        /\ fate      = [l \in Lanes |-> [e \in Events |-> "none"]]
        /\ received  = [l \in Lanes |-> <<>>]
        /\ deadline = FALSE

\* The counter c of lane l grows by n.
Count(l, c, n) == stats' = [stats EXCEPT ![l][c] = @ + n]

\* The events of B meet fate f on lane l.
Settle(l, B, f) ==
    fate' = [fate EXCEPT ![l] = [e \in Events |-> IF e \in B THEN f ELSE @[e]]]

\* No Enqueue call holds the read lock, so Start and Close can take the lock.
Unlocked == \A l \in Lanes : uncounted[l] = {}
Busy(p)  == \E l \in Lanes : p \in uncounted[l]

-----------------------------------------------------------------------------
(* Producers: Dispatcher.Enqueue                                           *)

\* Mutant: Enqueue does not look at closed.
EnqueueSendWhenClosed(p, l) ==
    /\ ~Busy(p) /\ calls < MaxCalls
    /\ Len(queue[l]) < QueueCapacity
    /\ calls' = calls + 1
    /\ queue' = [queue EXCEPT ![l] = Append(@, calls + 1)]
    /\ uncounted' = [uncounted EXCEPT ![l] = @ \cup {p}]
    /\ Settle(l, {calls + 1}, "pending")
    /\ UNCHANGED <<stats, workerVars, closeVars, received>>

\* The send on the channel succeeds. Counting it is a step of its own, and the
\* worker may take, and even deliver, the event before it.
EnqueueSend(p, l) ==
    /\ ~Busy(p) /\ calls < MaxCalls
    /\ ~closed /\ Len(queue[l]) < QueueCapacity
    /\ calls' = calls + 1
    /\ queue' = [queue EXCEPT ![l] = Append(@, calls + 1)]
    /\ uncounted' = [uncounted EXCEPT ![l] = @ \cup {p}]
    /\ Settle(l, {calls + 1}, "pending")
    /\ UNCHANGED <<stats, workerVars, closeVars, received>>

EnqueueCount(p, l) ==
    /\ p \in uncounted[l]
    /\ uncounted' = [uncounted EXCEPT ![l] = @ \ {p}]
    /\ Count(l, "enqueued", 1)
    /\ UNCHANGED <<queue, workerVars, closeVars, calls, fate, received>>

\* The dispatcher is closed or the queue is full: the newest event is dropped.
EnqueueDrop(p, l) ==
    /\ ~Busy(p) /\ calls < MaxCalls
    /\ closed \/ Len(queue[l]) = QueueCapacity
    /\ calls' = calls + 1
    /\ Count(l, "dropped", 1)
    /\ Settle(l, {calls + 1}, "dropped")
    /\ UNCHANGED <<queue, uncounted, workerVars, closeVars, received>>

-----------------------------------------------------------------------------
(* The worker's loop: Dispatcher.run                                       *)

Full(n, bytes) == n >= BatchEvents \/ bytes >= BatchBytes

\* Mutant: the budget check forgets the event it is about to append.
OverBudgetBefore(l, e) == batch[l] # <<>> /\ size[l] >= BatchBytes

\* Appending e would break the byte budget of the batch at hand.
OverBudget(l, e) == batch[l] # <<>> /\ size[l] + Size[e] + 1 > BatchBytes

Add(l, e) ==
    /\ batch' = [batch EXCEPT ![l] = Append(@, e)]
    /\ size'  = [size EXCEPT ![l] = @ + Size[e] + 1]
    /\ pc'    = [pc EXCEPT ![l] = IF Full(Len(batch[l]) + 1, size[l] + Size[e] + 1)
                                  THEN "send" ELSE "select"]

\* The worker receives the next event from the channel.
Dequeue(l) == /\ pc[l] = "select" /\ queue[l] # <<>>
            /\ queue' = [queue EXCEPT ![l] = Tail(@)]
            /\ UNCHANGED <<uncounted, closeVars, calls, received>>

ReceiveUnencodable(l) ==
    /\ Dequeue(l)
    /\ Head(queue[l]) \in Unencodable
    /\ Count(l, "failed", 1)
    /\ Settle(l, {Head(queue[l])}, "failed")
    /\ UNCHANGED workerVars

ReceiveIntoBatch(l) ==
    /\ Dequeue(l)
    /\ Head(queue[l]) \notin Unencodable /\ ~OverBudget(l, Head(queue[l]))
    /\ Add(l, Head(queue[l]))
    /\ UNCHANGED <<stats, carry, send, batches, fate>>

\* Mutant: the event goes back to the end of the queue.
ReceiveRequeues(l) ==
    /\ pc[l] = "select" /\ queue[l] # <<>>
    /\ Head(queue[l]) \notin Unencodable /\ OverBudget(l, Head(queue[l]))
    /\ queue' = [queue EXCEPT ![l] = Append(Tail(@), Head(@))]
    /\ pc' = [pc EXCEPT ![l] = "send"]
    /\ UNCHANGED <<uncounted, stats, batch, size, carry, send, batches, closeVars,
                   calls, fate, received>>

\* The event opens the next batch, once the one at hand is sent.
ReceiveOverBudget(l) ==
    /\ Dequeue(l)
    /\ Head(queue[l]) \notin Unencodable /\ OverBudget(l, Head(queue[l]))
    /\ carry' = [carry EXCEPT ![l] = Head(queue[l])]
    /\ pc' = [pc EXCEPT ![l] = "send"]
    /\ UNCHANGED <<stats, batch, size, send, batches, fate>>

Goto(l, to) == pc' = [pc EXCEPT ![l] = to]
WorkerOnly == UNCHANGED <<queue, uncounted, closeVars, calls, received>>

\* Mutant: a worker with nothing at hand does not see its channel closed.
QueueClosedUnseen(l) ==
    /\ pc[l] = "select" /\ closed /\ queue[l] = <<>> /\ batch[l] # <<>>
    /\ Goto(l, "send")
    /\ WorkerOnly /\ UNCHANGED <<stats, batch, size, carry, send, batches, fate>>

\* The channel is closed and empty: the last batch is sent, and the next turn
\* of the loop finds nothing at hand and returns.
QueueClosed(l) ==
    /\ pc[l] = "select" /\ closed /\ queue[l] = <<>>
    /\ Goto(l, IF batch[l] = <<>> THEN "done" ELSE "send")
    /\ WorkerOnly /\ UNCHANGED <<stats, batch, size, carry, send, batches, fate>>

\* Mutant: the flush timer is started by the second event.
FlushLate(l) ==
    /\ pc[l] = "select" /\ Len(batch[l]) > 1
    /\ Goto(l, "send")
    /\ WorkerOnly /\ UNCHANGED <<stats, batch, size, carry, send, batches, fate>>

\* The flush timer, which runs only while a batch is open.
Flush(l) ==
    /\ pc[l] = "select" /\ batch[l] # <<>>
    /\ Goto(l, "send")
    /\ WorkerOnly /\ UNCHANGED <<stats, batch, size, carry, send, batches, fate>>

\* Mutant: abandon counts only what is queued.
AbandonQueued(l) ==
    /\ pc[l] = "select" /\ aborted
    /\ Count(l, "undelivered", Len(queue[l]))
    /\ Settle(l, Range(batch[l]) \cup Range(queue[l]), "undelivered")
    /\ queue' = [queue EXCEPT ![l] = <<>>]
    /\ batch' = [batch EXCEPT ![l] = <<>>]
    /\ Goto(l, "done")
    /\ UNCHANGED <<uncounted, size, carry, send, batches, closeVars, calls, received>>

\* abandon: what is in hand and what is queued is undelivered.
Abandon(l) ==
    /\ pc[l] = "select" /\ aborted
    /\ Count(l, "undelivered", Len(batch[l]) + Len(queue[l]))
    /\ Settle(l, Range(batch[l]) \cup Range(queue[l]), "undelivered")
    /\ queue' = [queue EXCEPT ![l] = <<>>]
    /\ batch' = [batch EXCEPT ![l] = <<>>]
    /\ Goto(l, "done")
    /\ UNCHANGED <<uncounted, size, carry, send, batches, closeVars, calls, received>>

\* After send: the batch is reset, and the event held back opens the next one.
Resume(l) ==
    /\ pc[l] = "resume"
    /\ IF carry[l] # 0 THEN Add(l, carry[l])
                       ELSE Goto(l, "select") /\ UNCHANGED <<batch, size>>
    /\ carry' = [carry EXCEPT ![l] = 0]
    /\ WorkerOnly /\ UNCHANGED <<stats, send, batches, fate>>

-----------------------------------------------------------------------------
(* One batch: Dispatcher.deliver, and the Reporter it calls                *)

\* Mutant: batches are numbered per destination.
BeginBatchPerLane(l) ==
    /\ pc[l] = "send"
    /\ send' = [send EXCEPT ![l] = [id |-> @.id + 1, attempt |-> 1, taken |-> FALSE]]
    /\ Goto(l, "attempt")
    /\ WorkerOnly /\ UNCHANGED <<stats, batch, size, carry, batches, fate>>

\* Mutant: one batch at a time over all destinations.
BeginBatchAlone(l) ==
    /\ pc[l] = "send" /\ \A m \in Lanes : pc[m] \notin {"attempt", "sleep"}
    /\ batches' = batches + 1
    /\ send' = [send EXCEPT ![l] = [id |-> batches + 1, attempt |-> 1, taken |-> FALSE]]
    /\ Goto(l, "attempt")
    /\ WorkerOnly /\ UNCHANGED <<stats, batch, size, carry, fate>>

\* deliver numbers the batch and makes the first attempt.
BeginBatch(l) ==
    /\ pc[l] = "send"
    /\ batches' = batches + 1
    /\ send' = [send EXCEPT ![l] = [id |-> batches + 1, attempt |-> 1, taken |-> FALSE]]
    /\ Goto(l, "attempt")
    /\ WorkerOnly /\ UNCHANGED <<stats, batch, size, carry, fate>>

\* The destination takes the batch. Whether the worker ever learns is decided
\* later: the answer may be lost, or the attempt may time out.
ReporterTakes(l) ==
    /\ pc[l] = "attempt" /\ ~send[l].taken
    /\ send' = [send EXCEPT ![l].taken = TRUE]
    /\ received' = [received EXCEPT
                      ![l] = Append(@, [id |-> send[l].id, events |-> batch[l]])]
    /\ UNCHANGED <<queue, uncounted, stats, pc, batch, size, carry, batches,
                   closeVars, calls, fate>>

\* deliver returns with the batch settled as c, and send resets the batch.
EndBatch(l, c) ==
    /\ Count(l, c, Len(batch[l]))
    /\ Settle(l, Range(batch[l]), c)
    /\ batch' = [batch EXCEPT ![l] = <<>>]
    /\ size' = [size EXCEPT ![l] = Envelope]
    /\ Goto(l, "resume")
    /\ WorkerOnly /\ UNCHANGED <<carry, send, batches>>

\* The Reporter returns nil.
AttemptSucceeds(l) == pc[l] = "attempt" /\ send[l].taken /\ EndBatch(l, "delivered")

\* The attempt returns an error after the shutdown deadline.
AttemptAborted(l) == pc[l] = "attempt" /\ aborted /\ EndBatch(l, "undelivered")

\* A permanent error, the last attempt, or no retry budget left for the wait:
\* the error and the clock are the environment's, so any attempt may be final.
AttemptFinal(l) == pc[l] = "attempt" /\ ~aborted /\ EndBatch(l, "failed")

\* Mutant: one attempt more than MaxAttempts.
AttemptRetriesOnceMore(l) ==
    /\ pc[l] = "attempt" /\ ~aborted
    /\ send[l].attempt <= MaxAttempts
    /\ Count(l, "retries", 1)
    /\ Goto(l, "sleep")
    /\ WorkerOnly /\ UNCHANGED <<batch, size, carry, send, batches, fate>>

\* Any other error: the worker sleeps, holding its queue.
AttemptRetries(l) ==
    /\ pc[l] = "attempt" /\ ~aborted
    /\ send[l].attempt < MaxAttempts
    /\ Count(l, "retries", 1)
    /\ Goto(l, "sleep")
    /\ WorkerOnly /\ UNCHANGED <<batch, size, carry, send, batches, fate>>

\* The backoff is over.
Wake(l) ==
    /\ pc[l] = "sleep"
    /\ send' = [send EXCEPT ![l].attempt = @ + 1, ![l].taken = FALSE]
    /\ Goto(l, "attempt")
    /\ WorkerOnly /\ UNCHANGED <<stats, batch, size, carry, batches, fate>>

SleepAborted(l) == pc[l] = "sleep" /\ aborted /\ EndBatch(l, "undelivered")

-----------------------------------------------------------------------------
(* The application: Start and Close                                        *)

Start ==
    /\ Unlocked /\ ~started /\ ~closed
    /\ started' = TRUE
    /\ pc' = [l \in Lanes |-> "select"]
    /\ UNCHANGED <<closed, aborted, closer, lost, deadline, queue, uncounted, stats,
                   batch, size, carry, send, batches, calls, fate, received>>

CloseRest == UNCHANGED <<uncounted, workerVars, calls, received, started>>

\* Mutant: Close cancels the workers at once instead of draining.
CloseAborts ==
    /\ closer = "open" /\ Unlocked
    /\ closed' = TRUE
    /\ closer' = IF started THEN "waiting" ELSE "collecting"
    /\ aborted' = TRUE
    /\ CloseRest /\ UNCHANGED <<queue, stats, fate, lost, deadline>>

\* Close takes the lock and closes every queue. Without workers there is
\* nothing to wait for.
CloseBegin ==
    /\ closer = "open" /\ Unlocked
    /\ closed' = TRUE
    /\ closer' = IF started THEN "waiting" ELSE "collecting"
    /\ aborted' = ~started
    /\ CloseRest /\ UNCHANGED <<queue, stats, fate, lost, deadline>>

\* The context ends first: d.stop cancels the attempts, the sleeps and the loops.
CloseDeadline ==
    /\ closer = "waiting" /\ ~deadline
    /\ deadline' = TRUE /\ aborted' = TRUE
    /\ CloseRest /\ UNCHANGED <<queue, stats, fate, closed, closer, lost>>

\* Mutant: after the deadline Close does not wait for the workers.
CloseLeaves ==
    /\ closer = "waiting" /\ (deadline \/ \A l \in Lanes : pc[l] = "done")
    /\ closer' = "collecting"
    /\ aborted' = TRUE
    /\ CloseRest /\ UNCHANGED <<queue, stats, fate, closed, lost, deadline>>

\* Every worker has returned, before or after the deadline.
CloseJoined ==
    /\ closer = "waiting" /\ \A l \in Lanes : pc[l] = "done"
    /\ closer' = "collecting"
    /\ aborted' = TRUE
    /\ CloseRest /\ UNCHANGED <<queue, stats, fate, closed, lost, deadline>>

\* Close counts what never left lane l's queue.
CloseCollect(l) ==
    /\ closer = "collecting" /\ queue[l] # <<>>
    /\ Count(l, "undelivered", Len(queue[l]))
    /\ Settle(l, Range(queue[l]), "undelivered")
    /\ queue' = [queue EXCEPT ![l] = <<>>]
    /\ CloseRest /\ UNCHANGED <<closed, aborted, closer, lost, deadline>>

CloseReturn ==
    /\ closer = "collecting" /\ \A l \in Lanes : queue[l] = <<>>
    /\ closer' = "returned"
    /\ lost' = \E l \in Lanes : stats[l]["undelivered"] > 0
    /\ CloseRest /\ UNCHANGED <<queue, stats, fate, closed, aborted, deadline>>

-----------------------------------------------------------------------------

Enqueue(p, l) == EnqueueSend(p, l) \/ EnqueueCount(p, l) \/ EnqueueDrop(p, l)

Run(l) == \/ ReceiveUnencodable(l) \/ ReceiveIntoBatch(l) \/ ReceiveOverBudget(l)
          \/ QueueClosed(l) \/ Flush(l) \/ Abandon(l) \/ Resume(l)

Deliver(l) == \/ BeginBatch(l) \/ AttemptSucceeds(l) \/ AttemptAborted(l)
              \/ AttemptFinal(l) \/ AttemptRetries(l) \/ Wake(l) \/ SleepAborted(l)

Worker(l) == Run(l) \/ Deliver(l)

Close == \/ CloseBegin \/ CloseDeadline \/ CloseJoined \/ CloseReturn
         \/ \E l \in Lanes : CloseCollect(l)

\* Close has returned, the workers are gone and nobody calls Enqueue any more.
Terminated == closer = "returned" /\ calls = MaxCalls /\ UNCHANGED vars

Next == \/ \E p \in Producers, l \in Lanes : Enqueue(p, l)
        \/ \E l \in Lanes : Worker(l) \/ ReporterTakes(l)
        \/ Start \/ Close \/ Terminated

Spec == Init /\ [][Next]_vars

\* A runnable goroutine runs, an attempt ends at the latest with its
\* RequestTimeout (the Reporter honours its context), a timer fires, and the
\* application starts delivery. Nothing is assumed of the answers, and nothing
\* obliges the application to call Close or the deadline to pass.
Fairness(ls) == /\ WF_vars(Start)
                /\ \A p \in Producers, l \in Lanes : WF_vars(EnqueueCount(p, l))
                /\ \A l \in ls : WF_vars(Worker(l))
                /\ WF_vars(CloseJoined \/ CloseReturn \/ \E l \in Lanes : CloseCollect(l))

FairSpec == Spec /\ Fairness(Lanes)

-----------------------------------------------------------------------------
(* Safety                                                                  *)

\* Every variable has its type: no queue exceeds its capacity, and no batch its
\* attempts.
TypeOK ==
    /\ started \in BOOLEAN /\ closed \in BOOLEAN /\ aborted \in BOOLEAN
    /\ queue \in [Lanes -> {s \in Seq(Events) : Len(s) <= QueueCapacity}]
    /\ uncounted \in [Lanes -> SUBSET Producers]
    /\ stats \in [Lanes -> [Counters -> Nat]]
    /\ pc \in [Lanes -> PCs]
    /\ batch \in [Lanes -> Seq(Events)]
    /\ size \in [Lanes -> Nat]
    /\ carry \in [Lanes -> Events \cup {0}]
    /\ send \in [Lanes -> [id : Nat, attempt : 0..MaxAttempts, taken : BOOLEAN]]
    /\ batches \in Nat
    /\ closer \in {"open", "waiting", "collecting", "returned"}
    /\ lost \in BOOLEAN /\ deadline \in BOOLEAN
    /\ calls \in 0..MaxCalls
    /\ fate \in [Lanes -> [Events -> Fates]]
    /\ received \in [Lanes -> Seq([id : Nat, events : Seq(Events)])]

\* A destination sees events in the order they were enqueued: inside a batch,
\* and from one batch to the next unless the later one is a retry of the
\* earlier. No retry reaches it after a newer batch.
Ascending(s) == \A i, j \in DOMAIN s : i < j => s[i] < s[j]

InOrder ==
    \A l \in Lanes : \A i, j \in DOMAIN received[l] :
        /\ Ascending(received[l][i].events)
        /\ i < j => \/ received[l][i] = received[l][j]
                    \/ \A e \in Range(received[l][i].events),
                          f \in Range(received[l][j].events) : e < f

\* The batch id, sent as the idempotency key, names one batch of one
\* destination for ever: a receiver that deduplicates on it loses nothing.
KeysNameBatches ==
    \A l, m \in Lanes : \A i \in DOMAIN received[l], j \in DOMAIN received[m] :
        received[l][i].id = received[m][j].id =>
            l = m /\ received[l][i].events = received[m][j].events

\* Events are given up only when the shutdown deadline passed, or when Close
\* found that delivery never started.
LostOnlyAtDeadline ==
    \A l \in Lanes, e \in Events :
        fate[l][e] = "undelivered" => closed /\ (deadline \/ ~started)

\* Every event a queue accepted is counted, up to the Enqueue calls that have
\* not reached the counter yet, and is in hand or counted in one outcome.
Held(c) == IF c = 0 THEN 0 ELSE 1
InHand(l) == Len(batch[l]) + Held(carry[l]) + Len(queue[l])

Conservation ==
    \A l \in Lanes :
        stats[l]["enqueued"] + Cardinality(uncounted[l]) =
            stats[l]["delivered"] + stats[l]["failed"] + stats[l]["undelivered"] + InHand(l)

\* When Close returns, the workers are gone, every accepted event has met its
\* end, the counters balance and tell what happened to the events, not only how
\* many there are, and Close said whether events were given up.
CloseAccounts ==
    closer = "returned" =>
        /\ \A l \in Lanes :
              /\ pc[l] \in {"new", "done"}
              /\ \A e \in Events : fate[l][e] # "pending"
              /\ stats[l]["enqueued"] = stats[l]["delivered"] + stats[l]["failed"]
                                                              + stats[l]["undelivered"]
              /\ \A c \in {"delivered", "failed", "undelivered", "dropped"} :
                    stats[l][c] = Cardinality({e \in Events : fate[l][e] = c})
        /\ lost <=> \E l \in Lanes, e \in Events : fate[l][e] = "undelivered"

\* Shutdown gives up only what it has to, and Close tells what it gave up.
ShutdownAccounts == LostOnlyAtDeadline /\ CloseAccounts

\* A batch under way is not empty, has at most BatchEvents events and, unless
\* it is one event, a body of at most BatchBytes: the envelope, the events
\* and a comma between each two.
EventBytes(s) ==
    LET sum[n \in 0..Len(s)] == IF n = 0 THEN 0 ELSE sum[n - 1] + Size[s[n]]
    IN  sum[Len(s)]

BodyBytes(s) == Envelope + EventBytes(s) + Len(s) - 1

BatchLimits ==
    \A l \in Lanes : pc[l] \in {"send", "attempt", "sleep"} =>
        /\ Len(batch[l]) \in 1..BatchEvents
        /\ Len(batch[l]) > 1 => BodyBytes(batch[l]) <= BatchBytes

\* Batching does no harm: whatever limit closes a batch, the event that did not
\* fit keeps its turn, and retries stay in front of what is newer.
Batching == InOrder /\ BatchLimits

-----------------------------------------------------------------------------
(* The package's contract, and liveness                                    *)

\* The dispatcher does what report.go's package comment promises.
Contract == INSTANCE DeliveryContract WITH
    received <- [l \in Lanes |-> [i \in DOMAIN received[l] |-> Range(received[l][i].events)]]

ImplementsContract == Contract!Spec

\* An accepted event meets its end: flush timers, bounded retries and the drain
\* leave nothing behind, whatever the destination answers. And Close returns,
\* with or without a deadline.
DeliveryEnds ==
    /\ \A l \in Lanes, e \in Events :
          fate[l][e] = "pending" ~> fate[l][e] \in {"delivered", "failed", "undelivered"}
    /\ closer = "waiting" ~> closer = "returned"
=============================================================================
