--------------------------- MODULE ReaderSession ---------------------------
(***************************************************************************)
(* internal/reader/session.go: one goroutine dials the LLRP reader, shakes *)
(* hands, answers keepalives and hands the observations of every report to *)
(* the application's queue; a lost connection is retried within a budget   *)
(* for the whole run, a protocol violation or a full queue ends it.        *)
(*                                                                         *)
(* A message is what session.go tells apart of it: its kind, the message   *)
(* id of a keepalive, the number of observations of a report. Anything     *)
(* protocol.go rejects is "malformed". A read or a write may fail at any   *)
(* moment: the peer hangs up, a deadline passes, or the watcher closes the *)
(* connection of a cancelled run. Observations are numbered as decoded.    *)
(*                                                                         *)
(* Every update of the snapshot is a critical section of its own, and the  *)
(* snapshot is read between them. A step is one of them, but that a frame  *)
(* or an acknowledgement is counted together with the update after it:     *)
(* these counters are compared with nothing.                               *)
(***************************************************************************)
EXTENDS Naturals, Sequences

CONSTANTS MaxRetries,     \* Config.MaxRetries
          QueueCapacity,  \* of the application's queue
          MaxReport,      \* bound: observations in a report
          MaxFrames,      \* bound: messages the peer sends in the whole run
          KeepaliveIds    \* the message ids of the peer's keepalives

ASSUME SessionAssumption ==
    /\ MaxRetries \in Nat
    /\ QueueCapacity \in Nat \ {0}
    /\ MaxReport \in Nat /\ MaxFrames \in Nat

VARIABLES
    pc, attempt,  \* where Run and connected are, and Run's attempt
    err, result,  \* what connected or the dial returned; what Run returns
    reply, left,  \* the keepalive to acknowledge; observations still to hand over
    status,       \* the Snapshot
    queue,        \* the application's channel
    cancelled,    \* the run's context is cancelled
    decoded, consumed,  \* history: the last observation decoded, and taken
    configured    \* history: the peer accepted the configuration of this connection

sessionVars == <<pc, attempt, err, result, reply, left, status, decoded, configured>>
vars == <<sessionVars, queue, cancelled, consumed>>

Messages == [kind : {"keepalive"}, id : KeepaliveIds]
            \cup [kind : {"report"}, n : 0..MaxReport]
            \cup [kind : {"notification", "response", "event", "malformed", "malformed report"}]

\* The errors of the network, which Run retries, and those it does not.
Retried == {"network"}
Faults  == Retried \cup {"codec"}
Errors  == Faults \cup {"protocol", "backpressure", "cancelled", "exhausted"}

States == {"idle", "connecting", "handshaking", "serving", "keepalive", "reporting",
           "reconnecting", "stopping", "stopped", "failed"}

Init ==
    /\ pc = "idle" /\ attempt = 0 /\ err = "none" /\ result = "none"
    /\ reply = 0 /\ left = 0
    /\ status = [state |-> "idle", ready |-> FALSE, attempts |-> 0, reconnects |-> 0,
                 frames |-> 0, observations |-> 0, keepalives |-> 0, overflows |-> 0,
                 failures |-> 0, lastError |-> FALSE, retryDelay |-> FALSE]
    /\ queue = <<>> /\ cancelled = FALSE
    /\ decoded = 0 /\ consumed = 0 /\ configured = FALSE

\* Mutant: readiness is left as it was by the states of a lost connection.
EnterSticky(s, st) ==
    [s EXCEPT !.state = st,
              !.ready = IF st = "reconnecting" THEN @ ELSE st \in {"serving", "keepalive", "reporting"}]

\* The snapshot s after transition(st).
Enter(s, st) == [s EXCEPT !.state = st, !.ready = st \in {"serving", "keepalive", "reporting"}]

Goto(label) == pc' = label

\* connected, or the dial before it, returns e.
Fail(e) == Goto("lost") /\ err' = e

\* Mutant: there is no deferred function.
ReturnAtOnce(r) == /\ Goto("done")
                   /\ result' = r
                   /\ UNCHANGED status

\* Run returns r: its deferred function announces the end first.
Return(r) == /\ Goto("stopping")
             /\ result' = r
             /\ status' = Enter(status, "stopping")

-----------------------------------------------------------------------------
(* Run: the connection loop                                                *)

Start == /\ pc = "idle"
         /\ Goto("loop")
         /\ UNCHANGED <<attempt, err, result, reply, left, status, queue, cancelled,
                        decoded, consumed, configured>>

Outside == UNCHANGED <<queue, cancelled, consumed>>

Connect ==
    /\ pc = "loop" /\ ~cancelled
    /\ Goto("connecting")
    /\ status' = Enter(status, "connecting")
    /\ Outside /\ UNCHANGED <<attempt, err, result, reply, left, decoded, configured>>

\* Mutant: the delay of the attempt before is left in the snapshot.
CountAttemptOnly ==
    /\ pc = "connecting"
    /\ Goto("dial")
    /\ status' = [status EXCEPT !.attempts = @ + 1]
    /\ Outside /\ UNCHANGED <<attempt, err, result, reply, left, decoded, configured>>

CountAttempt ==
    /\ pc = "connecting"
    /\ Goto("dial")
    /\ status' = [status EXCEPT !.attempts = @ + 1, !.retryDelay = FALSE]
    /\ Outside /\ UNCHANGED <<attempt, err, result, reply, left, decoded, configured>>

\* The loop's check of its context, and the one inside the reconnect delay.
Cancelled ==
    /\ pc \in {"loop", "lost", "delay"} /\ cancelled
    /\ Return("cancelled")
    /\ Outside /\ UNCHANGED <<attempt, err, reply, left, decoded, configured>>

Dialled ==
    /\ pc = "dial"
    /\ Goto("notification")
    /\ status' = Enter(status, "handshaking")
    /\ configured' = FALSE
    /\ Outside /\ UNCHANGED <<attempt, err, result, reply, left, decoded>>

\* Mutant: a read of the served connection has no deadline and no watcher.
IOFailsUnwatched ==
    /\ pc \in {"dial", "notification", "configure", "response", "ack early", "ack"}
    /\ \E e \in Faults : Fail(e)
    /\ Outside /\ UNCHANGED <<attempt, result, reply, left, status, decoded, configured>>

\* The connection is lost, in whatever the session was doing with it.
IOFails ==
    /\ pc \in {"dial", "notification", "configure", "response", "ack early", "read", "ack"}
    /\ \E e \in Faults : Fail(e)
    /\ Outside /\ UNCHANGED <<attempt, result, reply, left, status, decoded, configured>>

\* Run counts the failure before it decides about it.
CountFailure ==
    /\ pc = "lost" /\ ~cancelled
    /\ Goto("decide")
    /\ status' = [status EXCEPT !.failures = @ + 1, !.lastError = TRUE]
    /\ Outside /\ UNCHANGED <<attempt, err, result, reply, left, decoded, configured>>

\* Mutant: a full queue is retried like a lost connection.
RetryableAlways(e) == e \in Retried \cup {"backpressure"}

Retryable(e) == e \in Retried

GiveUp ==
    /\ pc = "decide" /\ ~Retryable(err)
    /\ Return(err)
    /\ Outside /\ UNCHANGED <<attempt, err, reply, left, decoded, configured>>

Exhausted ==
    /\ pc = "decide" /\ Retryable(err) /\ attempt >= MaxRetries
    /\ Return("exhausted")
    /\ Outside /\ UNCHANGED <<attempt, err, reply, left, decoded, configured>>

\* Run shows the delay before it says that it reconnects.
Reconnect ==
    /\ pc = "decide" /\ Retryable(err) /\ attempt < MaxRetries
    /\ Goto("reconnecting")
    /\ status' = [status EXCEPT !.reconnects = @ + 1, !.retryDelay = TRUE]
    /\ Outside /\ UNCHANGED <<attempt, err, result, reply, left, decoded, configured>>

Announce ==
    /\ pc = "reconnecting"
    /\ Goto("delay")
    /\ status' = Enter(status, "reconnecting")
    /\ Outside /\ UNCHANGED <<attempt, err, result, reply, left, decoded, configured>>

\* Mutant: a session that was configured gets its budget back.
RetryRenewed ==
    /\ pc = "delay"
    /\ Goto("loop")
    /\ attempt' = IF configured THEN 0 ELSE attempt + 1
    /\ Outside /\ UNCHANGED <<err, result, reply, left, status, decoded, configured>>

\* The delay is over.
Retry ==
    /\ pc = "delay"
    /\ Goto("loop")
    /\ attempt' = attempt + 1
    /\ Outside /\ UNCHANGED <<err, result, reply, left, status, decoded, configured>>

\* The deferred function: any error is a failure, unless the run is cancelled by now.
Stop ==
    /\ pc = "stopping"
    /\ Goto("done")
    /\ status' = Enter(status, IF cancelled THEN "stopped" ELSE "failed")
    /\ Outside /\ UNCHANGED <<attempt, err, result, reply, left, decoded, configured>>

-----------------------------------------------------------------------------
(* connected: the handshake                                                *)

\* The peer's message m arrives where the session reads at label.
Receive(m, label) == /\ pc = label /\ m \in Messages
                     /\ status.frames < MaxFrames
                     /\ Outside /\ UNCHANGED <<attempt, result>>

Frame(s) == [s EXCEPT !.frames = @ + 1]

ReadNotification(m) ==
    /\ Receive(m, "notification")
    /\ IF m.kind = "notification" THEN Goto("configure") /\ UNCHANGED err ELSE Fail("protocol")
    /\ status' = Frame(status)
    /\ UNCHANGED <<reply, left, decoded, configured>>

\* Mutant: the response is not awaited.
WriteConfigAtOnce ==
    /\ pc = "configure"
    /\ Goto("serve")
    /\ status' = Enter(status, "serving") /\ configured' = TRUE
    /\ Outside /\ UNCHANGED <<attempt, err, result, reply, left, decoded>>

WriteConfig ==
    /\ pc = "configure"
    /\ Goto("response")
    /\ Outside /\ UNCHANGED <<attempt, err, result, reply, left, status, decoded, configured>>

\* The reader may probe the session before it answers.
ReadEarlyKeepalive(m) ==
    /\ Receive(m, "response") /\ m.kind = "keepalive"
    /\ Goto("ack early")
    /\ reply' = m.id
    /\ status' = Frame(status)
    /\ UNCHANGED <<err, left, decoded, configured>>

ReadResponse(m) ==
    /\ Receive(m, "response") /\ m.kind = "response"
    /\ Goto("accepted")
    /\ status' = [Frame(status) EXCEPT !.lastError = FALSE]
    /\ configured' = TRUE
    /\ UNCHANGED <<err, reply, left, decoded>>

\* The error of the connection before is gone: now the session is ready.
Accepted ==
    /\ pc = "accepted"
    /\ Goto("serve")
    /\ status' = Enter(status, "serving")
    /\ Outside /\ UNCHANGED <<attempt, err, result, reply, left, decoded, configured>>

ReadOtherResponse(m) ==
    /\ Receive(m, "response") /\ m.kind \notin {"response", "keepalive"}
    /\ Fail("protocol")
    /\ status' = Frame(status)
    /\ UNCHANGED <<reply, left, decoded, configured>>

\* The acknowledgement is written, during the handshake or after it.
AckEarly ==
    /\ pc = "ack early"
    /\ Goto("response")
    /\ status' = [status EXCEPT !.keepalives = @ + 1]
    /\ Outside /\ UNCHANGED <<attempt, err, result, reply, left, decoded, configured>>

Ack ==
    /\ pc = "ack"
    /\ Goto("serve")
    /\ status' = [Enter(status, "serving") EXCEPT !.keepalives = @ + 1]
    /\ Outside /\ UNCHANGED <<attempt, err, result, reply, left, decoded, configured>>

-----------------------------------------------------------------------------
(* connected: serving                                                      *)

\* The checks of the context at the head of the loop and before each
\* observation. What is left of the report is never handed over.
ServeCancelled ==
    /\ cancelled
    /\ pc = "serve" \/ (pc = "hand" /\ left > 0)
    /\ Fail("cancelled")
    /\ left' = 0
    /\ Outside /\ UNCHANGED <<attempt, result, reply, status, decoded, configured>>

Serve ==
    /\ pc = "serve" /\ ~cancelled
    /\ Goto("read")
    /\ Outside /\ UNCHANGED <<attempt, err, result, reply, left, status, decoded, configured>>

\* Mutant: a keepalive is not acknowledged.
ReadKeepaliveOnly(m) ==
    /\ Receive(m, "read") /\ m.kind = "keepalive"
    /\ Goto("serve")
    /\ status' = Frame(status)
    /\ UNCHANGED <<err, reply, left, decoded, configured>>

ReadKeepalive(m) ==
    /\ Receive(m, "read") /\ m.kind = "keepalive"
    /\ Goto("ack")
    /\ reply' = m.id
    /\ status' = Enter(Frame(status), "keepalive")
    /\ UNCHANGED <<err, left, decoded, configured>>

\* All of a report is decoded before any of it is handed over.
ReadReport(m) ==
    /\ Receive(m, "read") /\ m.kind = "report"
    /\ Goto("hand")
    /\ left' = m.n
    /\ decoded' = decoded + m.n
    /\ status' = Enter(Frame(status), "reporting")
    /\ UNCHANGED <<err, reply, configured>>

ReadEvent(m) ==
    /\ Receive(m, "read") /\ m.kind \in {"event", "notification"}
    /\ Goto("serve")
    /\ status' = Enter(Frame(status), "serving")
    /\ UNCHANGED <<err, reply, left, decoded, configured>>

ReadMalformed(m) ==
    /\ Receive(m, "read") /\ m.kind \in {"response", "malformed", "malformed report"}
    /\ Fail("protocol")
    /\ status' = IF m.kind = "malformed report" THEN Enter(Frame(status), "reporting")
                                                ELSE Frame(status)
    /\ UNCHANGED <<reply, left, decoded, configured>>

\* The next observation goes into the queue; counting it is a step of its own.
Hand ==
    /\ pc = "hand" /\ left > 0 /\ ~cancelled /\ Len(queue) < QueueCapacity
    /\ queue' = Append(queue, decoded - left + 1)
    /\ left' = left - 1
    /\ Goto("count")
    /\ UNCHANGED <<attempt, err, result, reply, status, cancelled, decoded, consumed, configured>>

CountHanded ==
    /\ pc = "count"
    /\ status' = [status EXCEPT !.observations = @ + 1]
    /\ Goto("hand")
    /\ Outside /\ UNCHANGED <<attempt, err, result, reply, left, decoded, configured>>

\* Mutant: the observation is counted as refused and the next one is tried.
OverflowSkips ==
    /\ pc = "hand" /\ left > 0 /\ ~cancelled /\ Len(queue) = QueueCapacity
    /\ status' = [status EXCEPT !.overflows = @ + 1]
    /\ left' = left - 1
    /\ Outside /\ UNCHANGED <<pc, err, attempt, result, reply, decoded, configured>>

\* The queue is full: the observation is refused and the run is over. The rest
\* of the report is not offered.
Overflow ==
    /\ pc = "hand" /\ left > 0 /\ ~cancelled /\ Len(queue) = QueueCapacity
    /\ status' = [status EXCEPT !.overflows = @ + 1]
    /\ left' = 0
    /\ Fail("backpressure")
    /\ Outside /\ UNCHANGED <<attempt, result, reply, decoded, configured>>

HandedAll ==
    /\ pc = "hand" /\ left = 0
    /\ Goto("serve")
    /\ status' = Enter(status, "serving")
    /\ Outside /\ UNCHANGED <<attempt, err, result, reply, left, decoded, configured>>

-----------------------------------------------------------------------------

Read(m) == \/ ReadNotification(m) \/ ReadEarlyKeepalive(m) \/ ReadResponse(m)
           \/ ReadOtherResponse(m) \/ ReadKeepalive(m) \/ ReadReport(m)
           \/ ReadEvent(m) \/ ReadMalformed(m)

Internal == \/ Start \/ Connect \/ CountAttempt \/ Cancelled \/ CountFailure
            \/ GiveUp \/ Exhausted \/ Reconnect \/ Announce \/ Retry \/ Stop
            \/ Accepted \/ ServeCancelled \/ Serve
            \/ Hand \/ CountHanded \/ Overflow \/ HandedAll

Session == \/ Internal \/ Dialled \/ IOFails \/ WriteConfig \/ AckEarly \/ Ack
           \/ \E m \in Messages : Read(m)

\* The application cancels the run, and its consumer takes observations.
Cancel == /\ ~cancelled /\ cancelled' = TRUE
          /\ UNCHANGED <<sessionVars, queue, consumed>>

Take == /\ queue # <<>>
        /\ consumed' = Head(queue) /\ queue' = Tail(queue)
        /\ UNCHANGED <<sessionVars, cancelled>>

Terminated == pc = "done" /\ queue = <<>> /\ UNCHANGED vars

Next == Session \/ Cancel \/ Take \/ Terminated

Spec == Init /\ [][Next]_vars

\* The goroutine runs, and every wait has its end: dials, reads and writes have
\* deadlines, the reconnect delay its timer. The consumer owes nothing.
FairSpec == Spec /\ WF_vars(Session)

-----------------------------------------------------------------------------

\* Where the session has a peer that accepted its configuration.
Serving == {"accepted", "serve", "read", "ack", "hand", "count"}

\* Where it has a connection, dials one, or has not counted that it lost it.
Live == {"dial", "notification", "configure", "response", "ack early", "lost"} \cup Serving

\* What the application receives is the stream the session decoded, in order
\* and without a gap, over all connections: a refused observation is the end.
NoGaps == \A i \in DOMAIN queue : queue[i] = consumed + i

\* An observation that was decoded and not handed over is still in hand, or it
\* ended the run: "No delivery is silently dropped". At the end every one that
\* was handed over is counted.
Handed == consumed + Len(queue)

NothingVanishes ==
    /\ NoGaps
    /\ decoded - left > Handed =>
          /\ pc \in {"lost", "decide", "stopping", "done"}
          /\ err \in {"backpressure", "cancelled"}
          /\ pc = "done" => result \in {"backpressure", "cancelled"}
    /\ pc = "done" =>
          /\ status.observations = Handed
          /\ result = "backpressure" => status.overflows = 1

\* A ready session has a connection whose peer accepted the configuration, or
\* has just lost it and is about to say so. It shows an error only when Run has
\* counted that loss, and a delay only when Run is about to announce the next
\* attempt. While there is a connection, or a dial, it shows no delay.
ReadyMeansConfigured ==
    /\ status.ready =>
          /\ configured /\ pc \in Serving \cup {"lost", "decide", "reconnecting"}
          /\ status.lastError => pc \in {"decide", "reconnecting"}
          /\ status.retryDelay => pc = "reconnecting"
    /\ pc \in Live => ~status.retryDelay

\* The budget covers the whole run: one dial more than MaxRetries at most, each
\* dial but the first announced as a reconnect, and each that ended a failure,
\* but for one that a cancelled run does not look at. The final state says
\* failed exactly when the run was not cancelled.
BudgetKept ==
    /\ status.attempts <= MaxRetries + 1
    /\ pc \in {"idle", "loop", "connecting", "reconnecting", "delay"} =>
          status.attempts = status.reconnects /\ status.failures = status.reconnects
    /\ pc \in Live =>
          status.attempts = status.reconnects + 1 /\ status.failures = status.reconnects
    /\ result = "exhausted" => status.failures = MaxRetries + 1
    /\ pc = "done" =>
          /\ status.state = "stopped" => cancelled
          /\ status.state = "failed" => result \notin {"none", "cancelled"}

\* The snapshot tells the truth about the session, between any two of its updates.
StatusTrue == ReadyMeansConfigured /\ BudgetKept

\* A cancelled run ends, even when nobody takes from the queue.
CancelStops == cancelled /\ pc # "idle" ~> pc = "done"

\* What Run promises App.Run: one observation after the other into the queue,
\* readiness that ends with the run, and a cancellation only when asked for.
Source == INSTANCE ObservationSource
          WITH handed <- Handed, serving <- status.ready, stopped <- cancelled,
               outcome <- IF pc # "done" THEN "running"
                          ELSE IF result = "cancelled" THEN "cancelled" ELSE "failed"

ImplementsSource == Source!Spec

=============================================================================
