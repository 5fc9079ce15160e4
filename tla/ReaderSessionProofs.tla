------------------------ MODULE ReaderSessionProofs ------------------------
(***************************************************************************)
(* Proofs about ReaderSession, for every retry budget, capacity of the     *)
(* queue, size of a report and number of messages.                         *)
(***************************************************************************)
EXTENDS ReaderSession, TLAPS

-----------------------------------------------------------------------------
(* How a step changes the snapshot                                         *)

Snapshots ==
    [state : States, ready : BOOLEAN, attempts : Nat, reconnects : Nat, frames : Nat,
     observations : Nat, keepalives : Nat, overflows : Nat, failures : Nat,
     lastError : BOOLEAN, retryDelay : BOOLEAN]

ReadyStates == {"serving", "keepalive", "reporting"}

\* What the invariants read of a snapshot: its readiness, its counters, and
\* whether it shows an error and a retry delay.
Shows(s, ready, attempts, reconnects, failures, observations, overflows, lastError, retryDelay) ==
    /\ s.ready = ready
    /\ s.attempts = attempts /\ s.reconnects = reconnects /\ s.failures = failures
    /\ s.observations = observations /\ s.overflows = overflows
    /\ s.lastError = lastError /\ s.retryDelay = retryDelay

LEMMA StateSet ==
    ASSUME NEW s \in Snapshots, NEW st \in States, NEW b \in BOOLEAN
    PROVE  LET t == [s EXCEPT !.state = st, !.ready = b] IN
           /\ t \in Snapshots /\ t.state = st
           /\ Shows(t, b, s.attempts, s.reconnects, s.failures, s.observations, s.overflows,
                    s.lastError, s.retryDelay)
  BY DEF Snapshots, Shows

\* A transition counts nothing and decides the readiness.
LEMMA EnterFacts ==
    ASSUME NEW s \in Snapshots, NEW st \in States, NEW b \in BOOLEAN, b = (st \in ReadyStates)
    PROVE  /\ Enter(s, st) \in Snapshots /\ Enter(s, st).state = st
           /\ Shows(Enter(s, st), b, s.attempts, s.reconnects, s.failures, s.observations,
                    s.overflows, s.lastError, s.retryDelay)
  <1>1. Enter(s, st) = [s EXCEPT !.state = st, !.ready = b]
    BY Zenon DEF Enter, ReadyStates
  <1>2. LET t == [s EXCEPT !.state = st, !.ready = b] IN
        /\ t \in Snapshots /\ t.state = st
        /\ Shows(t, b, s.attempts, s.reconnects, s.failures, s.observations, s.overflows,
                 s.lastError, s.retryDelay)
    BY StateSet
  <1> QED BY <1>1, <1>2, Zenon

LEMMA EnterReady ==
    ASSUME NEW s \in Snapshots, NEW st \in ReadyStates
    PROVE  /\ Enter(s, st) \in Snapshots /\ Enter(s, st).state = st
           /\ Shows(Enter(s, st), TRUE, s.attempts, s.reconnects, s.failures, s.observations,
                    s.overflows, s.lastError, s.retryDelay)
  <1>1. st \in States /\ TRUE \in BOOLEAN /\ TRUE = (st \in ReadyStates)
    BY DEF States, ReadyStates
  <1> QED BY <1>1, EnterFacts

LEMMA EnterUnready ==
    ASSUME NEW s \in Snapshots, NEW st \in States, st \notin ReadyStates
    PROVE  /\ Enter(s, st) \in Snapshots /\ Enter(s, st).state = st
           /\ Shows(Enter(s, st), FALSE, s.attempts, s.reconnects, s.failures, s.observations,
                    s.overflows, s.lastError, s.retryDelay)
  <1>1. FALSE \in BOOLEAN /\ FALSE = (st \in ReadyStates)
    OBVIOUS
  <1> QED BY <1>1, EnterFacts

Attempted(s) == [s EXCEPT !.attempts = @ + 1, !.retryDelay = FALSE]
Delayed(s) == [s EXCEPT !.reconnects = @ + 1, !.retryDelay = TRUE]
FailureCounted(s) == [s EXCEPT !.failures = @ + 1, !.lastError = TRUE]
ErrorCleared(s) == [s EXCEPT !.lastError = FALSE]
KeepaliveCounted(s) == [s EXCEPT !.keepalives = @ + 1]
ObservationCounted(s) == [s EXCEPT !.observations = @ + 1]
OverflowCounted(s) == [s EXCEPT !.overflows = @ + 1]

\* What each of these changes, and Frame, whose counter nobody reads.
LEMMA AttemptedFacts ==
    ASSUME NEW s \in Snapshots
    PROVE  /\ Attempted(s) \in Snapshots
           /\ Shows(Attempted(s), s.ready, s.attempts + 1, s.reconnects, s.failures,
                    s.observations, s.overflows, s.lastError, FALSE)
  <1>1. PICK n \in Nat : n = s.attempts + 1
    BY DEF Snapshots
  <1>2. Attempted(s) = [s EXCEPT !.attempts = n, !.retryDelay = FALSE]
    BY <1>1, Zenon DEF Attempted
  <1>3. LET t == [s EXCEPT !.attempts = n, !.retryDelay = FALSE] IN
        t \in Snapshots /\ Shows(t, s.ready, n, s.reconnects, s.failures, s.observations,
                                 s.overflows, s.lastError, FALSE)
    BY DEF Snapshots, Shows
  <1> QED BY <1>1, <1>2, <1>3

LEMMA DelayedFacts ==
    ASSUME NEW s \in Snapshots
    PROVE  /\ Delayed(s) \in Snapshots
           /\ Shows(Delayed(s), s.ready, s.attempts, s.reconnects + 1, s.failures,
                    s.observations, s.overflows, s.lastError, TRUE)
  <1>1. PICK n \in Nat : n = s.reconnects + 1
    BY DEF Snapshots
  <1>2. Delayed(s) = [s EXCEPT !.reconnects = n, !.retryDelay = TRUE]
    BY <1>1, Zenon DEF Delayed
  <1>3. LET t == [s EXCEPT !.reconnects = n, !.retryDelay = TRUE] IN
        t \in Snapshots /\ Shows(t, s.ready, s.attempts, n, s.failures, s.observations,
                                 s.overflows, s.lastError, TRUE)
    BY DEF Snapshots, Shows
  <1> QED BY <1>1, <1>2, <1>3

LEMMA FailureCountedFacts ==
    ASSUME NEW s \in Snapshots
    PROVE  /\ FailureCounted(s) \in Snapshots
           /\ Shows(FailureCounted(s), s.ready, s.attempts, s.reconnects, s.failures + 1,
                    s.observations, s.overflows, TRUE, s.retryDelay)
  <1>1. PICK n \in Nat : n = s.failures + 1
    BY DEF Snapshots
  <1>2. FailureCounted(s) = [s EXCEPT !.failures = n, !.lastError = TRUE]
    BY <1>1, Zenon DEF FailureCounted
  <1>3. LET t == [s EXCEPT !.failures = n, !.lastError = TRUE] IN
        t \in Snapshots /\ Shows(t, s.ready, s.attempts, s.reconnects, n, s.observations,
                                 s.overflows, TRUE, s.retryDelay)
    BY DEF Snapshots, Shows
  <1> QED BY <1>1, <1>2, <1>3

LEMMA ErrorClearedFacts ==
    ASSUME NEW s \in Snapshots
    PROVE  /\ ErrorCleared(s) \in Snapshots
           /\ Shows(ErrorCleared(s), s.ready, s.attempts, s.reconnects, s.failures,
                    s.observations, s.overflows, FALSE, s.retryDelay)
  BY DEF Snapshots, ErrorCleared, Shows

LEMMA KeepaliveCountedFacts ==
    ASSUME NEW s \in Snapshots
    PROVE  /\ KeepaliveCounted(s) \in Snapshots
           /\ Shows(KeepaliveCounted(s), s.ready, s.attempts, s.reconnects, s.failures,
                    s.observations, s.overflows, s.lastError, s.retryDelay)
  <1>1. PICK n \in Nat : n = s.keepalives + 1
    BY DEF Snapshots
  <1>2. KeepaliveCounted(s) = [s EXCEPT !.keepalives = n]
    BY <1>1, Zenon DEF KeepaliveCounted
  <1>3. LET t == [s EXCEPT !.keepalives = n] IN
        t \in Snapshots /\ Shows(t, s.ready, s.attempts, s.reconnects, s.failures,
                                 s.observations, s.overflows, s.lastError, s.retryDelay)
    BY DEF Snapshots, Shows
  <1> QED BY <1>1, <1>2, <1>3

LEMMA ObservationCountedFacts ==
    ASSUME NEW s \in Snapshots
    PROVE  /\ ObservationCounted(s) \in Snapshots
           /\ Shows(ObservationCounted(s), s.ready, s.attempts, s.reconnects, s.failures,
                    s.observations + 1, s.overflows, s.lastError, s.retryDelay)
  <1>1. PICK n \in Nat : n = s.observations + 1
    BY DEF Snapshots
  <1>2. ObservationCounted(s) = [s EXCEPT !.observations = n]
    BY <1>1, Zenon DEF ObservationCounted
  <1>3. LET t == [s EXCEPT !.observations = n] IN
        t \in Snapshots /\ Shows(t, s.ready, s.attempts, s.reconnects, s.failures, n,
                                 s.overflows, s.lastError, s.retryDelay)
    BY DEF Snapshots, Shows
  <1> QED BY <1>1, <1>2, <1>3

LEMMA OverflowCountedFacts ==
    ASSUME NEW s \in Snapshots
    PROVE  /\ OverflowCounted(s) \in Snapshots
           /\ Shows(OverflowCounted(s), s.ready, s.attempts, s.reconnects, s.failures,
                    s.observations, s.overflows + 1, s.lastError, s.retryDelay)
  <1>1. PICK n \in Nat : n = s.overflows + 1
    BY DEF Snapshots
  <1>2. OverflowCounted(s) = [s EXCEPT !.overflows = n]
    BY <1>1, Zenon DEF OverflowCounted
  <1>3. LET t == [s EXCEPT !.overflows = n] IN
        t \in Snapshots /\ Shows(t, s.ready, s.attempts, s.reconnects, s.failures,
                                 s.observations, n, s.lastError, s.retryDelay)
    BY DEF Snapshots, Shows
  <1> QED BY <1>1, <1>2, <1>3

LEMMA FrameFacts ==
    ASSUME NEW s \in Snapshots
    PROVE  /\ Frame(s) \in Snapshots
           /\ Shows(Frame(s), s.ready, s.attempts, s.reconnects, s.failures, s.observations,
                    s.overflows, s.lastError, s.retryDelay)
  <1>1. PICK n \in Nat : n = s.frames + 1
    BY DEF Snapshots
  <1>2. Frame(s) = [s EXCEPT !.frames = n]
    BY <1>1, Zenon DEF Frame
  <1>3. LET t == [s EXCEPT !.frames = n] IN
        t \in Snapshots /\ Shows(t, s.ready, s.attempts, s.reconnects, s.failures,
                                 s.observations, s.overflows, s.lastError, s.retryDelay)
    BY DEF Snapshots, Shows
  <1> QED BY <1>1, <1>2, <1>3

-----------------------------------------------------------------------------
(* The inductive invariant                                                 *)

Points == Live \cup {"idle", "loop", "connecting", "decide", "reconnecting", "delay", "stopping", "done"}

SessionTypes ==
    /\ pc \in Points /\ attempt \in Nat
    /\ err \in Errors \cup {"none"} /\ result \in Errors \cup {"none"}
    /\ left \in Nat /\ decoded \in Nat /\ consumed \in Nat
    /\ status \in Snapshots
    /\ queue \in Seq(Nat)
    /\ cancelled \in BOOLEAN /\ configured \in BOOLEAN

\* The connection is over, and with some of its errors the run is.
Ended == {"lost", "decide", "stopping", "done"}
Fatal == {"backpressure", "cancelled"}

\* NothingVanishes is not inductive: an error that loses observations must not be
\* one that Run retries, or the next connection would leave a gap in the stream;
\* and what Run returns must be the error that it counted.
DeliveryInv ==
    /\ NoGaps
    /\ left > 0 => pc \in {"hand", "count"}
    /\ decoded = left + Handed \/ (decoded > left + Handed /\ pc \in Ended /\ err \in Fatal)
    /\ pc \notin Ended => err \in {"none"} \cup Retried
    /\ pc \in {"lost", "decide"} => err \notin {"none", "exhausted"}
    /\ err = "cancelled" => cancelled
    /\ status.observations = IF pc = "count" THEN Handed - 1 ELSE Handed
    /\ status.overflows = IF err = "backpressure" THEN 1 ELSE 0

ResultInv ==
    /\ result = "none" <=> pc \notin {"stopping", "done"}
    /\ result \in {"none", "cancelled", "exhausted", err}
    /\ result = "cancelled" => cancelled
    /\ result = "exhausted" => err \in Retried /\ status.failures = MaxRetries + 1
    /\ pc = "done" => /\ status.state = "stopped" => cancelled
                      /\ status.state = "failed" => result # "cancelled"

\* A ready session was configured, and a served one has no error to show.
ReadyInv ==
    /\ ReadyMeansConfigured
    /\ pc = "decide" => ~status.retryDelay
    /\ pc \in Serving => configured /\ ~status.lastError

\* The counters of the snapshot follow Run's own attempt.
BudgetInv ==
    /\ attempt <= MaxRetries
    /\ pc \in {"idle", "loop", "connecting"} =>
          status.attempts = attempt /\ status.reconnects = attempt /\ status.failures = attempt
    /\ pc \in Live =>
          status.attempts = attempt + 1 /\ status.reconnects = attempt /\ status.failures = attempt
    /\ pc = "decide" =>
          status.attempts = attempt + 1 /\ status.reconnects = attempt
          /\ status.failures = attempt + 1
    /\ pc \in {"reconnecting", "delay"} =>
          status.attempts = attempt + 1 /\ status.reconnects = attempt + 1
          /\ status.failures = attempt + 1 /\ attempt < MaxRetries
    /\ status.attempts <= MaxRetries + 1

SessionInv == SessionTypes /\ DeliveryInv /\ ResultInv /\ ReadyInv /\ BudgetInv

-----------------------------------------------------------------------------
(* It is invariant                                                         *)

LEMMA SessionInit == Init => SessionInv
  <1> SUFFICES ASSUME Init PROVE SessionInv
    OBVIOUS
  <1> USE DEF Init
  <1>1. status \in Snapshots
    BY DEF Snapshots, States
  <1>2. SessionTypes
    <2>1. pc \in Points /\ err \in Errors \cup {"none"} /\ result \in Errors \cup {"none"}
      BY DEF Points
    <2>2. queue \in Seq(Nat) /\ cancelled \in BOOLEAN /\ configured \in BOOLEAN
      <3>1. queue = <<>> /\ cancelled = FALSE /\ configured = FALSE
        BY Zenon
      <3>2. <<>> \in Seq(Nat) /\ FALSE \in BOOLEAN
        OBVIOUS
      <3> QED BY <3>1, <3>2, Zenon
    <2>3. attempt \in Nat /\ left \in Nat /\ decoded \in Nat /\ consumed \in Nat
      OBVIOUS
    <2> QED BY <1>1, <2>1, <2>2, <2>3 DEF SessionTypes
  <1>3. DeliveryInv
    BY DEF DeliveryInv, NoGaps, Handed, Fatal, Ended, Retried
  <1>4. ResultInv /\ ReadyInv /\ BudgetInv
    BY SessionAssumption DEF ResultInv, ReadyInv, ReadyMeansConfigured, BudgetInv, Live, Serving
  <1> QED BY <1>2, <1>3, <1>4 DEF SessionInv

LEMMA ReportSize ==
    ASSUME NEW m \in Messages, m.kind = "report"
    PROVE  m.n \in Nat
  <1>1. m \in [kind : {"report"}, n : 0..MaxReport]
    BY Zenon DEF Messages
  <1>2. m.n \in 0..MaxReport
    BY <1>1
  <1> QED BY <1>2, SessionAssumption

\* The snapshot of a loop that enters a state without a connection.
Entered(s, old) ==
    /\ s \in Snapshots
    /\ Shows(s, FALSE, old.attempts, old.reconnects, old.failures, old.observations,
             old.overflows, old.lastError, old.retryDelay)

LEMMA LoopEnters ==
    ASSUME NEW s \in Snapshots
    PROVE  \A st \in {"connecting", "handshaking", "reconnecting", "stopping"} : Entered(Enter(s, st), s)
  <1>1. TAKE st \in {"connecting", "handshaking", "reconnecting", "stopping"}
  <1>2. st \in States /\ st \notin ReadyStates
    BY DEF States, ReadyStates
  <1> QED BY <1>2, EnterUnready DEF Entered

\* What a step of the session leaves alone when it hands nothing over.
LEMMA OutsideFacts ==
    ASSUME SessionInv, Outside
    PROVE  /\ NoGaps' = NoGaps /\ Handed' = Handed /\ Handed \in Nat
           /\ UNCHANGED <<queue, cancelled, consumed>>
           /\ status \in Snapshots
  BY DEF Outside, NoGaps, Handed, SessionInv, SessionTypes
\* The connection loop.
LEMMA LoopStep ==
    ASSUME SessionInv, Outside,
           Start \/ Connect \/ CountAttempt \/ Cancelled \/ Dialled \/ IOFails \/ CountFailure
           \/ GiveUp \/ Exhausted \/ Reconnect \/ Announce \/ Retry \/ Stop
    PROVE  SessionInv'
  <1>0. /\ NoGaps' = NoGaps /\ Handed' = Handed /\ Handed \in Nat
        /\ UNCHANGED <<queue, cancelled, consumed>>
        /\ status \in Snapshots /\ MaxRetries \in Nat
    BY OutsideFacts, SessionAssumption
  <1>00. \A st \in {"connecting", "handshaking", "reconnecting", "stopping"} : Entered(Enter(status, st), status)
    BY <1>0, LoopEnters
  <1> USE DEF Goto, Fail, Return, SessionInv, SessionTypes, DeliveryInv, ResultInv, ReadyInv,
          ReadyMeansConfigured, BudgetInv, Points, Live, Serving, Ended, Fatal, Retried, Errors,
          Faults
  <1>1. CASE Start
    <2>1. status' = status
      BY <1>1 DEF Start
    <2> QED BY <1>0, <1>1, <2>1 DEF Start
  <1>2. CASE Connect
    <2>1. /\ pc = "loop"
          /\ ~cancelled
          /\ pc' = "connecting"
          /\ UNCHANGED <<attempt, err, result, left, decoded, configured>>
      BY <1>2 DEF Connect
    <2>2. status' = Enter(status, "connecting")
      BY <1>2 DEF Connect
    <2>3. status' \in Snapshots /\ Shows(status', FALSE, status.attempts, status.reconnects,
                                         status.failures, status.observations,
                                         status.overflows, status.lastError, status.retryDelay)
      BY <1>00, <2>2 DEF Entered
    <2> QED BY <1>0, <2>1, <2>3 DEF Shows
  <1>12. CASE CountAttempt
    <2>1. /\ pc = "connecting"
          /\ pc' = "dial"
          /\ UNCHANGED <<attempt, err, result, left, decoded, configured>>
      BY <1>12 DEF CountAttempt
    <2>2. status' = Attempted(status)
      BY <1>12 DEF CountAttempt, Attempted
    <2>3. status' \in Snapshots /\ Shows(status', status.ready, status.attempts + 1,
                                         status.reconnects, status.failures,
                                         status.observations, status.overflows,
                                         status.lastError, FALSE)
      BY <1>0, <2>2, AttemptedFacts
    <2> QED BY <1>0, <2>1, <2>3 DEF Shows
  <1>3. CASE Cancelled
    <2>1. /\ pc \in {"loop", "lost", "delay"}
          /\ cancelled
          /\ pc' = "stopping"
          /\ result' = "cancelled"
          /\ UNCHANGED <<attempt, err, left, decoded, configured>>
      BY <1>3 DEF Cancelled
    <2>2. status' = Enter(status, "stopping")
      BY <1>3 DEF Cancelled
    <2>3. status' \in Snapshots /\ Shows(status', FALSE, status.attempts, status.reconnects,
                                         status.failures, status.observations,
                                         status.overflows, status.lastError, status.retryDelay)
      BY <1>00, <2>2 DEF Entered
    <2>4. CASE pc = "lost"
      BY <1>0, <2>1, <2>3, <2>4 DEF Shows
    <2>5. CASE pc \in {"loop", "delay"}
      BY <1>0, <2>1, <2>3, <2>5 DEF Shows
    <2> QED BY <2>1, <2>4, <2>5
  <1>4. CASE Dialled
    <2>1. /\ pc = "dial"
          /\ pc' = "notification"
          /\ configured' = FALSE
          /\ UNCHANGED <<attempt, err, result, left, decoded>>
      BY <1>4 DEF Dialled
    <2>2. status' = Enter(status, "handshaking")
      BY <1>4 DEF Dialled
    <2>3. status' \in Snapshots /\ Shows(status', FALSE, status.attempts, status.reconnects,
                                         status.failures, status.observations,
                                         status.overflows, status.lastError, status.retryDelay)
      BY <1>00, <2>2 DEF Entered
    <2> QED BY <1>0, <2>1, <2>3 DEF Shows
  <1>5. CASE IOFails
    <2>1. status' = status
      BY <1>5 DEF IOFails
    <2> QED BY <1>0, <1>5, <2>1 DEF IOFails
  <1>6. CASE CountFailure
    <2>1. /\ pc = "lost"
          /\ ~cancelled
          /\ pc' = "decide"
          /\ UNCHANGED <<attempt, err, result, left, decoded, configured>>
      BY <1>6 DEF CountFailure
    <2>2. status' = FailureCounted(status)
      BY <1>6 DEF CountFailure, FailureCounted
    <2>3. status' \in Snapshots /\ Shows(status', status.ready, status.attempts,
                                         status.reconnects, status.failures + 1,
                                         status.observations, status.overflows, TRUE,
                                         status.retryDelay)
      BY <1>0, <2>2, FailureCountedFacts DEF Shows, States, ReadyStates
    <2> QED BY <1>0, <2>1, <2>3 DEF Shows
  <1>7. CASE GiveUp
    <2>1. /\ pc = "decide"
          /\ err \notin Retried
          /\ pc' = "stopping"
          /\ result' = err
          /\ UNCHANGED <<attempt, err, left, decoded, configured>>
      BY <1>7 DEF GiveUp, Retryable
    <2>2. status' = Enter(status, "stopping")
      BY <1>7 DEF GiveUp
    <2>3. status' \in Snapshots /\ Shows(status', FALSE, status.attempts, status.reconnects,
                                         status.failures, status.observations,
                                         status.overflows, status.lastError, status.retryDelay)
      BY <1>00, <2>2 DEF Entered
    <2> QED BY <1>0, <2>1, <2>3 DEF Shows
  <1>8. CASE Exhausted
    <2>1. /\ pc = "decide"
          /\ err \in Retried
          /\ attempt >= MaxRetries
          /\ pc' = "stopping"
          /\ result' = "exhausted"
          /\ UNCHANGED <<attempt, err, left, decoded, configured>>
      BY <1>8 DEF Exhausted, Retryable
    <2>2. status' = Enter(status, "stopping")
      BY <1>8 DEF Exhausted
    <2>3. status' \in Snapshots /\ Shows(status', FALSE, status.attempts, status.reconnects,
                                         status.failures, status.observations,
                                         status.overflows, status.lastError, status.retryDelay)
      BY <1>00, <2>2 DEF Entered
    <2> QED BY <1>0, <2>1, <2>3 DEF Shows
  <1>9. CASE Reconnect
    <2>1. /\ pc = "decide"
          /\ err \in Retried
          /\ attempt < MaxRetries
          /\ pc' = "reconnecting"
          /\ UNCHANGED <<attempt, err, result, left, decoded, configured>>
      BY <1>9 DEF Reconnect, Retryable
    <2>2. status' = Delayed(status)
      BY <1>9 DEF Reconnect, Delayed
    <2>3. status' \in Snapshots /\ Shows(status', status.ready, status.attempts,
                                         status.reconnects + 1, status.failures,
                                         status.observations, status.overflows,
                                         status.lastError, TRUE)
      BY <1>0, <2>2, DelayedFacts
    <2> QED BY <1>0, <2>1, <2>3 DEF Shows
  <1>13. CASE Announce
    <2>1. /\ pc = "reconnecting"
          /\ pc' = "delay"
          /\ UNCHANGED <<attempt, err, result, left, decoded, configured>>
      BY <1>13 DEF Announce
    <2>2. status' = Enter(status, "reconnecting")
      BY <1>13 DEF Announce
    <2>3. status' \in Snapshots /\ Shows(status', FALSE, status.attempts, status.reconnects,
                                         status.failures, status.observations,
                                         status.overflows, status.lastError, status.retryDelay)
      BY <1>00, <2>2 DEF Entered
    <2> QED BY <1>0, <2>1, <2>3 DEF Shows
  <1>10. CASE Retry
    <2>1. status' = status
      BY <1>10 DEF Retry
    <2> QED BY <1>0, <1>10, <2>1 DEF Retry
  <1>11. CASE Stop
    <2>1. /\ pc = "stopping" /\ pc' = "done"
          /\ UNCHANGED <<attempt, err, result, left, decoded, configured>>
      BY <1>11 DEF Stop
    <2> DEFINE st == IF cancelled THEN "stopped" ELSE "failed"
    <2>2. status' = Enter(status, st) /\ st \in States \ ReadyStates
      BY <1>11 DEF Stop, States, ReadyStates
    <2>3. status' \in Snapshots /\ status'.state = st /\ Shows(status', FALSE, status.attempts,
                                                               status.reconnects,
                                                               status.failures,
                                                               status.observations,
                                                               status.overflows,
                                                               status.lastError,
                                                               status.retryDelay)
      BY <1>0, <2>2, EnterUnready DEF Shows
    <2> QED BY <1>0, <2>1, <2>3 DEF Shows
  <1> QED BY <1>1, <1>2, <1>3, <1>4, <1>5, <1>6, <1>7, <1>8, <1>9, <1>10, <1>11, <1>12, <1>13

\* The connection, but for what it reads and hands over.
LEMMA ServeStep ==
    ASSUME SessionInv, Outside,
           WriteConfig \/ AckEarly \/ Ack \/ Accepted \/ ServeCancelled \/ Serve
           \/ CountHanded \/ Overflow \/ HandedAll
    PROVE  SessionInv'
  <1>0. /\ NoGaps' = NoGaps /\ Handed' = Handed /\ Handed \in Nat
        /\ UNCHANGED <<queue, cancelled, consumed>>
        /\ status \in Snapshots /\ MaxRetries \in Nat
    BY OutsideFacts, SessionAssumption
  <1> USE DEF Goto, Fail, Return, SessionInv, SessionTypes, DeliveryInv, ResultInv, ReadyInv,
          ReadyMeansConfigured, BudgetInv, Points, Live, Serving, Ended, Fatal, Retried, Errors,
          Faults
  <1>1. CASE WriteConfig
    <2>1. status' = status
      BY <1>1 DEF WriteConfig
    <2> QED BY <1>0, <1>1, <2>1 DEF WriteConfig
  <1>2. CASE AckEarly
    <2>1. /\ pc = "ack early"
          /\ pc' = "response"
          /\ UNCHANGED <<attempt, err, result, left, decoded, configured>>
      BY <1>2 DEF AckEarly
    <2>2. status' = KeepaliveCounted(status)
      BY <1>2 DEF AckEarly, KeepaliveCounted
    <2>3. status' \in Snapshots /\ Shows(status', status.ready, status.attempts,
                                         status.reconnects, status.failures,
                                         status.observations, status.overflows,
                                         status.lastError, status.retryDelay)
      BY <1>0, <2>2, KeepaliveCountedFacts DEF Shows, States, ReadyStates
    <2> QED BY <1>0, <2>1, <2>3 DEF Shows
  <1>3. CASE Ack
    <2>1. /\ pc = "ack"
          /\ pc' = "serve"
          /\ UNCHANGED <<attempt, err, result, left, decoded, configured>>
      BY <1>3 DEF Ack
    <2> DEFINE s == Enter(status, "serving")
    <2>2. status' = KeepaliveCounted(s)
      BY <1>3 DEF Ack, KeepaliveCounted
    <2>3. s \in Snapshots /\ Shows(s, TRUE, status.attempts, status.reconnects,
                                   status.failures, status.observations, status.overflows,
                                   status.lastError, status.retryDelay)
      BY <1>0, EnterReady DEF States, ReadyStates, Shows
    <2> HIDE DEF s
    <2>4. status' \in Snapshots /\ Shows(status', TRUE, status.attempts, status.reconnects,
                                         status.failures, status.observations,
                                         status.overflows, status.lastError, status.retryDelay)
      BY <2>2, <2>3, KeepaliveCountedFacts DEF Shows
    <2> QED BY <1>0, <2>1, <2>4 DEF Shows
  <1>4. CASE ServeCancelled
    <2>1. /\ cancelled /\ pc' = "lost" /\ err' = "cancelled" /\ left' = 0
          /\ UNCHANGED <<attempt, result, status, decoded, configured>>
      BY <1>4 DEF ServeCancelled
    <2>2. CASE pc = "serve"
      BY <1>0, <2>1, <2>2
    <2>3. CASE pc = "hand" /\ left > 0
      BY <1>0, <2>1, <2>3
    <2> QED BY <1>4, <2>2, <2>3 DEF ServeCancelled
  <1>5. CASE Serve
    <2>1. status' = status
      BY <1>5 DEF Serve
    <2> QED BY <1>0, <1>5, <2>1 DEF Serve
  <1>6. CASE CountHanded
    <2>1. /\ pc = "count"
          /\ pc' = "hand"
          /\ UNCHANGED <<attempt, err, result, left, decoded, configured>>
      BY <1>6 DEF CountHanded
    <2>2. status' = ObservationCounted(status)
      BY <1>6 DEF CountHanded, ObservationCounted
    <2>3. status' \in Snapshots /\ Shows(status', status.ready, status.attempts,
                                         status.reconnects, status.failures,
                                         status.observations + 1, status.overflows,
                                         status.lastError, status.retryDelay)
      BY <1>0, <2>2, ObservationCountedFacts DEF Shows, States, ReadyStates
    <2> QED BY <1>0, <2>1, <2>3 DEF Shows
  <1>7. CASE Overflow
    <2>1. /\ pc = "hand"
          /\ left > 0
          /\ pc' = "lost"
          /\ left' = 0
          /\ err' = "backpressure"
          /\ UNCHANGED <<attempt, result, decoded, configured>>
      BY <1>7 DEF Overflow
    <2>2. status' = OverflowCounted(status)
      BY <1>7 DEF Overflow, OverflowCounted
    <2>3. status' \in Snapshots /\ Shows(status', status.ready, status.attempts,
                                         status.reconnects, status.failures,
                                         status.observations, status.overflows + 1,
                                         status.lastError, status.retryDelay)
      BY <1>0, <2>2, OverflowCountedFacts DEF Shows, States, ReadyStates
    <2> QED BY <1>0, <2>1, <2>3 DEF Shows
  <1>8. CASE HandedAll
    <2>1. /\ pc = "hand"
          /\ left = 0
          /\ pc' = "serve"
          /\ UNCHANGED <<attempt, err, result, left, decoded, configured>>
      BY <1>8 DEF HandedAll
    <2>2. status' = Enter(status, "serving")
      BY <1>8 DEF HandedAll
    <2>3. status' \in Snapshots /\ Shows(status', TRUE, status.attempts, status.reconnects,
                                         status.failures, status.observations,
                                         status.overflows, status.lastError, status.retryDelay)
      BY <1>0, <2>2, EnterReady DEF Shows, States, ReadyStates
    <2> QED BY <1>0, <2>1, <2>3 DEF Shows
  <1>9. CASE Accepted
    <2>1. /\ pc = "accepted"
          /\ pc' = "serve"
          /\ UNCHANGED <<attempt, err, result, left, decoded, configured>>
      BY <1>9 DEF Accepted
    <2>2. status' = Enter(status, "serving")
      BY <1>9 DEF Accepted
    <2>3. status' \in Snapshots /\ Shows(status', TRUE, status.attempts, status.reconnects,
                                         status.failures, status.observations,
                                         status.overflows, status.lastError, status.retryDelay)
      BY <1>0, <2>2, EnterReady DEF Shows, States, ReadyStates
    <2> QED BY <1>0, <2>1, <2>3 DEF Shows
  <1> QED BY <1>1, <1>2, <1>3, <1>4, <1>5, <1>6, <1>7, <1>8, <1>9

\* What it reads.
LEMMA ReadStep ==
    ASSUME SessionInv, Outside, NEW m \in Messages,
           ReadNotification(m) \/ ReadEarlyKeepalive(m) \/ ReadResponse(m) \/ ReadOtherResponse(m)
           \/ ReadKeepalive(m) \/ ReadEvent(m) \/ ReadReport(m) \/ ReadMalformed(m)
    PROVE  SessionInv'
  <1>0. /\ NoGaps' = NoGaps /\ Handed' = Handed /\ Handed \in Nat
        /\ UNCHANGED <<queue, cancelled, consumed>>
        /\ status \in Snapshots /\ MaxRetries \in Nat
    BY OutsideFacts, SessionAssumption
  <1>00. PICK f \in Snapshots : f = Frame(status) /\ Shows(f, status.ready, status.attempts,
                                                           status.reconnects, status.failures,
                                                           status.observations,
                                                           status.overflows, status.lastError,
                                                           status.retryDelay)
    BY <1>0, FrameFacts
  <1> USE DEF Goto, Fail, Return, SessionInv, SessionTypes, DeliveryInv, ResultInv, ReadyInv,
          ReadyMeansConfigured, BudgetInv, Points, Live, Serving, Ended, Fatal, Retried, Errors,
          Faults
  <1>1. CASE ReadNotification(m)
    <2>1. /\ pc = "notification"
          /\ \/ pc' = "configure" /\ err' = err
             \/ pc' = "lost" /\ err' = "protocol"
          /\ UNCHANGED <<attempt, result, left, decoded, configured>>
      BY <1>1 DEF ReadNotification, Receive
    <2>2. status' = f
      BY <1>00, <1>1 DEF ReadNotification
    <2>3. status' \in Snapshots /\ Shows(status', status.ready, status.attempts,
                                         status.reconnects, status.failures,
                                         status.observations, status.overflows,
                                         status.lastError, status.retryDelay)
      BY <1>0, <2>2, <1>00 DEF Shows, States, ReadyStates
    <2> QED BY <1>0, <2>1, <2>3 DEF Shows
  <1>2. CASE ReadEarlyKeepalive(m)
    <2>1. /\ pc = "response"
          /\ pc' = "ack early"
          /\ UNCHANGED <<attempt, err, result, left, decoded, configured>>
      BY <1>2 DEF ReadEarlyKeepalive, Receive
    <2>2. status' = f
      BY <1>00, <1>2 DEF ReadEarlyKeepalive
    <2>3. status' \in Snapshots /\ Shows(status', status.ready, status.attempts,
                                         status.reconnects, status.failures,
                                         status.observations, status.overflows,
                                         status.lastError, status.retryDelay)
      BY <1>0, <2>2, <1>00 DEF Shows, States, ReadyStates
    <2> QED BY <1>0, <2>1, <2>3 DEF Shows
  <1>3. CASE ReadResponse(m)
    <2>1. /\ pc = "response"
          /\ pc' = "accepted"
          /\ configured' = TRUE
          /\ UNCHANGED <<attempt, err, result, left, decoded>>
      BY <1>3 DEF ReadResponse, Receive
    <2>2. status' = ErrorCleared(f)
      BY <1>00, <1>3 DEF ReadResponse, ErrorCleared
    <2>3. status' \in Snapshots /\ Shows(status', status.ready, status.attempts,
                                         status.reconnects, status.failures,
                                         status.observations, status.overflows, FALSE,
                                         status.retryDelay)
      BY <1>00, <2>2, ErrorClearedFacts DEF Shows
    <2> QED BY <1>0, <2>1, <2>3 DEF Shows
  <1>4. CASE ReadOtherResponse(m)
    <2>1. /\ pc = "response"
          /\ pc' = "lost"
          /\ err' = "protocol"
          /\ UNCHANGED <<attempt, result, left, decoded, configured>>
      BY <1>4 DEF ReadOtherResponse, Receive
    <2>2. status' = f
      BY <1>00, <1>4 DEF ReadOtherResponse
    <2>3. status' \in Snapshots /\ Shows(status', status.ready, status.attempts,
                                         status.reconnects, status.failures,
                                         status.observations, status.overflows,
                                         status.lastError, status.retryDelay)
      BY <1>0, <2>2, <1>00 DEF Shows, States, ReadyStates
    <2> QED BY <1>0, <2>1, <2>3 DEF Shows
  <1>5. CASE ReadKeepalive(m)
    <2>1. /\ pc = "read"
          /\ pc' = "ack"
          /\ UNCHANGED <<attempt, err, result, left, decoded, configured>>
      BY <1>5 DEF ReadKeepalive, Receive
    <2>2. status' = Enter(f, "keepalive")
      BY <1>00, <1>5 DEF ReadKeepalive
    <2>3. status' \in Snapshots /\ Shows(status', TRUE, status.attempts, status.reconnects,
                                         status.failures, status.observations,
                                         status.overflows, status.lastError, status.retryDelay)
      BY <1>0, <2>2, <1>00, EnterReady DEF Shows, States, ReadyStates
    <2> QED BY <1>0, <2>1, <2>3 DEF Shows
  <1>6. CASE ReadEvent(m)
    <2>1. /\ pc = "read"
          /\ pc' = "serve"
          /\ UNCHANGED <<attempt, err, result, left, decoded, configured>>
      BY <1>6 DEF ReadEvent, Receive
    <2>2. status' = Enter(f, "serving")
      BY <1>00, <1>6 DEF ReadEvent
    <2>3. status' \in Snapshots /\ Shows(status', TRUE, status.attempts, status.reconnects,
                                         status.failures, status.observations,
                                         status.overflows, status.lastError, status.retryDelay)
      BY <1>0, <2>2, <1>00, EnterReady DEF Shows, States, ReadyStates
    <2> QED BY <1>0, <2>1, <2>3 DEF Shows
  <1>7. CASE ReadReport(m)
    <2>1. /\ pc = "read" /\ pc' = "hand"
          /\ left' = m.n /\ decoded' = decoded + m.n /\ m.n \in Nat
          /\ UNCHANGED <<attempt, err, result, configured>>
      <3>1. m.n \in Nat
        BY <1>7, ReportSize DEF ReadReport, Receive
      <3> QED BY <1>7, <3>1 DEF ReadReport, Receive
    <2>2. status' = Enter(f, "reporting")
      BY <1>00, <1>7 DEF ReadReport
    <2>3. status' \in Snapshots /\ Shows(status', TRUE, status.attempts, status.reconnects,
                                         status.failures, status.observations,
                                         status.overflows, status.lastError, status.retryDelay)
      BY <1>0, <2>2, <1>00, EnterReady DEF Shows, States, ReadyStates
    <2> QED BY <1>0, <2>1, <2>3 DEF Shows
  <1>8. CASE ReadMalformed(m)
    <2>1. /\ pc = "read" /\ pc' = "lost" /\ err' = "protocol"
          /\ UNCHANGED <<attempt, result, left, decoded, configured>>
      BY <1>8 DEF ReadMalformed, Receive
    <2>2. status' = Enter(f, "reporting") \/ status' = f
      BY <1>00, <1>8 DEF ReadMalformed
    <2>3. status' \in Snapshots /\ \/ Shows(status', TRUE, status.attempts, status.reconnects,
                                            status.failures, status.observations,
                                            status.overflows, status.lastError, status.retryDelay)
                                    \/ Shows(status', status.ready, status.attempts,
                                             status.reconnects, status.failures,
                                             status.observations, status.overflows,
                                             status.lastError, status.retryDelay)
      <3>1. CASE status' = Enter(f, "reporting")
        BY <1>00, <3>1, EnterReady DEF Shows, States, ReadyStates
      <3>2. CASE status' = f
        BY <1>00, <3>2 DEF Shows
      <3> QED BY <2>2, <3>1, <3>2
    <2> QED BY <1>0, <2>1, <2>3 DEF Shows
  <1> QED BY <1>1, <1>2, <1>3, <1>4, <1>5, <1>6, <1>7, <1>8

\* The queue: a hand over, and the application's steps.
LEMMA QueueStep ==
    ASSUME SessionInv, Hand \/ Cancel \/ Take \/ UNCHANGED vars
    PROVE  SessionInv'
  <1> USE DEF SessionInv, Points, Live, Serving, Ended, Fatal, Retried, Errors, Faults
  <1>1. CASE Hand
    <2>1. /\ pc = "hand" /\ pc' = "count" /\ left > 0 /\ left' = left - 1
          /\ queue' = Append(queue, decoded - left + 1)
          /\ UNCHANGED <<attempt, err, result, status, cancelled, decoded, consumed, configured>>
      BY <1>1 DEF Hand, Goto
    <2>2. /\ queue \in Seq(Nat) /\ consumed \in Nat /\ decoded \in Nat /\ left \in Nat
          /\ decoded - left = consumed + Len(queue) /\ decoded - left + 1 \in Nat
      BY <2>1 DEF SessionTypes, DeliveryInv, Handed
    <2>3. /\ queue' \in Seq(Nat) /\ Handed' = Handed + 1 /\ Handed \in Nat
      BY <2>1, <2>2 DEF Handed
    <2>4. NoGaps'
      <3>1. \A i \in 1..Len(queue) : queue[i] = consumed + i
        BY <2>2 DEF NoGaps, DeliveryInv
      <3>2. /\ DOMAIN queue' = 1..(Len(queue) + 1) /\ Len(queue) \in Nat
            /\ \A i \in 1..Len(queue) : queue'[i] = queue[i]
            /\ queue'[Len(queue) + 1] = decoded - left + 1
        BY <2>1, <2>2
      <3>3. ASSUME NEW i \in DOMAIN queue' PROVE queue'[i] = consumed' + i
        <4>1. CASE i \in 1..Len(queue)
          BY <2>1, <3>1, <3>2, <4>1
        <4>2. CASE i = Len(queue) + 1
          BY <2>1, <2>2, <3>2, <4>2
        <4> QED BY <3>2, <4>1, <4>2
      <3> QED BY <3>3 DEF NoGaps
    <2>5. left' \in Nat /\ left' = left - 1
      BY <2>1, <2>2
    <2>6. SessionTypes'
      BY <2>1, <2>3, <2>5 DEF SessionTypes
    <2>7. DeliveryInv'
      BY <2>1, <2>2, <2>3, <2>4 DEF DeliveryInv, SessionTypes
    <2> QED BY <2>1, <2>6, <2>7 DEF ResultInv, ReadyInv, ReadyMeansConfigured, BudgetInv
  <1>2. CASE Cancel
    <2>1. /\ cancelled' = TRUE
          /\ UNCHANGED <<pc, attempt, err, result, left, status, decoded, configured, queue, consumed>>
      BY <1>2 DEF Cancel, sessionVars
    <2>2. SessionTypes'
      BY <2>1 DEF SessionTypes
    <2>3. NoGaps' = NoGaps /\ Handed' = Handed
      BY <2>1 DEF NoGaps, Handed
    <2>4. DeliveryInv'
      BY <2>1, <2>3 DEF DeliveryInv
    <2>5. ResultInv'
      BY <2>1 DEF ResultInv
    <2>6. ReadyInv' /\ BudgetInv'
      BY <2>1 DEF ReadyInv, ReadyMeansConfigured, BudgetInv
    <2> QED BY <2>2, <2>4, <2>5, <2>6
  <1>3. CASE Take
    <2>1. /\ queue # <<>> /\ consumed' = Head(queue) /\ queue' = Tail(queue)
          /\ UNCHANGED <<pc, attempt, err, result, left, status, decoded, configured, cancelled>>
      BY <1>3 DEF Take, sessionVars
    <2>2. queue \in Seq(Nat) /\ consumed \in Nat /\ \A i \in DOMAIN queue : queue[i] = consumed + i
      BY DEF SessionTypes, DeliveryInv, NoGaps
    <2>3. /\ consumed' = consumed + 1 /\ queue' \in Seq(Nat) /\ Len(queue') = Len(queue) - 1
          /\ \A i \in DOMAIN queue' : queue'[i] = queue[i + 1] /\ i + 1 \in DOMAIN queue
          /\ Len(queue) \in Nat
      BY <2>1, <2>2
    <2>4. Handed' = Handed /\ consumed' \in Nat
      BY <2>2, <2>3 DEF Handed
    <2>5. NoGaps'
      <3> SUFFICES ASSUME NEW i \in DOMAIN queue' PROVE queue'[i] = consumed' + i
        BY DEF NoGaps
      <3>1. queue'[i] = queue[i + 1] /\ i + 1 \in DOMAIN queue /\ i \in Nat
        BY <2>3
      <3>2. queue[i + 1] = consumed + (i + 1)
        BY <2>2, <3>1
      <3> QED BY <2>2, <2>3, <3>1, <3>2
    <2>6. SessionTypes'
      <3>1. queue' \in Seq(Nat) /\ consumed' \in Nat
        BY <2>3, <2>4
      <3>2. /\ pc \in Points /\ attempt \in Nat
            /\ err \in Errors \cup {"none"} /\ result \in Errors \cup {"none"}
            /\ left \in Nat /\ decoded \in Nat /\ status \in Snapshots
            /\ cancelled \in BOOLEAN /\ configured \in BOOLEAN
        BY DEF SessionTypes
      <3>3. /\ pc' \in Points /\ attempt' \in Nat
            /\ err' \in Errors \cup {"none"} /\ result' \in Errors \cup {"none"}
        BY ONLY <2>1, <3>2
      <3>4. /\ left' \in Nat /\ decoded' \in Nat /\ status' \in Snapshots
            /\ cancelled' \in BOOLEAN /\ configured' \in BOOLEAN
        BY ONLY <2>1, <3>2
      <3> QED BY ONLY <3>1, <3>3, <3>4 DEF SessionTypes
    <2>7. DeliveryInv'
      BY <2>1, <2>4, <2>5 DEF DeliveryInv
    <2>8. ResultInv' /\ ReadyInv'
      BY <2>1 DEF ResultInv, ReadyInv, ReadyMeansConfigured
    <2>9. BudgetInv'
      BY <2>1, <2>4 DEF BudgetInv
    <2> QED BY <2>6, <2>7, <2>8, <2>9
  <1>4. CASE UNCHANGED vars
    <2>1. UNCHANGED <<pc, attempt, err, result, left, status, decoded, configured, queue,
                    consumed, cancelled>>
      BY <1>4 DEF vars, sessionVars
    <2>20. SessionTypes'
      <3>1. /\ pc \in Points /\ attempt \in Nat
            /\ err \in Errors \cup {"none"} /\ result \in Errors \cup {"none"}
            /\ left \in Nat /\ decoded \in Nat /\ status \in Snapshots
            /\ cancelled \in BOOLEAN /\ configured \in BOOLEAN
            /\ queue \in Seq(Nat) /\ consumed \in Nat
        BY DEF SessionTypes
      <3>2. /\ pc' \in Points /\ attempt' \in Nat
            /\ err' \in Errors \cup {"none"} /\ result' \in Errors \cup {"none"}
            /\ queue' \in Seq(Nat) /\ consumed' \in Nat
        BY ONLY <2>1, <3>1
      <3>3. /\ left' \in Nat /\ decoded' \in Nat /\ status' \in Snapshots
            /\ cancelled' \in BOOLEAN /\ configured' \in BOOLEAN
        BY ONLY <2>1, <3>1
      <3> QED BY ONLY <3>2, <3>3 DEF SessionTypes
    <2>2. SessionTypes' /\ NoGaps' = NoGaps /\ Handed' = Handed
      BY <2>1, <2>20 DEF NoGaps, Handed
    <2>30. DeliveryInv'
      BY <2>1, <2>2 DEF DeliveryInv
    <2>3. DeliveryInv' /\ ResultInv'
      BY <2>1, <2>30 DEF ResultInv
    <2>4. ReadyInv' /\ BudgetInv'
      BY <2>1 DEF ReadyInv, ReadyMeansConfigured, BudgetInv
    <2> QED BY <2>2, <2>3, <2>4
  <1> QED BY <1>1, <1>2, <1>3, <1>4

LEMMA SessionStep == SessionInv /\ [Next]_vars => SessionInv'
  <1> SUFFICES ASSUME SessionInv, [Next]_vars PROVE SessionInv'
    OBVIOUS
  <1>1. ASSUME NEW m \in Messages, Read(m) PROVE SessionInv'
    <2>1. Outside
      BY <1>1 DEF Read, ReadNotification, ReadEarlyKeepalive, ReadResponse, ReadOtherResponse,
                  ReadKeepalive, ReadReport, ReadEvent, ReadMalformed, Receive
    <2> QED BY <1>1, <2>1, ReadStep DEF Read
  <1>2. CASE \/ Start \/ Connect \/ CountAttempt \/ Cancelled \/ Dialled \/ IOFails \/ CountFailure
             \/ GiveUp \/ Exhausted \/ Reconnect \/ Announce \/ Retry \/ Stop
    <2>1. Outside
      BY <1>2 DEF Start, Connect, CountAttempt, Cancelled, Dialled, IOFails, CountFailure, GiveUp,
                  Exhausted, Reconnect, Announce, Retry, Stop, Outside
    <2> QED BY <1>2, <2>1, LoopStep
  <1>3. CASE \/ WriteConfig \/ AckEarly \/ Ack \/ Accepted \/ ServeCancelled \/ Serve
             \/ CountHanded \/ Overflow \/ HandedAll
    <2>1. Outside
      BY <1>3 DEF WriteConfig, AckEarly, Ack, Accepted, ServeCancelled, Serve, CountHanded, Overflow,
                  HandedAll
    <2> QED BY <1>3, <2>1, ServeStep
  <1> QED BY <1>1, <1>2, <1>3, QueueStep DEF Next, Session, Internal, Terminated

LEMMA Invariance == Spec => []SessionInv
  BY SessionInit, SessionStep, PTL DEF Spec

-----------------------------------------------------------------------------
(* What follows                                                            *)

\* An observation that was decoded reaches the queue, in order, or ends the run
\* with an error that says so.
THEOREM NothingVanishesHolds == Spec => []NothingVanishes
  <1>1. SessionInv => NothingVanishes
    <2> SUFFICES ASSUME SessionInv PROVE NothingVanishes
      OBVIOUS
    <2>1. NoGaps /\ Handed \in Nat /\ left \in Nat /\ decoded \in Nat
      BY DEF SessionInv, SessionTypes, DeliveryInv, Handed
    <2>2. pc = "done" => /\ status.observations = Handed
                         /\ result = "backpressure" => status.overflows = 1
      BY DEF SessionInv, DeliveryInv, ResultInv, Retried
    <2>3. decoded - left > Handed =>
             /\ pc \in {"lost", "decide", "stopping", "done"}
             /\ err \in {"backpressure", "cancelled"}
             /\ pc = "done" => result \in {"backpressure", "cancelled"}
      <3> SUFFICES ASSUME decoded - left > Handed
                   PROVE  /\ pc \in {"lost", "decide", "stopping", "done"}
                          /\ err \in {"backpressure", "cancelled"}
                          /\ pc = "done" => result \in {"backpressure", "cancelled"}
        OBVIOUS
      <3>1. pc \in Ended /\ err \in Fatal
        BY <2>1 DEF SessionInv, DeliveryInv
      <3>2. pc = "done" => result \in {"cancelled", err}
        BY <3>1 DEF SessionInv, ResultInv, Retried, Fatal
      <3> QED BY <3>1, <3>2 DEF Ended, Fatal
    <2> QED BY <2>1, <2>2, <2>3 DEF NothingVanishes
  <1> QED BY Invariance, <1>1, PTL

\* The snapshot tells the truth: readiness, the retry budget, and the final state.
THEOREM StatusTrueHolds == Spec => []StatusTrue
  <1>1. SessionInv => StatusTrue
    BY SessionAssumption
    DEF SessionInv, SessionTypes, ResultInv, ReadyInv, BudgetInv, StatusTrue, BudgetKept
  <1> QED BY Invariance, <1>1, PTL

-----------------------------------------------------------------------------
(* The refinement of ObservationSource                                     *)

Outcome == IF pc # "done" THEN "running"
           ELSE IF result = "cancelled" THEN "cancelled" ELSE "failed"

LEMMA SourceInit == Init => Source!Init
  BY DEF Init, Source!Init, Handed

\* Every step of the session is the hand over of the next observation, a change
\* of its readiness, its end, or nothing to the application.
LEMMA SourceStep == SessionInv /\ [Next]_vars => [Source!Step]_Source!sourceVars
  <1> SUFFICES ASSUME SessionInv, [Next]_vars PROVE [Source!Step]_Source!sourceVars
    OBVIOUS
  <1>0. /\ queue \in Seq(Nat) /\ consumed \in Nat /\ status \in Snapshots
        /\ status.ready \in BOOLEAN
    BY DEF SessionInv, SessionTypes, Snapshots
  <1>1. CASE Hand
    <2>1. /\ pc = "hand" /\ pc' = "count" /\ left > 0 /\ Len(queue) < QueueCapacity
          /\ queue' = Append(queue, decoded - left + 1)
          /\ UNCHANGED <<status, cancelled, consumed>>
      BY <1>1 DEF Hand, Goto
    <2>2. decoded - left = Handed
      BY <2>1 DEF SessionInv, SessionTypes, DeliveryInv, Ended, Handed
    <2>3. Handed' = Handed + 1
      BY <1>0, <2>1 DEF Handed
    <2>4. Outcome = "running" /\ Outcome' = "running"
      BY <2>1 DEF Outcome
    <2>5. Source!Hand
      BY <2>1, <2>2, <2>3, <2>4 DEF Source!Hand, Outcome
    <2> QED BY <2>5 DEF Source!Step
  <1>2. CASE Cancel
    <2>1. cancelled' = TRUE /\ UNCHANGED <<pc, result, status, queue, consumed>>
      BY <1>2 DEF Cancel, sessionVars
    <2>2. Source!Stop
      BY <2>1 DEF Source!Stop, Handed
    <2> QED BY <2>2 DEF Source!Step
  <1>3. CASE Take
    <2>1. /\ queue # <<>> /\ consumed' = Head(queue) /\ queue' = Tail(queue)
          /\ UNCHANGED <<pc, result, status, cancelled>>
      BY <1>3 DEF Take, sessionVars
    <2>2. /\ Len(queue) \in Nat /\ Len(queue') = Len(queue) - 1 /\ Head(queue) = queue[1]
          /\ 1 \in DOMAIN queue
      BY <1>0, <2>1
    <2>3. queue[1] = consumed + 1
      BY <2>2 DEF SessionInv, DeliveryInv, NoGaps
    <2>4. Handed' = Handed
      BY <1>0, <2>1, <2>2, <2>3 DEF Handed
    <2>5. Source!Take
      BY <2>1, <2>4 DEF Source!Take
    <2> QED BY <2>5 DEF Source!Step
  <1>4. CASE Stop
    <2>1. /\ pc = "stopping" /\ pc' = "done" /\ UNCHANGED <<queue, cancelled, consumed, result>>
          /\ status' = Enter(status, IF cancelled THEN "stopped" ELSE "failed")
      BY <1>4 DEF Stop, Outside, Goto
    <2>2. status'.ready = FALSE
      <3>1. (IF cancelled THEN "stopped" ELSE "failed") \in States \ ReadyStates
        BY DEF States, ReadyStates
      <3> QED BY <1>0, <2>1, <3>1, EnterUnready DEF Shows
    <2>3. Handed' = Handed
      BY <2>1 DEF Handed
    <2>4. Outcome = "running" /\ Outcome' = (IF result = "cancelled" THEN "cancelled" ELSE "failed")
      BY <2>1 DEF Outcome
    <2>5. result = "cancelled" => cancelled
      BY DEF SessionInv, ResultInv
    <2>6. \E r \in {"failed", "cancelled"} : Source!End(r)
      <3>1. CASE result = "cancelled"
        <4>1. Source!End("cancelled")
          BY <2>1, <2>2, <2>3, <2>4, <2>5, <3>1 DEF Source!End, Outcome
        <4> QED BY <4>1
      <3>2. CASE result # "cancelled"
        <4>1. Source!End("failed")
          BY <2>1, <2>2, <2>3, <2>4, <3>2 DEF Source!End, Outcome
        <4> QED BY <4>1
      <3> QED BY <3>1, <3>2
    <2> QED BY <2>6 DEF Source!Step
  <1>5. ASSUME Outside, pc # "done", pc' # "done" PROVE [Source!Step]_Source!sourceVars
    <2>1. UNCHANGED <<queue, cancelled, consumed>> /\ Handed' = Handed
      BY <1>5 DEF Outside, Handed
    <2>2. status'.ready \in BOOLEAN
      <3>1. SessionInv'
        BY SessionStep
      <3> QED BY <3>1 DEF SessionInv, SessionTypes, Snapshots
    <2>3. Outcome = "running" /\ Outcome' = "running"
      BY <1>5 DEF Outcome
    <2>4. Source!Serving(status'.ready)
      BY <2>1, <2>3 DEF Source!Serving, Outcome
    <2> QED BY <2>2, <2>4 DEF Source!Step
  <1>6. ASSUME NEW m \in Messages, Read(m) PROVE [Source!Step]_Source!sourceVars
    BY <1>5, <1>6
    DEF Read, Receive, ReadNotification, ReadEarlyKeepalive, ReadResponse, ReadOtherResponse,
        ReadKeepalive, ReadReport, ReadEvent, ReadMalformed, Goto, Fail
  <1>7. CASE \/ Start \/ Connect \/ CountAttempt \/ Cancelled \/ Dialled \/ IOFails \/ CountFailure
             \/ GiveUp \/ Exhausted \/ Reconnect \/ Announce \/ Retry
    BY <1>5, <1>7
    DEF Start, Connect, CountAttempt, Cancelled, Dialled, IOFails, CountFailure, GiveUp, Exhausted,
        Reconnect, Announce, Retry, Goto, Fail, Return, Outside
  <1>8. CASE \/ WriteConfig \/ AckEarly \/ Ack \/ Accepted \/ ServeCancelled \/ Serve
             \/ CountHanded \/ Overflow \/ HandedAll
    BY <1>5, <1>8
    DEF WriteConfig, AckEarly, Ack, Accepted, ServeCancelled, Serve, CountHanded, Overflow, HandedAll,
        Goto, Fail
  <1>9. CASE UNCHANGED vars
    <2>1. UNCHANGED <<pc, result, status, queue, cancelled, consumed>>
      BY <1>9 DEF vars, sessionVars
    <2> QED BY <2>1 DEF Source!sourceVars, Handed
  <1> QED BY <1>1, <1>2, <1>3, <1>4, <1>6, <1>7, <1>8, <1>9 DEF Next, Session, Internal, Terminated

\* To the application every session is an ObservationSource.
THEOREM ImplementsSourceHolds == Spec => ImplementsSource
  BY SourceInit, SourceStep, Invariance, PTL DEF Spec, ImplementsSource, Source!Spec

=============================================================================
