------------------------- MODULE ApplicationProofs -------------------------
(***************************************************************************)
(* Proofs about Application, for every capacity of the queue and any       *)
(* number of observations.                                                 *)
(***************************************************************************)
EXTENDS Application, TLAPS

-----------------------------------------------------------------------------
(* The inductive invariant                                                 *)

AppTypes ==
    /\ queue \in Seq(Nat) /\ handed \in Nat
    /\ serving \in BOOLEAN
    /\ outcome \in {"running", "failed", "cancelled"}
    /\ pc \in {"new", "select", "drain", "abort", "deliver", "control", "telemetry", "returned"}
    /\ late \in BOOLEAN
    /\ draining \in BOOLEAN /\ consumerFailed \in BOOLEAN
    /\ processed \in Nat /\ abandoned \in Nat
    /\ readJoined \in BOOLEAN /\ consumerJoined \in BOOLEAN
    /\ consumer \in {"waiting", "consuming", "matched", "nil", "cancelled", "failed"}
    /\ halted \in BOOLEAN
    /\ delivery \in {"new", "started", "closed"}
    /\ backlog \in Nat /\ undelivered \in Nat /\ refused \in Nat
    /\ server \in {"up", "failed", "joined"} /\ control \in {"up", "failed", "joined"}

\* Where Run is decides what it has started, joined and closed.
PhaseInv ==
    /\ delivery = "new" <=> ~Started
    /\ delivery = "started" <=> pc \in {"select", "drain", "abort"}
    /\ draining <=> pc \in {"drain", "abort"} \/ delivery = "closed"
    /\ halted => pc \notin {"new", "select", "drain"} /\ delivery # "new"
    /\ pc = "abort" => halted
    /\ readJoined \/ consumerJoined => draining
    /\ delivery = "closed" => readJoined /\ consumerJoined /\ queue = <<>>
    /\ pc = "telemetry" => control = "joined"
    /\ pc = "returned" /\ Started => control = "joined" /\ server = "joined"

\* The goroutines of the reader and the consumer, and what was joined of them.
PartsInv ==
    /\ serving => ~ReaderEnded
    /\ delivery = "new" => consumer = "waiting" /\ queue = <<>> /\ ~ReaderEnded /\ ~serving
    /\ consumer = "nil" => queue = <<>> /\ ReaderEnded
    /\ consumer = "cancelled" => halted
    /\ consumerFailed <=> consumer = "failed"
    /\ readJoined => ReaderEnded
    /\ consumerJoined => ConsumerEnded

\* What was lost, and the error in Run's result that tells so. An observation is
\* abandoned by a consumer that failed, or left in the queue of one that ended
\* before it was drained; neither ends without an error, if only the deadline's.
LossInv ==
    /\ refused = 0
    /\ delivery # "closed" => abandoned = IF consumer = "failed" THEN 1 ELSE 0
    /\ consumer = "nil" => abandoned = 0
    /\ pc \in {"new", "select", "drain", "abort",
                   "deliver"} \/ delivery = "new" => undelivered = 0
    /\ pc \in {"control", "telemetry", "returned"} \/ delivery = "new" => backlog = 0
    /\ pc \in {"new", "select"} => result = {}
    /\ halted => "deadline" \in result
    /\ consumerJoined /\ consumer = "failed" => "failed" \in result \/ "deadline" \in result
    /\ readJoined /\ outcome = "failed" => "reader" \in result \/ "deadline" \in result
    /\ undelivered > 0 => "undelivered" \in result

\* A probe whose answer cannot become yes: of what it has not read yet, something
\* already says no, and will not say yes again.
ProbeInv ==
    /\ asked \in 0..4
    /\ asked > 0 => Started
    /\ asked = 1 /\ ~held => pc = "returned" \/ draining \/ consumerFailed
    /\ asked = 2 /\ ~held => draining \/ consumerFailed
    /\ asked = 3 /\ ~held => consumerFailed
    /\ asked = 4 => held

AppInv == AppTypes /\ PhaseInv /\ PartsInv /\ Accounted /\ LossInv /\ ProbeInv

-----------------------------------------------------------------------------
(* It is invariant                                                         *)

LEMMA AppInit == Init => AppInv
  <1> SUFFICES ASSUME Init PROVE AppInv
    OBVIOUS
  <1>1. /\ queue = <<>> /\ handed = 0 /\ serving = FALSE /\ outcome = "running" /\ pc = "new"
        /\ result = {} /\ late = FALSE /\ draining = FALSE /\ consumerFailed = FALSE
        /\ processed = 0 /\ abandoned = 0 /\ readJoined = FALSE /\ consumerJoined = FALSE
        /\ consumer = "waiting" /\ halted = FALSE /\ delivery = "new" /\ backlog = 0
        /\ undelivered = 0 /\ refused = 0 /\ server = "up" /\ control = "up"
        /\ asked = 0 /\ held = FALSE
    BY Zenon DEF Init, Reader!Init
  <1>2. <<>> \in Seq(Nat) /\ Len(<<>>) = 0
    OBVIOUS
  <1>3. AppTypes
    BY <1>1, <1>2 DEF AppTypes
  <1>4. PhaseInv
    BY <1>1 DEF PhaseInv, Started
  <1>5. PartsInv
    BY <1>1 DEF PartsInv, ReaderEnded
  <1>6. LossInv
    BY <1>1 DEF LossInv
  <1>7. ProbeInv
    BY <1>1 DEF ProbeInv
  <1>8. Accounted
    BY <1>1, <1>2 DEF Accounted
  <1> QED BY <1>3, <1>4, <1>5, <1>6, <1>7, <1>8 DEF AppInv

LEMMA AppTypesStep == AppInv /\ (App \/ UNCHANGED appVars) => AppTypes'
  <1> SUFFICES ASSUME AppInv, App \/ UNCHANGED appVars PROVE AppTypes'
    OBVIOUS
  <1> USE DEF AppInv, AppTypes, Started, ReaderEnded, ConsumerEnded,
          reader, consume, deliver, joins
  <1>1. CASE Cancel
    BY <1>1 DEF Cancel
  <1>2. CASE Deadline
    BY <1>2 DEF Deadline
  <1>3. CASE ServerFails
    BY <1>3 DEF ServerFails
  <1>4. CASE ControlFails
    BY <1>4 DEF ControlFails
  <1>5. CASE Read
    <2>1. CASE Reader!Hand
      BY <1>5, <2>1 DEF Read, Reader!Hand
    <2>2. ASSUME NEW b \in BOOLEAN, Reader!Serving(b) PROVE AppTypes'
      BY <1>5, <2>2 DEF Read, Reader!Serving
    <2>3. ASSUME NEW r \in {"failed", "cancelled"}, Reader!End(r) PROVE AppTypes'
      <3>1. /\ outcome' \in {"failed", "cancelled"} /\ outcome = "running" /\ serving' = FALSE
            /\ Started /\ UNCHANGED <<queue, handed, pc, result, late, draining, joins, consume,
                           halted,
                           deliver, server, control>>
        BY <1>5, <2>3 DEF Read, Reader!End
      <3>2. serving' \in BOOLEAN /\ outcome' \in {"running", "failed", "cancelled"}
        BY <3>1
      <3> QED BY <3>1, <3>2
    <2> QED BY <1>5, <2>1, <2>2, <2>3 DEF Read
  <1>6. CASE ConsumerTakes
    BY <1>6 DEF ConsumerTakes, ConsumerOnly
  <1>7. CASE ConsumerDrained
    BY <1>7 DEF ConsumerDrained, ConsumerOnly
  <1>8. CASE ConsumerHalted
    BY <1>8 DEF ConsumerHalted, ConsumerOnly
  <1>9. CASE ConsumerMatches
    BY <1>9 DEF ConsumerMatches, ConsumerOnly, Enqueue
  <1>10. CASE ConsumerSucceeds
    BY <1>10 DEF ConsumerSucceeds, ConsumerOnly
  <1>11. CASE ConsumerFails
    BY <1>11 DEF ConsumerFails, ConsumerOnly
  <1>12. CASE Settle
    BY <1>12 DEF Settle
  <1>13. CASE Start
    BY <1>13 DEF Start, RunOnly, Goto
  <1>14. CASE StartFails
    BY <1>14 DEF StartFails, RunOnly, Goto
  <1>15. CASE ShutOnCancel
    BY <1>15 DEF ShutOnCancel, Shut, RunOnly, Goto
  <1>16. CASE ShutOnReader
    BY <1>16 DEF ShutOnReader, Shut, RunOnly, Goto
  <1>17. CASE ShutOnConsumer
    BY <1>17 DEF ShutOnConsumer, Shut, RunOnly, Goto, ConsumerError
  <1>18. CASE ShutOnServer
    BY <1>18 DEF ShutOnServer, Shut, RunOnly, Goto
  <1>19. CASE ShutOnControl
    BY <1>19 DEF ShutOnControl, Shut, RunOnly, Goto
  <1>20. CASE JoinReader
    BY <1>20 DEF JoinReader, Drain, RunOnly, ReaderError
  <1>21. CASE JoinConsumer
    BY <1>21 DEF JoinConsumer, Drain, RunOnly, ConsumerError
  <1>22. CASE DrainDeadline
    BY <1>22 DEF DrainDeadline, Drain, RunOnly, Goto
  <1>23. CASE AbortReader
    BY <1>23 DEF AbortReader, Drain, RunOnly, Goto
  <1>24. CASE AbortConsumer
    BY <1>24 DEF AbortConsumer, Drain, RunOnly, Goto
  <1>25. CASE Collect
    BY <1>25 DEF Collect, Goto
  <1>26. CASE DeliveryClosed
    BY <1>26 DEF DeliveryClosed, Finish, RunOnly, Goto
  <1>27. CASE ControlDown
    BY <1>27 DEF ControlDown, Finish, RunOnly, Goto, ShutdownErrors
  <1>28. CASE ServerDown
    BY <1>28 DEF ServerDown, Finish, RunOnly, Goto, ShutdownErrors
  <1>29. CASE UNCHANGED appVars
    BY <1>29 DEF appVars
  <1> QED BY <1>1, <1>2, <1>3, <1>4, <1>5, <1>6, <1>7, <1>8, <1>9, <1>10, <1>11, <1>12, <1>13,
          <1>14, <1>15, <1>16, <1>17, <1>18, <1>19, <1>20, <1>21, <1>22, <1>23, <1>24, <1>25,
                 <1>26, <1>27, <1>28, <1>29
          DEF App, Consumer, Run, Terminated

LEMMA PhaseInvStep == AppInv /\ (App \/ UNCHANGED appVars) => PhaseInv'
  <1> SUFFICES ASSUME AppInv, App \/ UNCHANGED appVars PROVE PhaseInv'
    OBVIOUS
  <1> USE DEF AppInv, AppTypes, PhaseInv, PartsInv, Started, ReaderEnded, ConsumerEnded,
          reader, consume, deliver, joins
  <1>1. CASE Cancel
    BY <1>1 DEF Cancel
  <1>2. CASE Deadline
    BY <1>2 DEF Deadline
  <1>3. CASE ServerFails
    BY <1>3 DEF ServerFails
  <1>4. CASE ControlFails
    BY <1>4 DEF ControlFails
  <1>5. CASE Read
    <2>1. CASE Reader!Hand
      BY <1>5, <2>1 DEF Read, Reader!Hand
    <2>2. ASSUME NEW b \in BOOLEAN, Reader!Serving(b) PROVE PhaseInv'
      BY <1>5, <2>2 DEF Read, Reader!Serving
    <2>3. ASSUME NEW r \in {"failed", "cancelled"}, Reader!End(r) PROVE PhaseInv'
      <3>1. /\ outcome' \in {"failed", "cancelled"} /\ outcome = "running" /\ serving' = FALSE
            /\ Started /\ UNCHANGED <<queue, handed, pc, result, late, draining, joins, consume,
                           halted,
                           deliver, server, control>>
        BY <1>5, <2>3 DEF Read, Reader!End
      <3>2. serving' \in BOOLEAN /\ outcome' \in {"running", "failed", "cancelled"}
        BY <3>1
      <3> QED BY <3>1, <3>2
    <2> QED BY <1>5, <2>1, <2>2, <2>3 DEF Read
  <1>6. CASE ConsumerTakes
    BY <1>6 DEF ConsumerTakes, ConsumerOnly
  <1>7. CASE ConsumerDrained
    BY <1>7 DEF ConsumerDrained, ConsumerOnly
  <1>8. CASE ConsumerHalted
    BY <1>8 DEF ConsumerHalted, ConsumerOnly
  <1>9. CASE ConsumerMatches
    BY <1>9 DEF ConsumerMatches, ConsumerOnly, Enqueue
  <1>10. CASE ConsumerSucceeds
    BY <1>10 DEF ConsumerSucceeds, ConsumerOnly
  <1>11. CASE ConsumerFails
    BY <1>11 DEF ConsumerFails, ConsumerOnly
  <1>12. CASE Settle
    BY <1>12 DEF Settle
  <1>13. CASE Start
    BY <1>13 DEF Start, RunOnly, Goto
  <1>14. CASE StartFails
    BY <1>14 DEF StartFails, RunOnly, Goto
  <1>15. CASE ShutOnCancel
    BY <1>15 DEF ShutOnCancel, Shut, RunOnly, Goto
  <1>16. CASE ShutOnReader
    BY <1>16 DEF ShutOnReader, Shut, RunOnly, Goto
  <1>17. CASE ShutOnConsumer
    BY <1>17 DEF ShutOnConsumer, Shut, RunOnly, Goto, ConsumerError
  <1>18. CASE ShutOnServer
    BY <1>18 DEF ShutOnServer, Shut, RunOnly, Goto
  <1>19. CASE ShutOnControl
    BY <1>19 DEF ShutOnControl, Shut, RunOnly, Goto
  <1>20. CASE JoinReader
    BY <1>20 DEF JoinReader, Drain, RunOnly, ReaderError
  <1>21. CASE JoinConsumer
    BY <1>21 DEF JoinConsumer, Drain, RunOnly, ConsumerError
  <1>22. CASE DrainDeadline
    BY <1>22 DEF DrainDeadline, Drain, RunOnly, Goto
  <1>23. CASE AbortReader
    BY <1>23 DEF AbortReader, Drain, RunOnly, Goto
  <1>24. CASE AbortConsumer
    BY <1>24 DEF AbortConsumer, Drain, RunOnly, Goto
  <1>25. CASE Collect
    BY <1>25 DEF Collect, Goto
  <1>26. CASE DeliveryClosed
    BY <1>26 DEF DeliveryClosed, Finish, RunOnly, Goto
  <1>27. CASE ControlDown
    BY <1>27 DEF ControlDown, Finish, RunOnly, Goto, ShutdownErrors
  <1>28. CASE ServerDown
    BY <1>28 DEF ServerDown, Finish, RunOnly, Goto, ShutdownErrors
  <1>29. CASE UNCHANGED appVars
    BY <1>29 DEF appVars
  <1> QED BY <1>1, <1>2, <1>3, <1>4, <1>5, <1>6, <1>7, <1>8, <1>9, <1>10, <1>11, <1>12, <1>13,
          <1>14, <1>15, <1>16, <1>17, <1>18, <1>19, <1>20, <1>21, <1>22, <1>23, <1>24, <1>25,
                 <1>26, <1>27, <1>28, <1>29
          DEF App, Consumer, Run, Terminated

LEMMA PartsInvStep == AppInv /\ (App \/ UNCHANGED appVars) => PartsInv'
  <1> SUFFICES ASSUME AppInv, App \/ UNCHANGED appVars PROVE PartsInv'
    OBVIOUS
  <1> USE DEF AppInv, AppTypes, PhaseInv, PartsInv, Started, ReaderEnded, ConsumerEnded,
          reader, consume, deliver, joins
  <1>1. CASE Cancel
    BY <1>1 DEF Cancel
  <1>2. CASE Deadline
    BY <1>2 DEF Deadline
  <1>3. CASE ServerFails
    BY <1>3 DEF ServerFails
  <1>4. CASE ControlFails
    BY <1>4 DEF ControlFails
  <1>5. CASE Read
    <2>1. CASE Reader!Hand
      BY <1>5, <2>1 DEF Read, Reader!Hand
    <2>2. ASSUME NEW b \in BOOLEAN, Reader!Serving(b) PROVE PartsInv'
      BY <1>5, <2>2 DEF Read, Reader!Serving
    <2>3. ASSUME NEW r \in {"failed", "cancelled"}, Reader!End(r) PROVE PartsInv'
      <3>1. /\ outcome' \in {"failed", "cancelled"} /\ outcome = "running" /\ serving' = FALSE
            /\ Started /\ UNCHANGED <<queue, handed, pc, result, late, draining, joins, consume,
                           halted,
                           deliver, server, control>>
        BY <1>5, <2>3 DEF Read, Reader!End
      <3>2. serving' \in BOOLEAN /\ outcome' \in {"running", "failed", "cancelled"}
        BY <3>1
      <3> QED BY <3>1, <3>2
    <2> QED BY <1>5, <2>1, <2>2, <2>3 DEF Read
  <1>6. CASE ConsumerTakes
    BY <1>6 DEF ConsumerTakes, ConsumerOnly
  <1>7. CASE ConsumerDrained
    BY <1>7 DEF ConsumerDrained, ConsumerOnly
  <1>8. CASE ConsumerHalted
    <2>1. /\ consumer = "waiting" /\ halted /\ consumer' = "cancelled"
          /\ UNCHANGED <<serving, outcome, delivery, queue, halted, consumerFailed, readJoined,
                         consumerJoined>>
      BY <1>8 DEF ConsumerHalted, ConsumerOnly
    <2> QED BY <2>1
  <1>9. CASE ConsumerMatches
    BY <1>9 DEF ConsumerMatches, ConsumerOnly, Enqueue
  <1>10. CASE ConsumerSucceeds
    BY <1>10 DEF ConsumerSucceeds, ConsumerOnly
  <1>11. CASE ConsumerFails
    BY <1>11 DEF ConsumerFails, ConsumerOnly
  <1>12. CASE Settle
    BY <1>12 DEF Settle
  <1>13. CASE Start
    BY <1>13 DEF Start, RunOnly, Goto
  <1>14. CASE StartFails
    BY <1>14 DEF StartFails, RunOnly, Goto
  <1>15. CASE ShutOnCancel
    BY <1>15 DEF ShutOnCancel, Shut, RunOnly, Goto
  <1>16. CASE ShutOnReader
    BY <1>16 DEF ShutOnReader, Shut, RunOnly, Goto
  <1>17. CASE ShutOnConsumer
    BY <1>17 DEF ShutOnConsumer, Shut, RunOnly, Goto, ConsumerError
  <1>18. CASE ShutOnServer
    BY <1>18 DEF ShutOnServer, Shut, RunOnly, Goto
  <1>19. CASE ShutOnControl
    BY <1>19 DEF ShutOnControl, Shut, RunOnly, Goto
  <1>20. CASE JoinReader
    BY <1>20 DEF JoinReader, Drain, RunOnly, ReaderError
  <1>21. CASE JoinConsumer
    BY <1>21 DEF JoinConsumer, Drain, RunOnly, ConsumerError
  <1>22. CASE DrainDeadline
    BY <1>22 DEF DrainDeadline, Drain, RunOnly, Goto
  <1>23. CASE AbortReader
    BY <1>23 DEF AbortReader, Drain, RunOnly, Goto
  <1>24. CASE AbortConsumer
    BY <1>24 DEF AbortConsumer, Drain, RunOnly, Goto
  <1>25. CASE Collect
    BY <1>25 DEF Collect, Goto
  <1>26. CASE DeliveryClosed
    BY <1>26 DEF DeliveryClosed, Finish, RunOnly, Goto
  <1>27. CASE ControlDown
    BY <1>27 DEF ControlDown, Finish, RunOnly, Goto, ShutdownErrors
  <1>28. CASE ServerDown
    BY <1>28 DEF ServerDown, Finish, RunOnly, Goto, ShutdownErrors
  <1>29. CASE UNCHANGED appVars
    BY <1>29 DEF appVars
  <1> QED BY <1>1, <1>2, <1>3, <1>4, <1>5, <1>6, <1>7, <1>8, <1>9, <1>10, <1>11, <1>12, <1>13,
          <1>14, <1>15, <1>16, <1>17, <1>18, <1>19, <1>20, <1>21, <1>22, <1>23, <1>24, <1>25,
                 <1>26, <1>27, <1>28, <1>29
          DEF App, Consumer, Run, Terminated

LEMMA AccountedStep == AppInv /\ (App \/ UNCHANGED appVars) => Accounted'
  <1> SUFFICES ASSUME AppInv, App \/ UNCHANGED appVars PROVE Accounted'
    OBVIOUS
  <1> USE DEF AppInv, AppTypes, PhaseInv, PartsInv, Accounted, Started, ReaderEnded,
                 ConsumerEnded,
          reader, consume, deliver, joins
  <1>1. CASE Cancel
    BY <1>1 DEF Cancel
  <1>2. CASE Deadline
    BY <1>2 DEF Deadline
  <1>3. CASE ServerFails
    BY <1>3 DEF ServerFails
  <1>4. CASE ControlFails
    BY <1>4 DEF ControlFails
  <1>5. CASE Read
    <2>1. CASE Reader!Hand
      BY <1>5, <2>1 DEF Read, Reader!Hand
    <2>2. ASSUME NEW b \in BOOLEAN, Reader!Serving(b) PROVE Accounted'
      BY <1>5, <2>2 DEF Read, Reader!Serving
    <2>3. ASSUME NEW r \in {"failed", "cancelled"}, Reader!End(r) PROVE Accounted'
      <3>1. /\ outcome' \in {"failed", "cancelled"} /\ outcome = "running" /\ serving' = FALSE
            /\ Started /\ UNCHANGED <<queue, handed, pc, result, late, draining, joins, consume,
                           halted,
                           deliver, server, control>>
        BY <1>5, <2>3 DEF Read, Reader!End
      <3>2. serving' \in BOOLEAN /\ outcome' \in {"running", "failed", "cancelled"}
        BY <3>1
      <3> QED BY <3>1, <3>2
    <2> QED BY <1>5, <2>1, <2>2, <2>3 DEF Read
  <1>6. CASE ConsumerTakes
    BY <1>6 DEF ConsumerTakes, ConsumerOnly
  <1>7. CASE ConsumerDrained
    BY <1>7 DEF ConsumerDrained, ConsumerOnly
  <1>8. CASE ConsumerHalted
    BY <1>8 DEF ConsumerHalted, ConsumerOnly
  <1>9. CASE ConsumerMatches
    BY <1>9 DEF ConsumerMatches, ConsumerOnly, Enqueue
  <1>10. CASE ConsumerSucceeds
    BY <1>10 DEF ConsumerSucceeds, ConsumerOnly
  <1>11. CASE ConsumerFails
    BY <1>11 DEF ConsumerFails, ConsumerOnly
  <1>12. CASE Settle
    BY <1>12 DEF Settle
  <1>13. CASE Start
    BY <1>13 DEF Start, RunOnly, Goto
  <1>14. CASE StartFails
    BY <1>14 DEF StartFails, RunOnly, Goto
  <1>15. CASE ShutOnCancel
    BY <1>15 DEF ShutOnCancel, Shut, RunOnly, Goto
  <1>16. CASE ShutOnReader
    BY <1>16 DEF ShutOnReader, Shut, RunOnly, Goto
  <1>17. CASE ShutOnConsumer
    BY <1>17 DEF ShutOnConsumer, Shut, RunOnly, Goto, ConsumerError
  <1>18. CASE ShutOnServer
    BY <1>18 DEF ShutOnServer, Shut, RunOnly, Goto
  <1>19. CASE ShutOnControl
    BY <1>19 DEF ShutOnControl, Shut, RunOnly, Goto
  <1>20. CASE JoinReader
    BY <1>20 DEF JoinReader, Drain, RunOnly, ReaderError
  <1>21. CASE JoinConsumer
    BY <1>21 DEF JoinConsumer, Drain, RunOnly, ConsumerError
  <1>22. CASE DrainDeadline
    BY <1>22 DEF DrainDeadline, Drain, RunOnly, Goto
  <1>23. CASE AbortReader
    BY <1>23 DEF AbortReader, Drain, RunOnly, Goto
  <1>24. CASE AbortConsumer
    BY <1>24 DEF AbortConsumer, Drain, RunOnly, Goto
  <1>25. CASE Collect
    BY <1>25 DEF Collect, Goto
  <1>26. CASE DeliveryClosed
    BY <1>26 DEF DeliveryClosed, Finish, RunOnly, Goto
  <1>27. CASE ControlDown
    BY <1>27 DEF ControlDown, Finish, RunOnly, Goto, ShutdownErrors
  <1>28. CASE ServerDown
    BY <1>28 DEF ServerDown, Finish, RunOnly, Goto, ShutdownErrors
  <1>29. CASE UNCHANGED appVars
    BY <1>29 DEF appVars
  <1> QED BY <1>1, <1>2, <1>3, <1>4, <1>5, <1>6, <1>7, <1>8, <1>9, <1>10, <1>11, <1>12, <1>13,
          <1>14, <1>15, <1>16, <1>17, <1>18, <1>19, <1>20, <1>21, <1>22, <1>23, <1>24, <1>25,
                 <1>26, <1>27, <1>28, <1>29
          DEF App, Consumer, Run, Terminated

LEMMA LossInvStep == AppInv /\ (App \/ UNCHANGED appVars) => LossInv'
  <1> SUFFICES ASSUME AppInv, App \/ UNCHANGED appVars PROVE LossInv'
    OBVIOUS
  <1> USE DEF AppInv, AppTypes, PhaseInv, PartsInv, LossInv, Started, ReaderEnded, ConsumerEnded,
          reader, consume, deliver, joins
  <1>1. CASE Cancel
    BY <1>1 DEF Cancel
  <1>2. CASE Deadline
    BY <1>2 DEF Deadline
  <1>3. CASE ServerFails
    BY <1>3 DEF ServerFails
  <1>4. CASE ControlFails
    BY <1>4 DEF ControlFails
  <1>5. CASE Read
    <2>1. CASE Reader!Hand
      BY <1>5, <2>1 DEF Read, Reader!Hand
    <2>2. ASSUME NEW b \in BOOLEAN, Reader!Serving(b) PROVE LossInv'
      BY <1>5, <2>2 DEF Read, Reader!Serving
    <2>3. ASSUME NEW r \in {"failed", "cancelled"}, Reader!End(r) PROVE LossInv'
      <3>1. /\ outcome' \in {"failed", "cancelled"} /\ outcome = "running" /\ serving' = FALSE
            /\ Started /\ UNCHANGED <<queue, handed, pc, result, late, draining, joins, consume,
                           halted,
                           deliver, server, control>>
        BY <1>5, <2>3 DEF Read, Reader!End
      <3>2. serving' \in BOOLEAN /\ outcome' \in {"running", "failed", "cancelled"}
        BY <3>1
      <3> QED BY <3>1, <3>2
    <2> QED BY <1>5, <2>1, <2>2, <2>3 DEF Read
  <1>6. CASE ConsumerTakes
    BY <1>6 DEF ConsumerTakes, ConsumerOnly
  <1>7. CASE ConsumerDrained
    BY <1>7 DEF ConsumerDrained, ConsumerOnly
  <1>8. CASE ConsumerHalted
    BY <1>8 DEF ConsumerHalted, ConsumerOnly
  <1>9. CASE ConsumerMatches
    BY <1>9 DEF ConsumerMatches, ConsumerOnly, Enqueue
  <1>10. CASE ConsumerSucceeds
    BY <1>10 DEF ConsumerSucceeds, ConsumerOnly
  <1>11. CASE ConsumerFails
    BY <1>11 DEF ConsumerFails, ConsumerOnly
  <1>12. CASE Settle
    BY <1>12 DEF Settle
  <1>13. CASE Start
    BY <1>13 DEF Start, RunOnly, Goto
  <1>14. CASE StartFails
    <2>1. /\ pc = "new" /\ pc' = "returned"
          /\ UNCHANGED <<refused, delivery, abandoned, consumer, undelivered, backlog, halted,
                         consumerJoined, readJoined, outcome>>
      BY <1>14 DEF StartFails, RunOnly, Goto
    <2>2. delivery = "new"
      BY <2>1
    <2>3. ~halted /\ ~consumerJoined /\ ~readJoined /\ undelivered = 0 /\ backlog = 0
      BY <2>1, <2>2
    <2> QED BY <2>1, <2>2, <2>3
  <1>15. CASE ShutOnCancel
    BY <1>15 DEF ShutOnCancel, Shut, RunOnly, Goto
  <1>16. CASE ShutOnReader
    BY <1>16 DEF ShutOnReader, Shut, RunOnly, Goto
  <1>17. CASE ShutOnConsumer
    BY <1>17 DEF ShutOnConsumer, Shut, RunOnly, Goto, ConsumerError
  <1>18. CASE ShutOnServer
    BY <1>18 DEF ShutOnServer, Shut, RunOnly, Goto
  <1>19. CASE ShutOnControl
    BY <1>19 DEF ShutOnControl, Shut, RunOnly, Goto
  <1>20. CASE JoinReader
    BY <1>20 DEF JoinReader, Drain, RunOnly, ReaderError
  <1>21. CASE JoinConsumer
    BY <1>21 DEF JoinConsumer, Drain, RunOnly, ConsumerError
  <1>22. CASE DrainDeadline
    BY <1>22 DEF DrainDeadline, Drain, RunOnly, Goto
  <1>23. CASE AbortReader
    BY <1>23 DEF AbortReader, Drain, RunOnly, Goto
  <1>24. CASE AbortConsumer
    BY <1>24 DEF AbortConsumer, Drain, RunOnly, Goto
  <1>25. CASE Collect
    BY <1>25 DEF Collect, Goto
  <1>26. CASE DeliveryClosed
    BY <1>26 DEF DeliveryClosed, Finish, RunOnly, Goto
  <1>27. CASE ControlDown
    BY <1>27 DEF ControlDown, Finish, RunOnly, Goto, ShutdownErrors
  <1>28. CASE ServerDown
    BY <1>28 DEF ServerDown, Finish, RunOnly, Goto, ShutdownErrors
  <1>29. CASE UNCHANGED appVars
    BY <1>29 DEF appVars
  <1> QED BY <1>1, <1>2, <1>3, <1>4, <1>5, <1>6, <1>7, <1>8, <1>9, <1>10, <1>11, <1>12, <1>13,
          <1>14, <1>15, <1>16, <1>17, <1>18, <1>19, <1>20, <1>21, <1>22, <1>23, <1>24, <1>25,
                 <1>26, <1>27, <1>28, <1>29
          DEF App, Consumer, Run, Terminated
\* What speaks against readiness stays: the application's side of a probe.
LEMMA ProbeKept == AppInv /\ (App \/ UNCHANGED appVars) /\ UNCHANGED probe => ProbeInv'
  <1> SUFFICES ASSUME AppInv, App \/ UNCHANGED appVars, UNCHANGED probe PROVE ProbeInv'
    OBVIOUS
  <1>1. Started => Started'
    <2>1. delivery # "new" => delivery' # "new"
      BY DEF App, Cancel, Deadline, ServerFails, ControlFails, Read, Consumer, ConsumerTakes,
             ConsumerDrained, ConsumerHalted, ConsumerMatches, ConsumerSucceeds, ConsumerFails,
             ConsumerOnly, Settle, Run, Start, StartFails, ShutOnCancel, ShutOnReader,
             ShutOnConsumer, ShutOnServer, ShutOnControl, Shut, JoinReader, JoinConsumer,
             DrainDeadline, AbortReader, AbortConsumer, Drain, Collect, DeliveryClosed,
             ControlDown, ServerDown, Finish, Terminated, appVars, deliver
    <2>2. PhaseInv'
      BY PhaseInvStep
    <2> QED BY <2>1, <2>2 DEF AppInv, PhaseInv
  <1>2. pc = "returned" => pc' = "returned"
    BY DEF App, Cancel, Deadline, ServerFails, ControlFails, Read, Consumer, ConsumerTakes,
           ConsumerDrained, ConsumerHalted, ConsumerMatches, ConsumerSucceeds, ConsumerFails,
           ConsumerOnly, Settle, Run, Start, StartFails, ShutOnCancel, ShutOnReader,
           ShutOnConsumer, ShutOnServer, ShutOnControl, Shut, JoinReader, JoinConsumer,
           DrainDeadline, AbortReader, AbortConsumer, Drain, Collect, DeliveryClosed, ControlDown,
           ServerDown, Finish, RunOnly, Goto, Terminated, appVars
  <1>3. draining => draining'
    BY DEF App, Cancel, Deadline, ServerFails, ControlFails, Read, Consumer, ConsumerTakes,
           ConsumerDrained, ConsumerHalted, ConsumerMatches, ConsumerSucceeds, ConsumerFails,
           ConsumerOnly, Settle, Run, Start, StartFails, ShutOnCancel, ShutOnReader,
           ShutOnConsumer, ShutOnServer, ShutOnControl, Shut, JoinReader, JoinConsumer,
           DrainDeadline, AbortReader, AbortConsumer, Drain, Collect, DeliveryClosed, ControlDown,
           ServerDown, Finish, RunOnly, Terminated, appVars
  <1>4. consumerFailed => consumerFailed'
    BY DEF App, Cancel, Deadline, ServerFails, ControlFails, Read, Consumer, ConsumerTakes,
           ConsumerDrained, ConsumerHalted, ConsumerMatches, ConsumerSucceeds, ConsumerFails,
           ConsumerOnly, Settle, Run, Start, StartFails, ShutOnCancel, ShutOnReader,
           ShutOnConsumer, ShutOnServer, ShutOnControl, Shut, JoinReader, JoinConsumer,
           DrainDeadline, AbortReader, AbortConsumer, Drain, Collect, DeliveryClosed, ControlDown,
           ServerDown, Finish, RunOnly, Terminated, appVars, consume
  <1>5. asked' = asked /\ held' = held
    BY DEF probe
  <1> QED BY <1>1, <1>2, <1>3, <1>4, <1>5 DEF AppInv, ProbeInv

LEMMA SaysFacts ==
    /\ Says("snapshot") <=> serving
    /\ Says("running") <=> Running
    /\ Says("draining") <=> ~draining
    /\ Says("consumer") <=> ~consumerFailed
  BY DEF Says

\* The probe's own steps: what it reads.
LEMMA ProbeReads == AppInv /\ (Probe \/ Answered) => AppInv'
  <1> SUFFICES ASSUME AppInv, Probe \/ Answered PROVE AppInv'
    OBVIOUS
  <1>1. UNCHANGED appVars
    BY DEF Probe, Answered
  <1>2. AppTypes' /\ PhaseInv' /\ PartsInv' /\ Accounted' /\ LossInv'
    BY <1>1, AppTypesStep, PhaseInvStep, PartsInvStep, AccountedStep, LossInvStep
  <1>3. UNCHANGED <<pc, draining, consumerFailed, delivery>> /\ Started' = Started
    BY <1>1 DEF appVars, consume, deliver, Started
  <1>4. Len(Reads) = 4 /\ Reads[1] = "snapshot" /\ Reads[2] = "running" /\ Reads[3] = "draining"
        /\ Reads[4] = "consumer"
    BY DEF Reads
  <1>5. asked \in 0..4 /\ (serving => Started)
    BY DEF AppInv, ProbeInv, PartsInv, PhaseInv
  <1>6. ProbeInv'
    <2>0. CASE asked' = 0 /\ held' = FALSE
      <3>1. asked' \in 0..4
        BY <2>0
      <3> QED BY <2>0, <3>1 DEF ProbeInv
    <2>1. CASE asked = 0 /\ Says("snapshot") /\ asked' = 1 /\ held' = Ready
      <3>1. serving /\ Started
        BY <1>5, <2>1, SaysFacts
      <3>2. CASE Ready
        <4>1. held' = TRUE
          BY <2>1, <3>2
        <4>2. asked' \in 0..4
          BY <2>1, <4>1
        <4> QED BY <1>3, <2>1, <3>1, <4>1, <4>2 DEF ProbeInv
      <3>3. CASE ~Ready
        <4>1. held' = FALSE
          BY <2>1, <3>3
        <4>2. pc = "returned" \/ draining \/ consumerFailed
          BY <3>1, <3>3 DEF Ready, Running
        <4>3. asked' \in 0..4
          BY <2>1, <4>1
        <4> QED BY <1>3, <2>1, <3>1, <4>1, <4>2, <4>3 DEF ProbeInv
      <3> QED BY <3>2, <3>3
    <2>2. CASE asked = 1 /\ Says("running") /\ asked' = 2 /\ held' = held
      BY <1>3, <1>5, <2>2, SaysFacts DEF ProbeInv, AppInv, Running
    <2>3. CASE asked = 2 /\ Says("draining") /\ asked' = 3 /\ held' = held
      BY <1>3, <1>5, <2>3, SaysFacts DEF ProbeInv, AppInv
    <2>4. CASE asked = 3 /\ Says("consumer") /\ asked' = 4 /\ held' = held
      BY <1>3, <1>5, <2>4, SaysFacts DEF ProbeInv, AppInv
    <2>5. CASE Answered
      BY <2>0, <2>5 DEF Answered
    <2>6. CASE Probe
      <3>1. CASE asked = 0
        <4>1. Reads[asked + 1] = "snapshot" /\ asked + 1 = 1
          BY <1>4, <3>1
        <4>2. \/ Says("snapshot") /\ asked' = 1 /\ held' = Ready
              \/ asked' = 0 /\ held' = FALSE
          BY <2>6, <4>1, Zenon DEF Probe
        <4> QED BY <2>0, <2>1, <3>1, <4>2
      <3>2. CASE asked = 1
        <4>1. Reads[asked + 1] = "running" /\ asked + 1 = 2
          BY <1>4, <3>2
        <4>2. \/ Says("running") /\ asked' = 2 /\ held' = held
              \/ asked' = 0 /\ held' = FALSE
          BY <2>6, <4>1, Zenon DEF Probe
        <4> QED BY <2>0, <2>2, <3>2, <4>2
      <3>3. CASE asked = 2
        <4>1. Reads[asked + 1] = "draining" /\ asked + 1 = 3
          BY <1>4, <3>3
        <4>2. \/ Says("draining") /\ asked' = 3 /\ held' = held
              \/ asked' = 0 /\ held' = FALSE
          BY <2>6, <4>1, Zenon DEF Probe
        <4> QED BY <2>0, <2>3, <3>3, <4>2
      <3>4. CASE asked = 3
        <4>1. Reads[asked + 1] = "consumer" /\ asked + 1 = 4
          BY <1>4, <3>4
        <4>2. \/ Says("consumer") /\ asked' = 4 /\ held' = held
              \/ asked' = 0 /\ held' = FALSE
          BY <2>6, <4>1, Zenon DEF Probe
        <4> QED BY <2>0, <2>4, <3>4, <4>2
      <3> QED BY <1>4, <1>5, <2>6, <3>1, <3>2, <3>3, <3>4 DEF Probe
    <2> QED BY <2>5, <2>6
  <1> QED BY <1>2, <1>6 DEF AppInv

LEMMA AppStep == AppInv /\ [Next]_vars => AppInv'
  <1> SUFFICES ASSUME AppInv, [Next]_vars PROVE AppInv'
    OBVIOUS
  <1>1. CASE (App \/ UNCHANGED appVars) /\ UNCHANGED probe
    BY <1>1, AppTypesStep, PhaseInvStep, PartsInvStep, AccountedStep, LossInvStep,
           ProbeKept DEF AppInv
  <1> QED BY <1>1, ProbeReads DEF Next, vars

LEMMA Invariance == Spec => []AppInv
  BY AppInit, AppStep, PTL DEF Spec

-----------------------------------------------------------------------------
(* What follows                                                            *)

\* Every observation that was handed over is in one place, whatever ends the run.
THEOREM AccountedHolds == Spec => []Accounted
  <1>1. AppInv => Accounted
    BY DEF AppInv
  <1> QED BY Invariance, <1>1, PTL

\* A run that returns nothing but its cancellation lost nothing.
THEOREM CleanStopLosesNothingHolds == Spec => []CleanStopLosesNothing
  <1>1. AppInv => CleanStopLosesNothing
    <2> SUFFICES ASSUME AppInv, pc = "returned", result \subseteq {"cancelled"}
                 PROVE  /\ abandoned = 0 /\ processed = handed
                        /\ undelivered = 0 /\ ~consumerFailed /\ outcome # "failed"
      BY DEF CleanStopLosesNothing
    <2>0. AppTypes /\ PhaseInv /\ PartsInv /\ Accounted /\ LossInv
      BY DEF AppInv
    <2>1. \A e \in {"deadline", "failed", "reader", "undelivered"} : e \notin result
      OBVIOUS
    <2>2. undelivered = 0 /\ ~halted
      BY <2>0, <2>1 DEF LossInv, AppTypes
    <2>3. CASE delivery = "new"
      <3>1. consumer = "waiting" /\ outcome = "running" /\ abandoned = 0 /\ ~consumerFailed
        BY <2>0, <2>3 DEF PartsInv, LossInv, ReaderEnded
      <3>2. processed + Len(queue) = handed
        BY <2>0, <3>1 DEF Accounted, AppTypes
      <3>3. queue = <<>>
        BY <2>0, <2>3 DEF PartsInv
      <3> QED BY <2>0, <2>2, <3>1, <3>2, <3>3 DEF AppTypes
    <2>4. CASE delivery # "new"
      <3>1. readJoined /\ consumerJoined /\ queue = <<>>
        BY <2>0, <2>4 DEF PhaseInv, AppTypes
      <3>2. consumer = "nil"
        BY <2>0, <2>1, <2>2, <3>1 DEF PartsInv, LossInv, ConsumerEnded
      <3>3. abandoned = 0 /\ ~consumerFailed /\ outcome # "failed"
        BY <2>0, <2>1, <3>1, <3>2 DEF PartsInv, LossInv
      <3>4. processed = handed
        BY <2>0, <3>1, <3>2, <3>3 DEF Accounted, AppTypes
      <3> QED BY <2>2, <3>3, <3>4
    <2> QED BY <2>3, <2>4
  <1> QED BY Invariance, <1>1, PTL

\* Whatever is lost is counted, and a run that loses anything says so.
THEOREM LossesToldHolds == Spec => []LossesTold
  <1>1. Accounted /\ CleanStopLosesNothing => LossesTold
    BY DEF LossesTold
  <1> QED BY AccountedHolds, CleanStopLosesNothingHolds, <1>1, PTL

\* A probe is answered yes only for a moment at which the application was ready,
\* and somebody took what the reader handed over.
THEOREM ReadyAnswerHeldHolds == Spec => []ReadyAnswerHeld
  <1>1. AppInv => ReadyAnswerHeld
    <2> SUFFICES ASSUME AppInv PROVE ReadyAnswerHeld
      OBVIOUS
    <2>1. Ready => ~ConsumerEnded /\ ~ReaderEnded /\ delivery = "started"
      BY DEF AppInv, AppTypes, PhaseInv, PartsInv, Ready, Running, ConsumerEnded, Started
    <2>2. asked = Len(Reads) => held
      BY DEF AppInv, ProbeInv, Reads
    <2> QED BY <2>1, <2>2 DEF ReadyAnswerHeld
  <1> QED BY Invariance, <1>1, PTL

\* Delivery is closed behind the consumer, and nothing is left behind by Run.
THEOREM NothingOutlivesHolds == Spec => []NothingOutlives
  <1>1. AppInv => NothingOutlives
    BY DEF AppInv, AppTypes, PhaseInv, PartsInv, LossInv, NothingOutlives,
           DeliveryOutlivesConsumer, Started
  <1> QED BY Invariance, <1>1, PTL

=============================================================================
