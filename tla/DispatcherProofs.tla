-------------------------- MODULE DispatcherProofs --------------------------
(***************************************************************************)
(* Proofs about Dispatcher, for every set of destinations and producers,   *)
(* every configuration, every number of events and every size function:    *)
(* its types, accounts, shutdown and keys; the order in which a            *)
(* destination is shown its events, the package's contract, the limits of  *)
(* a batch, and what Close leaves. And about RetrySchedule, the clock by   *)
(* which a batch is sent again, and the outage its configuration survives. *)
(***************************************************************************)
EXTENDS Dispatcher, MCRetrySchedule, TLAPS, FiniteSetTheorems, WellFoundedInduction

-----------------------------------------------------------------------------
(* Type correctness                                                        *)

\* TypeOK is not inductive: Wake grows the attempt number, and stays within
\* MaxAttempts only because deliver sleeps before no attempt but a further one.
TypeInv == /\ TypeOK
           /\ \A l \in Lanes : pc[l] = "sleep" => send[l].attempt < MaxAttempts

\* A counter stays a number when it grows.
LEMMA CountType ==
    ASSUME stats \in [Lanes -> [Counters -> Nat]],
           NEW l \in Lanes, NEW c \in Counters, NEW n \in Nat, Count(l, c, n)
    PROVE  /\ stats' \in [Lanes -> [Counters -> Nat]]
           /\ stats'[l][c] = stats[l][c] + n
           /\ \A m \in Lanes, d \in Counters :
                 (m # l \/ d # c) => stats'[m][d] = stats[m][d]
  BY DEF Count

\* Settling events leaves every fate a fate, and the other fates as they were.
LEMMA SettleType ==
    ASSUME fate \in [Lanes -> [Events -> Fates]],
           NEW l \in Lanes, NEW f \in Fates, NEW B, Settle(l, B, f)
    PROVE  /\ fate' \in [Lanes -> [Events -> Fates]]
           /\ \A m \in Lanes, e \in Events :
                 fate'[m][e] = IF m = l /\ e \in B THEN f ELSE fate[m][e]
  BY DEF Settle

\* What the worker receives is an event, and what it leaves is a queue.
LEMMA HeadTail ==
    ASSUME NEW s \in {q \in Seq(Events) : Len(q) <= QueueCapacity}, s # <<>>
    PROVE  /\ Head(s) \in Events
           /\ Tail(s) \in {q \in Seq(Events) : Len(q) <= QueueCapacity}
           /\ Len(s) = Len(Tail(s)) + 1
  BY ConfigAssumption

\* Appending an event to the batch keeps its type.
LEMMA AddType ==
    ASSUME TypeOK, NEW l \in Lanes, NEW e \in Events, Add(l, e)
    PROVE  /\ batch' \in [Lanes -> Seq(Events)]
           /\ size' \in [Lanes -> Nat]
           /\ pc' \in [Lanes -> PCs]
           /\ pc'[l] \in {"send", "select"}
           /\ \A m \in Lanes \ {l} : pc'[m] = pc[m] /\ batch'[m] = batch[m]
           /\ Len(batch'[l]) = Len(batch[l]) + 1
  <1>1. Size[e] \in Nat /\ size[l] + Size[e] + 1 \in Nat
    BY EnvironmentAssumption DEF TypeOK
  <1>2. batch[l] \in Seq(Events) /\ Append(batch[l], e) \in Seq(Events)
    BY DEF TypeOK
  <1>3. /\ batch' = [batch EXCEPT ![l] = Append(@, e)]
        /\ size'  = [size EXCEPT ![l] = @ + Size[e] + 1]
        /\ \E t \in {"send", "select"} : pc' = [pc EXCEPT ![l] = t]
    BY DEF Add
  <1> QED BY <1>1, <1>2, <1>3 DEF TypeOK, PCs

\* The end of a batch keeps every type.
LEMMA EndBatchType ==
    ASSUME TypeInv, NEW l \in Lanes, NEW c \in {"delivered", "failed", "undelivered"},
           EndBatch(l, c)
    PROVE  TypeInv'
  <1> USE DEF TypeInv
  <1>1. Len(batch[l]) \in Nat
    BY DEF TypeOK
  <1>2. stats' \in [Lanes -> [Counters -> Nat]]
    BY <1>1, CountType DEF EndBatch, TypeOK, Counters
  <1>3. fate' \in [Lanes -> [Events -> Fates]]
    BY SettleType DEF EndBatch, TypeOK, Fates
  <1>4. /\ batch' \in [Lanes -> Seq(Events)]
        /\ size' \in [Lanes -> Nat]
        /\ pc' \in [Lanes -> PCs]
        /\ \A m \in Lanes : pc'[m] = "sleep" => pc[m] = "sleep"
    BY EnvironmentAssumption DEF EndBatch, TypeOK, Goto, PCs
  <1> QED BY <1>2, <1>3, <1>4 DEF EndBatch, WorkerOnly, closeVars, TypeOK

LEMMA TypeInit == Init => TypeInv
  <1> SUFFICES ASSUME Init PROVE TypeInv
    OBVIOUS
  <1>1. calls \in 0..MaxCalls /\ Envelope \in Nat
    BY EnvironmentAssumption DEF Init
  <1>2. 0 \in 0..MaxAttempts
    BY ConfigAssumption
  <1>3. <<>> \in {q \in Seq(Events) : Len(q) <= QueueCapacity}
    BY ConfigAssumption
  <1>4. stats \in [Lanes -> [Counters -> Nat]] /\ fate \in [Lanes -> [Events -> Fates]]
    BY DEF Init, Fates
  <1>5. /\ queue \in [Lanes -> {q \in Seq(Events) : Len(q) <= QueueCapacity}]
        /\ batch \in [Lanes -> Seq(Events)]
        /\ received \in [Lanes -> Seq([id : Nat, events : Seq(Events)])]
    BY <1>3 DEF Init
  <1>6. /\ send \in [Lanes -> [id : Nat, attempt : 0..MaxAttempts, taken : BOOLEAN]]
        /\ uncounted \in [Lanes -> SUBSET Producers]
        /\ pc \in [Lanes -> PCs] /\ size \in [Lanes -> Nat]
        /\ carry \in [Lanes -> Events \cup {0}]
    BY <1>1, <1>2 DEF Init, PCs
  <1>7. \A l \in Lanes : pc[l] # "sleep"
    BY DEF Init
  <1> QED BY <1>1, <1>4, <1>5, <1>6, <1>7 DEF Init, TypeInv, TypeOK

\* Every step of the dispatcher, its producers, its destinations and the
\* application preserves the types.
LEMMA TypeStep == TypeInv /\ [Next]_vars => TypeInv'
  <1> SUFFICES ASSUME TypeInv, [Next]_vars PROVE TypeInv'
    OBVIOUS
  <1> USE DEF TypeInv
  <1>1. ASSUME NEW p \in Producers, NEW l \in Lanes, EnqueueSend(p, l) PROVE TypeInv'
    <2>1. calls' \in 0..MaxCalls /\ calls + 1 \in Events
      BY <1>1, EnvironmentAssumption DEF EnqueueSend, TypeOK, Events
    <2>2. queue' \in [Lanes -> {q \in Seq(Events) : Len(q) <= QueueCapacity}]
      BY <1>1, <2>1, ConfigAssumption DEF EnqueueSend, TypeOK
    <2>3. fate' \in [Lanes -> [Events -> Fates]]
      BY <1>1, SettleType DEF EnqueueSend, TypeOK, Fates
    <2> QED BY <1>1, <2>1, <2>2, <2>3 DEF EnqueueSend, workerVars, closeVars, TypeOK
  <1>2. ASSUME NEW p \in Producers, NEW l \in Lanes, EnqueueCount(p, l) PROVE TypeInv'
    <2>1. stats' \in [Lanes -> [Counters -> Nat]]
      BY <1>2, CountType DEF EnqueueCount, TypeOK, Counters
    <2> QED BY <1>2, <2>1 DEF EnqueueCount, workerVars, closeVars, TypeOK
  <1>3. ASSUME NEW p \in Producers, NEW l \in Lanes, EnqueueDrop(p, l) PROVE TypeInv'
    <2>1. calls' \in 0..MaxCalls
      BY <1>3, EnvironmentAssumption DEF EnqueueDrop, TypeOK
    <2>2. stats' \in [Lanes -> [Counters -> Nat]]
      BY <1>3, CountType DEF EnqueueDrop, TypeOK, Counters
    <2>3. fate' \in [Lanes -> [Events -> Fates]]
      BY <1>3, SettleType DEF EnqueueDrop, TypeOK, Fates
    <2> QED BY <1>3, <2>1, <2>2, <2>3 DEF EnqueueDrop, workerVars, closeVars, TypeOK
  <1>4. ASSUME NEW l \in Lanes, Dequeue(l)
        PROVE  /\ queue' \in [Lanes -> {q \in Seq(Events) : Len(q) <= QueueCapacity}]
               /\ Head(queue[l]) \in Events
    <2>1. queue[l] \in {q \in Seq(Events) : Len(q) <= QueueCapacity} /\ queue[l] # <<>>
      BY <1>4 DEF Dequeue, TypeOK
    <2>2. /\ Head(queue[l]) \in Events
          /\ Tail(queue[l]) \in {q \in Seq(Events) : Len(q) <= QueueCapacity}
      BY <2>1, HeadTail
    <2> QED BY <1>4, <2>2 DEF Dequeue, TypeOK
  <1>5. ASSUME NEW l \in Lanes, ReceiveUnencodable(l) PROVE TypeInv'
    <2>1. stats' \in [Lanes -> [Counters -> Nat]]
      BY <1>5, CountType DEF ReceiveUnencodable, TypeOK, Counters
    <2>2. fate' \in [Lanes -> [Events -> Fates]]
      BY <1>5, SettleType DEF ReceiveUnencodable, TypeOK, Fates
    <2> QED BY <1>5, <1>4, <2>1, <2>2
            DEF ReceiveUnencodable, Dequeue, workerVars, closeVars, TypeOK
  <1>6. ASSUME NEW l \in Lanes, ReceiveIntoBatch(l) PROVE TypeInv'
    <2>1. Dequeue(l) /\ Add(l, Head(queue[l]))
      BY <1>6 DEF ReceiveIntoBatch
    <2> QED BY <1>6, <1>4, <2>1, AddType
            DEF ReceiveIntoBatch, Dequeue, closeVars, TypeOK
  <1>7. ASSUME NEW l \in Lanes, ReceiveOverBudget(l) PROVE TypeInv'
    <2>1. Dequeue(l)
      BY <1>7 DEF ReceiveOverBudget
    <2> QED BY <1>7, <1>4, <2>1 DEF ReceiveOverBudget, Dequeue, closeVars, TypeOK, PCs
  <1>8. ASSUME NEW l \in Lanes, QueueClosed(l) \/ Flush(l) PROVE TypeInv'
    BY <1>8 DEF QueueClosed, Flush, Goto, WorkerOnly, closeVars, TypeOK, PCs
  <1>9. ASSUME NEW l \in Lanes, Abandon(l) PROVE TypeInv'
    <2>1. Len(batch[l]) + Len(queue[l]) \in Nat
      BY DEF TypeOK
    <2>2. stats' \in [Lanes -> [Counters -> Nat]]
      BY <1>9, <2>1, CountType DEF Abandon, TypeOK, Counters
    <2>3. fate' \in [Lanes -> [Events -> Fates]]
      BY <1>9, SettleType DEF Abandon, TypeOK, Fates
    <2>4. /\ queue' \in [Lanes -> {q \in Seq(Events) : Len(q) <= QueueCapacity}]
          /\ batch' \in [Lanes -> Seq(Events)]
      BY <1>9, ConfigAssumption DEF Abandon, TypeOK
    <2> QED BY <1>9, <2>2, <2>3, <2>4 DEF Abandon, Goto, closeVars, TypeOK, PCs
  <1>10. ASSUME NEW l \in Lanes, Resume(l) PROVE TypeInv'
    <2>1. CASE carry[l] # 0
      <3>1. carry[l] \in Events /\ Add(l, carry[l])
        BY <1>10, <2>1 DEF Resume, TypeOK
      <3> QED BY <1>10, <3>1, AddType DEF Resume, WorkerOnly, closeVars, TypeOK
    <2>2. CASE carry[l] = 0
      BY <1>10, <2>2 DEF Resume, Goto, WorkerOnly, closeVars, TypeOK, PCs
    <2> QED BY <2>1, <2>2
  <1>11. ASSUME NEW l \in Lanes, BeginBatch(l) PROVE TypeInv'
    <2>1. batches + 1 \in Nat /\ 1 \in 0..MaxAttempts
      BY ConfigAssumption DEF TypeOK
    <2>2. send' \in [Lanes -> [id : Nat, attempt : 0..MaxAttempts, taken : BOOLEAN]]
      BY <1>11, <2>1 DEF BeginBatch, TypeOK
    <2>3. /\ pc' \in [Lanes -> PCs]
          /\ \A m \in Lanes : pc'[m] = "sleep" => pc[m] = "sleep" /\ send'[m] = send[m]
      BY <1>11 DEF BeginBatch, Goto, TypeOK, PCs
    <2> QED BY <1>11, <2>1, <2>2, <2>3 DEF BeginBatch, WorkerOnly, closeVars, TypeOK
  <1>12. ASSUME NEW l \in Lanes, ReporterTakes(l) PROVE TypeInv'
    <2>1. /\ send' \in [Lanes -> [id : Nat, attempt : 0..MaxAttempts, taken : BOOLEAN]]
          /\ \A m \in Lanes : send'[m].attempt = send[m].attempt
      <3>1. send' = [send EXCEPT ![l].taken = TRUE]
        BY <1>12 DEF ReporterTakes
      <3>2. send \in [Lanes -> [id : Nat, attempt : 0..MaxAttempts, taken : BOOLEAN]]
        BY DEF TypeOK
      <3> QED BY ONLY <3>1, <3>2
    <2>2. [id |-> send[l].id, events |-> batch[l]] \in [id : Nat, events : Seq(Events)]
      BY DEF TypeOK
    <2> DEFINE b == [id |-> send[l].id, events |-> batch[l]]
               R == [id : Nat, events : Seq(Events)]
    <2>3. received \in [Lanes -> Seq(R)] /\ received' = [received EXCEPT ![l] = Append(@, b)]
      BY <1>12 DEF ReporterTakes, TypeOK
    <2>4. b \in R
      BY <2>2
    <2>5. received' \in [Lanes -> Seq(R)]
      <3> HIDE DEF b, R
      <3> QED BY <2>3, <2>4
    <2> QED BY <1>12, <2>1, <2>5 DEF ReporterTakes, closeVars, TypeOK
  <1>13. ASSUME NEW l \in Lanes,
                AttemptSucceeds(l) \/ AttemptAborted(l) \/ AttemptFinal(l) \/ SleepAborted(l)
         PROVE  TypeInv'
    BY <1>13, EndBatchType DEF AttemptSucceeds, AttemptAborted, AttemptFinal, SleepAborted
  <1>14. ASSUME NEW l \in Lanes, AttemptRetries(l) PROVE TypeInv'
    <2>1. stats' \in [Lanes -> [Counters -> Nat]]
      BY <1>14, CountType DEF AttemptRetries, TypeOK, Counters
    <2> QED BY <1>14, <2>1 DEF AttemptRetries, Goto, WorkerOnly, closeVars, TypeOK, PCs
  <1>15. ASSUME NEW l \in Lanes, Wake(l) PROVE TypeInv'
    <2>1. send[l].attempt + 1 \in 0..MaxAttempts
      BY <1>15, ConfigAssumption DEF Wake, TypeOK
    <2>2. send' \in [Lanes -> [id : Nat, attempt : 0..MaxAttempts, taken : BOOLEAN]]
      BY <1>15, <2>1 DEF Wake, TypeOK
    <2>3. /\ pc' \in [Lanes -> PCs]
          /\ \A m \in Lanes : pc'[m] = "sleep" => pc[m] = "sleep" /\ send'[m] = send[m]
      BY <1>15 DEF Wake, Goto, TypeOK, PCs
    <2> QED BY <1>15, <2>2, <2>3 DEF Wake, WorkerOnly, closeVars, TypeOK
  <1>16. CASE Start
    BY <1>16 DEF Start, TypeOK, PCs
  <1>17. CASE CloseBegin \/ CloseDeadline \/ CloseJoined \/ CloseReturn
    BY <1>17 DEF CloseBegin, CloseDeadline, CloseJoined, CloseReturn, CloseRest, workerVars,
                 TypeOK
  <1>18. ASSUME NEW l \in Lanes, CloseCollect(l) PROVE TypeInv'
    <2>1. Len(queue[l]) \in Nat
      BY DEF TypeOK
    <2>2. stats' \in [Lanes -> [Counters -> Nat]]
      BY <1>18, <2>1, CountType DEF CloseCollect, TypeOK, Counters
    <2>3. fate' \in [Lanes -> [Events -> Fates]]
      BY <1>18, SettleType DEF CloseCollect, TypeOK, Fates
    <2>4. queue' \in [Lanes -> {q \in Seq(Events) : Len(q) <= QueueCapacity}]
      BY <1>18, ConfigAssumption DEF CloseCollect, TypeOK
    <2> QED BY <1>18, <2>2, <2>3, <2>4 DEF CloseCollect, CloseRest, workerVars, TypeOK
  <1>19. CASE UNCHANGED vars
    BY <1>19 DEF vars, workerVars, closeVars, TypeOK
  <1> QED
    BY <1>1, <1>2, <1>3, <1>5, <1>6, <1>7, <1>8, <1>9, <1>10, <1>11, <1>12, <1>13, <1>14,
       <1>15, <1>16, <1>17, <1>18, <1>19
    DEF Next, Enqueue, Worker, Run, Deliver, Close, Terminated

\* Every reachable state has the types TypeOK states: in particular no queue
\* exceeds QueueCapacity and no batch is attempted more than MaxAttempts times.
THEOREM TypeCorrect == Spec => []TypeOK
  <1>1. TypeInv => TypeOK
    BY DEF TypeInv
  <1> QED BY TypeInit, TypeStep, <1>1, PTL DEF Spec

-----------------------------------------------------------------------------
(* Conservation: no accepted event is lost by the counters                 *)

\* What run and Start rely on: the worker holds an event back only while it
\* sends, and there is no worker before Start.
HandsFree == \A l \in Lanes : /\ pc[l] \in {"new", "select", "done"} => carry[l] = 0
                              /\ ~started => pc[l] = "new"

ConsInv == TypeInv /\ HandsFree /\ Conservation

\* One lane's share of Conservation.
Balance(l) ==
    stats[l]["enqueued"] + Cardinality(uncounted[l]) =
        stats[l]["delivered"] + stats[l]["failed"] + stats[l]["undelivered"] + InHand(l)

\* The numbers Conservation adds up are numbers.
LEMMA Numbers ==
    ASSUME TypeOK, NEW l \in Lanes
    PROVE  /\ \A c \in Counters : stats[l][c] \in Nat
           /\ IsFiniteSet(uncounted[l]) /\ Cardinality(uncounted[l]) \in Nat
           /\ Len(batch[l]) \in Nat /\ Len(queue[l]) \in Nat
           /\ Held(carry[l]) \in Nat /\ InHand(l) \in Nat
  <1>1. uncounted[l] \in SUBSET Producers
    BY DEF TypeOK
  <1>2. IsFiniteSet(uncounted[l]) /\ Cardinality(uncounted[l]) \in Nat
    BY <1>1, EnvironmentAssumption, FS_Subset, FS_CardinalityType
  <1>3. Len(batch[l]) \in Nat /\ Len(queue[l]) \in Nat
    BY DEF TypeOK
  <1>4. Held(carry[l]) \in Nat
    BY DEF Held
  <1> QED BY <1>2, <1>3, <1>4 DEF TypeOK, InHand

\* The same, with names for the numbers, which is what arithmetic needs.
LEMMA NamedNumbers ==
    ASSUME TypeOK, NEW l \in Lanes
    PROVE  /\ \E b, h, q \in Nat : /\ Len(batch[l]) = b /\ Held(carry[l]) = h
                                    /\ Len(queue[l]) = q /\ InHand(l) = b + h + q
           /\ \E k \in Nat : Cardinality(uncounted[l]) = k
  BY Numbers DEF InHand

\* A step that keeps one lane's balance and leaves the other lanes alone keeps
\* all of them.
LEMMA OtherLanes ==
    ASSUME Conservation, NEW l \in Lanes, Balance(l)',
           \A m \in Lanes \ {l} : /\ stats'[m] = stats[m] /\ uncounted'[m] = uncounted[m]
                                  /\ batch'[m] = batch[m] /\ queue'[m] = queue[m]
                                  /\ carry'[m] = carry[m]
    PROVE  Conservation'
  <1> SUFFICES ASSUME NEW m \in Lanes PROVE Balance(m)'
    BY DEF Conservation, Balance
  <1>1. CASE m = l
    BY <1>1
  <1>2. CASE m # l
    BY <1>2 DEF Conservation, Balance, InHand
  <1> QED BY <1>1, <1>2

\* Events that leave the lane's hands for an outcome that counts them keep the
\* balance.
LEMMA OutcomeBalance ==
    ASSUME TypeOK, Conservation, NEW l \in Lanes,
           NEW c \in {"delivered", "failed", "undelivered"}, NEW n \in Nat,
           Count(l, c, n), uncounted'[l] = uncounted[l], InHand(l)' = InHand(l) - n
    PROVE  Balance(l)' /\ \A m \in Lanes \ {l} : stats'[m] = stats[m]
  <1>1. stats \in [Lanes -> [Counters -> Nat]] /\ c \in Counters
    BY DEF TypeOK, Counters
  <1>2. /\ stats'[l][c] = stats[l][c] + n
        /\ \A d \in Counters : d # c => stats'[l][d] = stats[l][d]
        /\ \A m \in Lanes \ {l} : stats'[m] = stats[m]
    BY <1>1 DEF Count
  <1>3. Balance(l)
    BY DEF Conservation, Balance
  <1>4. /\ \A d \in Counters : stats[l][d] \in Nat
        /\ InHand(l) \in Nat /\ Cardinality(uncounted[l]) \in Nat
        /\ Cardinality(uncounted[l])' = Cardinality(uncounted[l])
    BY Numbers
  <1>5. stats'[l]["enqueued"] = stats[l]["enqueued"]
    BY <1>2 DEF Counters
  <1>6. stats'[l]["delivered"] + stats'[l]["failed"] + stats'[l]["undelivered"]
          = stats[l]["delivered"] + stats[l]["failed"] + stats[l]["undelivered"] + n
    BY <1>2, <1>4 DEF Counters
  <1> QED BY <1>2, <1>3, <1>4, <1>5, <1>6 DEF Balance, Counters

\* A batch that ends moves from the worker's hand to one of the outcomes.
LEMMA EndBatchBalance ==
    ASSUME ConsInv, NEW l \in Lanes, NEW c \in {"delivered", "failed", "undelivered"},
           EndBatch(l, c)
    PROVE  Conservation'
  <1>1. TypeOK /\ Conservation
    BY DEF ConsInv, TypeInv
  <1>2. Len(batch[l]) \in Nat /\ Count(l, c, Len(batch[l]))
    BY <1>1, Numbers DEF EndBatch
  <1>3. /\ Len(batch'[l]) = 0
        /\ UNCHANGED <<queue, carry, uncounted>>
        /\ \A m \in Lanes \ {l} : batch'[m] = batch[m]
    BY <1>1 DEF EndBatch, WorkerOnly, TypeOK
  <1>4. InHand(l)' = InHand(l) - Len(batch[l])
    BY <1>1, <1>3, Numbers DEF InHand
  <1>5. Balance(l)' /\ \A m \in Lanes \ {l} : stats'[m] = stats[m]
    BY <1>1, <1>2, <1>3, <1>4, OutcomeBalance
  <1> QED BY <1>1, <1>3, <1>5, OtherLanes

LEMMA ConsInit == Init => ConsInv
  <1> SUFFICES ASSUME Init PROVE ConsInv
    OBVIOUS
  <1>1. Cardinality({}) = 0
    BY FS_EmptySet
  <1>2. ASSUME NEW l \in Lanes PROVE Balance(l)
    <2>1. \A c \in Counters : stats[l][c] = 0
      BY DEF Init
    <2>2. uncounted[l] = {} /\ batch[l] = <<>> /\ queue[l] = <<>> /\ Held(carry[l]) = 0
      BY DEF Init, Held
    <2> QED BY <1>1, <2>1, <2>2 DEF Balance, InHand, Counters
  <1> QED BY <1>2, TypeInit DEF Init, ConsInv, HandsFree, Conservation, Balance

\* The worker keeps its hands free as HandsFree says.
LEMMA HandsFreeStep == ConsInv /\ [Next]_vars => HandsFree'
  <1> SUFFICES ASSUME ConsInv, [Next]_vars PROVE HandsFree'
    OBVIOUS
  <1> USE DEF HandsFree
  <1>0. TypeOK /\ HandsFree /\ pc \in [Lanes -> PCs] /\ carry \in [Lanes -> Events \cup {0}]
    BY DEF ConsInv, TypeInv, TypeOK
  <1>1. CASE UNCHANGED <<pc, carry, started>>
    BY <1>0, <1>1
  <1>2. ASSUME NEW l \in Lanes, NEW e \in Events, Add(l, e), carry'[l] = 0,
               pc[l] \in {"select", "resume"},
               \A m \in Lanes \ {l} : carry'[m] = carry[m], UNCHANGED started
        PROVE  HandsFree'
    BY <1>0, <1>2, AddType
  <1>3. ASSUME NEW l \in Lanes, ReceiveIntoBatch(l) PROVE HandsFree'
    <2>1. Head(queue[l]) \in Events /\ Add(l, Head(queue[l])) /\ pc[l] = "select"
      BY <1>0, <1>3, HeadTail DEF ReceiveIntoBatch, Dequeue, TypeOK
    <2> QED BY <1>0, <1>2, <1>3, <2>1 DEF ReceiveIntoBatch, Dequeue, closeVars
  <1>4. ASSUME NEW l \in Lanes, Resume(l) PROVE HandsFree'
    <2>1. carry' = [carry EXCEPT ![l] = 0] /\ UNCHANGED started /\ pc[l] = "resume"
      BY <1>4 DEF Resume, WorkerOnly, closeVars
    <2>2. CASE carry[l] # 0
      <3>1. carry[l] \in Events /\ Add(l, carry[l])
        BY <1>0, <1>4, <2>2 DEF Resume
      <3> QED BY <1>0, <1>2, <2>1, <3>1
    <2>3. CASE carry[l] = 0
      BY <1>0, <1>4, <2>1, <2>3 DEF Resume, Goto
    <2> QED BY <2>2, <2>3
  <1>5. ASSUME NEW l \in Lanes,
               ReceiveOverBudget(l) \/ QueueClosed(l) \/ Flush(l) \/ Abandon(l)
        PROVE  HandsFree'
    <2>1. ASSUME ReceiveOverBudget(l) PROVE HandsFree'
      BY <1>0, <2>1 DEF ReceiveOverBudget, Dequeue, closeVars
    <2>2. ASSUME QueueClosed(l) \/ Flush(l) PROVE HandsFree'
      BY <1>0, <2>2 DEF QueueClosed, Flush, Goto, WorkerOnly, closeVars
    <2>3. ASSUME Abandon(l) PROVE HandsFree'
      BY <1>0, <2>3 DEF Abandon, Goto, closeVars
    <2> QED BY <1>5, <2>1, <2>2, <2>3
  <1>6. ASSUME NEW l \in Lanes, BeginBatch(l) \/ AttemptRetries(l) \/ Wake(l)
        PROVE  HandsFree'
    BY <1>0, <1>6 DEF BeginBatch, AttemptRetries, Wake, Goto, WorkerOnly, closeVars
  <1>7. ASSUME NEW l \in Lanes,
               AttemptSucceeds(l) \/ AttemptAborted(l) \/ AttemptFinal(l) \/ SleepAborted(l)
        PROVE  HandsFree'
    BY <1>0, <1>7 DEF AttemptSucceeds, AttemptAborted, AttemptFinal, SleepAborted, EndBatch,
                      Goto, WorkerOnly, closeVars
  <1>8. CASE Start
    BY <1>0, <1>8 DEF Start
  <1>9. ASSUME NEW p \in Producers, NEW l \in Lanes, Enqueue(p, l) PROVE HandsFree'
    BY <1>1, <1>9 DEF Enqueue, EnqueueSend, EnqueueCount, EnqueueDrop, workerVars, closeVars
  <1>10. ASSUME NEW l \in Lanes, ReceiveUnencodable(l) \/ ReporterTakes(l) PROVE HandsFree'
    BY <1>1, <1>10 DEF ReceiveUnencodable, Dequeue, ReporterTakes, workerVars, closeVars
  <1>11. CASE Close
    BY <1>1, <1>11 DEF Close, CloseBegin, CloseDeadline, CloseJoined, CloseReturn,
                       CloseCollect, CloseRest, workerVars
  <1>12. CASE UNCHANGED vars
    BY <1>1, <1>12 DEF vars, workerVars, closeVars
  <1> QED
    BY <1>3, <1>4, <1>5, <1>6, <1>7, <1>8, <1>9, <1>10, <1>11, <1>12
    DEF Next, Worker, Run, Deliver, Terminated

\* Every step moves events between the queue, the worker and the outcomes, and
\* counts what it moves.
LEMMA ConservationStep == ConsInv /\ [Next]_vars => Conservation'
  <1> SUFFICES ASSUME ConsInv, [Next]_vars PROVE Conservation'
    OBVIOUS
  <1>0. TypeInv /\ TypeOK /\ Conservation /\ HandsFree
    BY DEF ConsInv, TypeInv
  <1>1. CASE UNCHANGED <<stats, uncounted, batch, queue, carry>>
    BY <1>0, <1>1 DEF Conservation, InHand
  <1>2. ASSUME NEW l \in Lanes PROVE Balance(l)
    BY <1>0 DEF Conservation, Balance
  <1>3. ASSUME NEW p \in Producers, NEW l \in Lanes, EnqueueSend(p, l) PROVE Conservation'
    <2>1. Cardinality(uncounted'[l]) = Cardinality(uncounted[l]) + 1
      BY <1>0, <1>3, Numbers, FS_AddElement DEF EnqueueSend, Busy, TypeOK
    <2>2. Len(queue'[l]) = Len(queue[l]) + 1
      BY <1>0, <1>3 DEF EnqueueSend, TypeOK
    <2>3. UNCHANGED <<stats, batch, carry>>
      BY <1>3 DEF EnqueueSend, workerVars
    <2>4. InHand(l)' = InHand(l) + 1
      <3>1. /\ Len(batch[l]) \in Nat /\ Held(carry[l]) \in Nat /\ Len(queue[l]) \in Nat
        BY <1>0, Numbers
      <3> QED BY <2>2, <2>3, <3>1 DEF InHand
    <2>5. Balance(l)'
      <3>1. (\A d \in Counters : stats[l][d] \in Nat) /\ InHand(l) \in Nat
        BY <1>0, Numbers
      <3>2. PICK k \in Nat : Cardinality(uncounted[l]) = k
        BY <1>0, NamedNumbers
      <3>3. Cardinality(uncounted[l])' = k + 1 /\ stats' = stats
        BY <2>1, <2>3, <3>2
      <3> QED BY <1>2, <2>4, <3>1, <3>2, <3>3 DEF Balance, Counters
    <2> QED BY <1>0, <1>3, <2>5, OtherLanes DEF EnqueueSend, workerVars, TypeOK
  <1>4. ASSUME NEW p \in Producers, NEW l \in Lanes, EnqueueCount(p, l) PROVE Conservation'
    <2>1. Cardinality(uncounted'[l]) = Cardinality(uncounted[l]) - 1
      BY <1>0, <1>4, Numbers, FS_RemoveElement DEF EnqueueCount, TypeOK
    <2>2. /\ stats'[l]["enqueued"] = stats[l]["enqueued"] + 1
          /\ \A d \in Counters \ {"enqueued"} : stats'[l][d] = stats[l][d]
          /\ \A m \in Lanes \ {l} : stats'[m] = stats[m]
      BY <1>0, <1>4 DEF EnqueueCount, Count, TypeOK, Counters
    <2>3. InHand(l)' = InHand(l)
      BY <1>4 DEF EnqueueCount, workerVars, InHand
    <2>4. Balance(l)'
      <3>1. /\ \A d \in Counters : stats[l][d] \in Nat
            /\ InHand(l) \in Nat /\ Cardinality(uncounted[l]) \in Nat
        BY <1>0, Numbers
      <3> QED BY <1>2, <2>1, <2>2, <2>3, <3>1 DEF Balance, Counters
    <2> QED BY <1>0, <1>4, <2>2, <2>4, OtherLanes DEF EnqueueCount, workerVars, TypeOK
  <1>5. ASSUME NEW p \in Producers, NEW l \in Lanes, EnqueueDrop(p, l) PROVE Conservation'
    <2>1. /\ \A d \in Counters \ {"dropped"} : stats'[l][d] = stats[l][d]
          /\ \A m \in Lanes \ {l} : stats'[m] = stats[m]
      BY <1>0, <1>5 DEF EnqueueDrop, Count, TypeOK, Counters
    <2>2. Balance(l)'
      BY <1>2, <1>5, <2>1 DEF EnqueueDrop, workerVars, Balance, InHand, Counters
    <2> QED BY <1>0, <1>5, <2>1, <2>2, OtherLanes DEF EnqueueDrop, workerVars
  <1>6. ASSUME NEW l \in Lanes, Dequeue(l)
        PROVE  /\ Head(queue[l]) \in Events
               /\ Len(queue'[l]) = Len(queue[l]) - 1
               /\ \A m \in Lanes \ {l} : queue'[m] = queue[m]
               /\ UNCHANGED uncounted /\ carry[l] = 0
    <2>1. queue[l] # <<>> /\ queue' = [queue EXCEPT ![l] = Tail(@)] /\ pc[l] = "select"
      BY <1>6 DEF Dequeue
    <2>2. queue[l] \in Seq(Events) /\ queue \in [Lanes -> Seq(Events)]
      BY <1>0 DEF TypeOK
    <2>3. Head(queue[l]) \in Events /\ Len(Tail(queue[l])) = Len(queue[l]) - 1
      BY <2>1, <2>2, HeadTail
    <2>4. queue'[l] = Tail(queue[l]) /\ \A m \in Lanes \ {l} : queue'[m] = queue[m]
      BY <2>1, <2>2
    <2>5. UNCHANGED uncounted /\ carry[l] = 0
      BY <1>0, <1>6, <2>1 DEF Dequeue, HandsFree
    <2> QED BY <2>3, <2>4, <2>5
  <1>7. ASSUME NEW l \in Lanes, ReceiveUnencodable(l) PROVE Conservation'
    <2>1. Dequeue(l) /\ UNCHANGED <<batch, carry>> /\ Count(l, "failed", 1)
      BY <1>7 DEF ReceiveUnencodable, workerVars
    <2>2. InHand(l)' = InHand(l) - 1
      <3>1. /\ Len(queue'[l]) = Len(queue[l]) - 1
            /\ UNCHANGED <<batch, carry>>
        BY <1>6, <2>1
      <3>2. Len(queue[l]) \in Nat /\ Len(batch[l]) \in Nat /\ Held(carry[l]) \in Nat
        BY <1>0, Numbers
      <3>3. batch'[l] = batch[l] /\ carry'[l] = carry[l]
        BY <3>1
      <3> QED BY <3>1, <3>2, <3>3 DEF InHand
    <2>3. Balance(l)' /\ \A m \in Lanes \ {l} : stats'[m] = stats[m]
      BY <1>0, <1>6, <2>1, <2>2, OutcomeBalance
    <2> QED BY <1>0, <1>6, <2>1, <2>3, OtherLanes
  <1>8. ASSUME NEW l \in Lanes, ReceiveIntoBatch(l) PROVE Conservation'
    <2>1. Dequeue(l) /\ UNCHANGED <<stats, carry>> /\ Add(l, Head(queue[l]))
      BY <1>8 DEF ReceiveIntoBatch
    <2>2. InHand(l)' = InHand(l) /\ \A m \in Lanes \ {l} : batch'[m] = batch[m]
      <3>1. /\ Len(batch'[l]) = Len(batch[l]) + 1
            /\ \A m \in Lanes \ {l} : batch'[m] = batch[m]
        BY <1>0, <1>6, <2>1, AddType
      <3>2. Len(queue'[l]) = Len(queue[l]) - 1 /\ carry' = carry
        BY <1>6, <2>1
      <3>3. Len(queue[l]) \in Nat /\ Len(batch[l]) \in Nat /\ Held(carry[l]) \in Nat
        BY <1>0, Numbers
      <3>4. InHand(l)' = InHand(l)
        BY <3>1, <3>2, <3>3 DEF InHand
      <3> QED BY <3>1, <3>4
    <2>3. Balance(l)'
      BY <1>2, <1>6, <2>1, <2>2 DEF Balance
    <2> QED BY <1>0, <1>6, <2>1, <2>2, <2>3, OtherLanes
  <1>9. ASSUME NEW l \in Lanes, ReceiveOverBudget(l) PROVE Conservation'
    <2>1. Dequeue(l) /\ UNCHANGED <<stats, batch>>
      BY <1>9 DEF ReceiveOverBudget
    <2>2. carry' = [carry EXCEPT ![l] = Head(queue[l])]
      BY <1>9 DEF ReceiveOverBudget
    <2>3. Held(carry[l])' = 1 /\ Held(carry[l]) = 0
      BY <1>0, <1>6, <2>1, <2>2 DEF Held, TypeOK, Events
    <2>4. InHand(l)' = InHand(l)
      <3>1. PICK b, h, q \in Nat : /\ Len(batch[l]) = b /\ Held(carry[l]) = h
                                    /\ Len(queue[l]) = q /\ InHand(l) = b + h + q
        BY <1>0, NamedNumbers
      <3>2. Len(batch[l])' = b /\ Len(queue[l])' = q - 1 /\ h = 0
        BY <1>6, <2>1, <2>3, <3>1
      <3> QED BY <2>3, <3>1, <3>2 DEF InHand
    <2>5. Balance(l)'
      BY <1>2, <1>6, <2>1, <2>4 DEF Balance
    <2> QED BY <1>0, <1>6, <2>1, <2>2, <2>5, OtherLanes DEF TypeOK
  <1>10. ASSUME NEW l \in Lanes, Abandon(l) PROVE Conservation'
    <2>1. /\ Count(l, "undelivered", Len(batch[l]) + Len(queue[l]))
          /\ Len(batch'[l]) = 0 /\ Len(queue'[l]) = 0
          /\ UNCHANGED <<uncounted, carry>>
          /\ \A m \in Lanes \ {l} : batch'[m] = batch[m] /\ queue'[m] = queue[m]
      BY <1>0, <1>10 DEF Abandon, TypeOK
    <2>2. PICK b, h, q \in Nat : /\ Len(batch[l]) = b /\ Held(carry[l]) = h
                                  /\ Len(queue[l]) = q /\ InHand(l) = b + h + q
      BY <1>0, NamedNumbers
    <2>3. InHand(l)' = InHand(l) - (b + q) /\ Count(l, "undelivered", b + q)
      <3>1. Held(carry[l])' = h
        BY <2>1, <2>2
      <3> QED BY <2>1, <2>2, <3>1 DEF InHand
    <2>4. Balance(l)' /\ \A m \in Lanes \ {l} : stats'[m] = stats[m]
      BY <1>0, <2>1, <2>3, OutcomeBalance
    <2> QED BY <1>0, <2>1, <2>4, OtherLanes
  <1>11. ASSUME NEW l \in Lanes, Resume(l) PROVE Conservation'
    <2>1. UNCHANGED <<stats, uncounted, queue>>
      BY <1>11 DEF Resume, WorkerOnly
    <2>0. carry' = [carry EXCEPT ![l] = 0]
      BY <1>11 DEF Resume
    <2>2. CASE carry[l] # 0
      <3>1. carry[l] \in Events /\ Add(l, carry[l])
        BY <1>0, <1>11, <2>2 DEF Resume, TypeOK
      <3>2. Held(carry[l])' = 0 /\ Held(carry[l]) = 1
        BY <1>0, <2>0, <2>2 DEF Held, TypeOK
      <3>3. InHand(l)' = InHand(l) /\ \A m \in Lanes \ {l} : batch'[m] = batch[m]
        <4>1. /\ Len(batch[l])' = Len(batch[l]) + 1
              /\ \A m \in Lanes \ {l} : batch'[m] = batch[m]
          BY <1>0, <3>1, AddType
        <4>2. /\ Len(batch[l]) \in Nat /\ Held(carry[l]) \in Nat /\ Len(queue[l]) \in Nat
          BY <1>0, Numbers
        <4> QED BY <2>1, <3>2, <4>1, <4>2 DEF InHand
      <3>4. Balance(l)'
        BY <1>2, <2>1, <3>3 DEF Balance
      <3> QED BY <1>0, <2>0, <2>1, <3>3, <3>4, OtherLanes DEF TypeOK
    <2>3. CASE carry[l] = 0
      <3>1. UNCHANGED batch /\ \A m \in Lanes : carry'[m] = carry[m]
        BY <1>0, <1>11, <2>0, <2>3 DEF Resume, TypeOK
      <3>2. Balance(l)'
        BY <1>2, <2>1, <3>1 DEF Balance, InHand
      <3> QED BY <1>0, <2>1, <3>1, <3>2, OtherLanes
    <2> QED BY <2>2, <2>3
  <1>12. ASSUME NEW l \in Lanes,
                AttemptSucceeds(l) \/ AttemptAborted(l) \/ AttemptFinal(l) \/ SleepAborted(l)
         PROVE  Conservation'
    BY <1>12, EndBatchBalance
    DEF AttemptSucceeds, AttemptAborted, AttemptFinal, SleepAborted
  <1>13. ASSUME NEW l \in Lanes, AttemptRetries(l) PROVE Conservation'
    <2>1. /\ \A d \in Counters \ {"retries"} : stats'[l][d] = stats[l][d]
          /\ \A m \in Lanes \ {l} : stats'[m] = stats[m]
          /\ UNCHANGED <<uncounted, batch, carry, queue>>
      BY <1>0, <1>13 DEF AttemptRetries, Count, WorkerOnly, TypeOK, Counters
    <2>2. Balance(l)'
      BY <1>2, <2>1 DEF Balance, InHand, Counters
    <2> QED BY <1>0, <2>1, <2>2, OtherLanes
  <1>14. ASSUME NEW l \in Lanes,
                QueueClosed(l) \/ Flush(l) \/ BeginBatch(l) \/ ReporterTakes(l) \/ Wake(l)
         PROVE  Conservation'
    BY <1>1, <1>14 DEF QueueClosed, Flush, BeginBatch, ReporterTakes, Wake, WorkerOnly
  <1>15. CASE Start \/ CloseBegin \/ CloseDeadline \/ CloseJoined \/ CloseReturn
    BY <1>1, <1>15 DEF Start, CloseBegin, CloseDeadline, CloseJoined, CloseReturn,
                       CloseRest, workerVars
  <1>16. ASSUME NEW l \in Lanes, CloseCollect(l) PROVE Conservation'
    <2>1. /\ Count(l, "undelivered", Len(queue[l])) /\ Len(queue'[l]) = 0
          /\ UNCHANGED <<uncounted, batch, carry>>
          /\ \A m \in Lanes \ {l} : queue'[m] = queue[m]
      BY <1>0, <1>16 DEF CloseCollect, CloseRest, workerVars, TypeOK
    <2>2. InHand(l)' = InHand(l) - Len(queue[l])
      BY <1>0, <2>1, Numbers DEF InHand
    <2>3. Balance(l)' /\ \A m \in Lanes \ {l} : stats'[m] = stats[m]
      BY <1>0, <2>1, <2>2, Numbers, OutcomeBalance
    <2> QED BY <1>0, <2>1, <2>3, OtherLanes
  <1>17. CASE UNCHANGED vars
    BY <1>1, <1>17 DEF vars, workerVars
  <1> QED
    BY <1>3, <1>4, <1>5, <1>7, <1>8, <1>9, <1>10, <1>11, <1>12, <1>13, <1>14, <1>15, <1>16, <1>17
    DEF Next, Enqueue, Worker, Run, Deliver, Close, Terminated

\* In every reachable state the accepted events of every destination are those
\* the worker and the queue hold plus those counted in exactly one outcome.
THEOREM ConservationHolds == Spec => []Conservation
  <1>1. ConsInv /\ [Next]_vars => ConsInv'
    BY TypeStep, HandsFreeStep, ConservationStep DEF ConsInv
  <1>2. ConsInv => Conservation
    BY DEF ConsInv
  <1> QED BY ConsInit, <1>1, <1>2, PTL DEF Spec

-----------------------------------------------------------------------------
(* Shutdown: what may be given up, and when                                *)

\* LostOnlyAtDeadline is not inductive: it rests on why the abort context is
\* cancelled, on the drain (a worker is done only when its closed queue is
\* empty), and on what Close waited for.
AllDone == \A l \in Lanes : pc[l] = "done"

ShutdownInv ==
    /\ TypeInv
    /\ \A l \in Lanes : ~started => pc[l] = "new"
    /\ \A l \in Lanes : pc[l] = "done" => closed /\ queue[l] = <<>>
    /\ closed <=> closer # "open"
    /\ aborted => closed /\ (deadline \/ ~started \/ AllDone)
    /\ closer = "collecting" => ~started \/ AllDone
    /\ LostOnlyAtDeadline

LEMMA ShutdownInit == Init => ShutdownInv
  <1> SUFFICES ASSUME Init PROVE ShutdownInv
    OBVIOUS
  <1>1. TypeInv
    BY TypeInit
  <1>2. \A l \in Lanes : pc[l] = "new" /\ \A e \in Events : fate[l][e] = "none"
    BY DEF Init
  <1> QED BY <1>1, <1>2 DEF Init, ShutdownInv, LostOnlyAtDeadline

\* Events settled as anything but undelivered change nothing.
LEMMA SettleOther ==
    ASSUME TypeOK, LostOnlyAtDeadline, NEW l \in Lanes,
           NEW f \in Fates \ {"undelivered"}, NEW B, Settle(l, B, f),
           closed => closed', deadline => deadline', started' = started
    PROVE  LostOnlyAtDeadline'
  <1>1. \A m \in Lanes, e \in Events :
           fate'[m][e] = IF m = l /\ e \in B THEN f ELSE fate[m][e]
    BY SettleType DEF TypeOK
  <1> QED BY <1>1 DEF LostOnlyAtDeadline

\* Events may be settled as undelivered after the deadline, or without workers.
LEMMA SettleUndelivered ==
    ASSUME TypeOK, LostOnlyAtDeadline, NEW l \in Lanes, NEW B,
           Settle(l, B, "undelivered"), closed', deadline' \/ ~started',
           deadline => deadline', started' = started
    PROVE  LostOnlyAtDeadline'
  <1>1. \A m \in Lanes, e \in Events :
           fate'[m][e] = IF m = l /\ e \in B THEN "undelivered" ELSE fate[m][e]
    BY SettleType DEF TypeOK, Fates
  <1> QED BY <1>1 DEF LostOnlyAtDeadline

\* A step of lane l's worker, which is under way, so delivery has started.
LEMMA WorkerStep ==
    ASSUME ShutdownInv, TypeInv', NEW l \in Lanes, pc[l] \notin {"new", "done"},
           UNCHANGED closeVars, LostOnlyAtDeadline',
           \A m \in Lanes \ {l} : pc'[m] = pc[m] /\ queue'[m] = queue[m],
           pc'[l] = "done" => closed /\ queue'[l] = <<>>
    PROVE  ShutdownInv'
  <1>1. started /\ ~AllDone
    BY DEF ShutdownInv, AllDone
  <1> QED BY <1>1 DEF ShutdownInv, closeVars

LEMMA ShutdownStep == ShutdownInv /\ [Next]_vars => ShutdownInv'
  <1> SUFFICES ASSUME ShutdownInv, [Next]_vars PROVE ShutdownInv'
    OBVIOUS
  <1>0. TypeOK /\ TypeInv /\ TypeInv' /\ LostOnlyAtDeadline
    BY TypeStep DEF ShutdownInv, TypeInv
  <1>1. ASSUME NEW p \in Producers, NEW l \in Lanes, Enqueue(p, l) PROVE ShutdownInv'
    <2>1. LostOnlyAtDeadline'
      BY <1>0, <1>1, SettleOther
      DEF Enqueue, EnqueueSend, EnqueueCount, EnqueueDrop, closeVars, Fates, LostOnlyAtDeadline
    <2>2. UNCHANGED <<pc, closeVars>> /\ (closed => UNCHANGED queue)
      BY <1>1 DEF Enqueue, EnqueueSend, EnqueueCount, EnqueueDrop, workerVars
    <2> QED BY <1>0, <2>1, <2>2 DEF ShutdownInv, closeVars, AllDone
  <1>2. ASSUME NEW l \in Lanes,
               ReceiveUnencodable(l) \/ ReceiveIntoBatch(l) \/ ReceiveOverBudget(l)
        PROVE  ShutdownInv'
    <2>1. /\ Dequeue(l) /\ pc[l] = "select" /\ pc'[l] # "done"
          /\ \A m \in Lanes \ {l} : pc'[m] = pc[m]
      BY <1>0, <1>2
      DEF ReceiveUnencodable, ReceiveIntoBatch, ReceiveOverBudget, Dequeue, Add, workerVars, TypeOK
    <2>2. LostOnlyAtDeadline'
      BY <1>0, <1>2, <2>1, SettleOther
      DEF ReceiveUnencodable, ReceiveIntoBatch, ReceiveOverBudget, Dequeue, closeVars, Fates,
          LostOnlyAtDeadline
    <2> QED BY <1>0, <2>1, <2>2, WorkerStep DEF Dequeue, TypeOK
  <1>3. ASSUME NEW l \in Lanes, QueueClosed(l) \/ Flush(l) PROVE ShutdownInv'
    <2>1. /\ pc[l] = "select" /\ UNCHANGED <<queue, fate, closeVars>>
          /\ pc'[l] = "done" => closed /\ queue[l] = <<>>
          /\ \A m \in Lanes \ {l} : pc'[m] = pc[m]
      BY <1>0, <1>3 DEF QueueClosed, Flush, Goto, WorkerOnly, TypeOK
    <2>2. LostOnlyAtDeadline'
      BY <1>0, <2>1 DEF LostOnlyAtDeadline, closeVars
    <2> QED BY <1>0, <2>1, <2>2, WorkerStep
  <1>4. ASSUME NEW l \in Lanes, Abandon(l) PROVE ShutdownInv'
    <2>1. /\ pc[l] = "select" /\ aborted /\ UNCHANGED closeVars
          /\ queue'[l] = <<>>
          /\ \A m \in Lanes \ {l} : pc'[m] = pc[m] /\ queue'[m] = queue[m]
      BY <1>0, <1>4 DEF Abandon, Goto, TypeOK
    <2>2. closed /\ deadline
      BY <2>1 DEF ShutdownInv, AllDone
    <2>3. LostOnlyAtDeadline'
      BY <1>0, <1>4, <2>1, <2>2, SettleUndelivered DEF Abandon, closeVars
    <2> QED BY <1>0, <2>1, <2>2, <2>3, WorkerStep
  <1>5. ASSUME NEW l \in Lanes,
               Resume(l) \/ BeginBatch(l) \/ AttemptRetries(l) \/ Wake(l) \/ ReporterTakes(l)
        PROVE  ShutdownInv'
    <2>1. /\ pc[l] \notin {"new", "done"} /\ pc'[l] # "done"
          /\ UNCHANGED <<queue, fate, closeVars>>
          /\ \A m \in Lanes \ {l} : pc'[m] = pc[m]
      BY <1>0, <1>5
      DEF Resume, BeginBatch, AttemptRetries, Wake, ReporterTakes, Goto, Add, WorkerOnly, TypeOK
    <2>2. LostOnlyAtDeadline'
      BY <1>0, <2>1 DEF LostOnlyAtDeadline, closeVars
    <2> QED BY <1>0, <2>1, <2>2, WorkerStep
  <1>6. ASSUME NEW l \in Lanes, NEW c \in {"delivered", "failed", "undelivered"},
               EndBatch(l, c), pc[l] \in {"attempt", "sleep"}, c = "undelivered" => aborted
        PROVE  ShutdownInv'
    <2>1. /\ UNCHANGED <<queue, closeVars>> /\ pc'[l] = "resume"
          /\ \A m \in Lanes \ {l} : pc'[m] = pc[m]
          /\ Settle(l, Range(batch[l]), c)
      BY <1>0, <1>6 DEF EndBatch, Goto, WorkerOnly, TypeOK
    <2>2. CASE c = "undelivered"
      <3>1. closed /\ deadline
        BY <1>6, <2>2 DEF ShutdownInv, AllDone
      <3>2. LostOnlyAtDeadline'
        BY <1>0, <2>1, <2>2, <3>1, SettleUndelivered DEF closeVars
      <3> QED BY <1>0, <1>6, <2>1, <3>2, WorkerStep
    <2>3. CASE c # "undelivered"
      <3>1. LostOnlyAtDeadline'
        BY <1>0, <2>1, <2>3, SettleOther DEF closeVars, Fates
      <3> QED BY <1>0, <1>6, <2>1, <3>1, WorkerStep
    <2> QED BY <2>2, <2>3
  <1>7. CASE Start
    <2>1. LostOnlyAtDeadline'
      BY <1>0, <1>7 DEF Start, LostOnlyAtDeadline
    <2>2. UNCHANGED <<closed, aborted, closer, deadline, queue>> /\ ~closed
      BY <1>7 DEF Start
    <2>3. \A l \in Lanes : pc'[l] = "select"
      BY <1>7 DEF Start
    <2> QED BY <1>0, <1>7, <2>1, <2>2, <2>3 DEF Start, ShutdownInv, AllDone
  <1>8. CASE CloseBegin \/ CloseDeadline \/ CloseJoined \/ CloseReturn
    <2>1. UNCHANGED <<fate, queue, pc, started>>
      BY <1>8 DEF CloseBegin, CloseDeadline, CloseJoined, CloseReturn, CloseRest, workerVars
    <2>2. closed => closed'
      BY <1>8 DEF CloseBegin, CloseDeadline, CloseJoined, CloseReturn
    <2>3. deadline => deadline'
      BY <1>8 DEF CloseBegin, CloseDeadline, CloseJoined, CloseReturn
    <2>4. LostOnlyAtDeadline'
      BY <1>0, <2>1, <2>2, <2>3 DEF LostOnlyAtDeadline
    <2>5. \A l \in Lanes : /\ ~started' => pc'[l] = "new"
                           /\ pc'[l] = "done" => closed' /\ queue'[l] = <<>>
      BY <2>1, <2>2 DEF ShutdownInv
    <2>6. CASE CloseBegin
      BY <1>0, <2>1, <2>4, <2>5, <2>6 DEF CloseBegin, ShutdownInv, AllDone
    <2>7. CASE CloseDeadline
      BY <1>0, <2>1, <2>4, <2>5, <2>7 DEF CloseDeadline, ShutdownInv, AllDone
    <2>8. CASE CloseJoined
      BY <1>0, <2>1, <2>4, <2>5, <2>8 DEF CloseJoined, ShutdownInv, AllDone
    <2>9. CASE CloseReturn
      BY <1>0, <2>1, <2>4, <2>5, <2>9 DEF CloseReturn, ShutdownInv, AllDone
    <2> QED BY <1>8, <2>6, <2>7, <2>8, <2>9
  <1>9. ASSUME NEW l \in Lanes, CloseCollect(l) PROVE ShutdownInv'
    <2>1. /\ closer = "collecting" /\ queue[l] # <<>> /\ queue'[l] = <<>>
          /\ \A m \in Lanes \ {l} : queue'[m] = queue[m]
          /\ UNCHANGED <<pc, closeVars>>
      BY <1>0, <1>9 DEF CloseCollect, CloseRest, workerVars, closeVars, TypeOK
    <2>2. closed /\ ~started
      BY <2>1 DEF ShutdownInv, AllDone
    <2>3. LostOnlyAtDeadline'
      BY <1>0, <1>9, <2>1, <2>2, SettleUndelivered DEF CloseCollect, closeVars
    <2> QED BY <1>0, <2>1, <2>2, <2>3 DEF ShutdownInv, AllDone, closeVars
  <1>10. CASE UNCHANGED vars
    BY <1>0, <1>10 DEF ShutdownInv, AllDone, LostOnlyAtDeadline, vars, workerVars, closeVars
  <1>11. ASSUME NEW l \in Lanes,
                AttemptSucceeds(l) \/ AttemptAborted(l) \/ AttemptFinal(l) \/ SleepAborted(l)
         PROVE  ShutdownInv'
    BY <1>6, <1>11 DEF AttemptSucceeds, AttemptAborted, AttemptFinal, SleepAborted
  <1> QED
    BY <1>1, <1>2, <1>3, <1>4, <1>5, <1>7, <1>8, <1>9, <1>10, <1>11
    DEF Next, Worker, Run, Deliver, Close, Terminated

\* An event is given up only after Close was called, and only if the shutdown
\* deadline passed or delivery never started.
THEOREM LostOnlyAtDeadlineHolds == Spec => []LostOnlyAtDeadline
  <1>1. ShutdownInv => LostOnlyAtDeadline
    BY DEF ShutdownInv
  <1> QED BY ShutdownInit, ShutdownStep, <1>1, PTL DEF Spec

-----------------------------------------------------------------------------
(* Idempotency keys: one number, one batch                                *)

Sending(l) == pc[l] \in {"attempt", "sleep"}

\* KeysNameBatches is not inductive: a batch that was shown is shown again when
\* it is retried, and its number must still be no one else's.
KeyInv ==
    /\ TypeInv
    /\ \A l \in Lanes : Sending(l) => send[l].id <= batches
    /\ \A l, m \in Lanes : Sending(l) /\ Sending(m) /\ send[l].id = send[m].id => l = m
    /\ \A l \in Lanes : \A i \in DOMAIN received[l] : received[l][i].id <= batches
    /\ \A l, m \in Lanes : \A i \in DOMAIN received[m] :
          Sending(l) /\ received[m][i].id = send[l].id =>
              l = m /\ received[m][i].events = batch[l]
    /\ KeysNameBatches

LEMMA KeyInit == Init => KeyInv
  BY TypeInit DEF Init, KeyInv, Sending, KeysNameBatches

\* What the last element of a sequence is, and the others.
LEMMA AppendEach ==
    ASSUME NEW S, NEW s \in Seq(S), NEW e \in S
    PROVE  /\ Append(s, e) \in Seq(S)
           /\ DOMAIN Append(s, e) = DOMAIN s \cup {Len(s) + 1}
           /\ \A i \in DOMAIN s : Append(s, e)[i] = s[i]
           /\ Append(s, e)[Len(s) + 1] = e
  OBVIOUS

\* What a destination has received are numbered batches of events.
LEMMA ReceivedType ==
    ASSUME TypeOK, NEW l \in Lanes, NEW i \in DOMAIN received[l]
    PROVE  received[l][i].id \in Nat /\ received[l][i].events \in Seq(Events)
  <1> DEFINE R == [id : Nat, events : Seq(Events)]
  <1>1. received[l] \in Seq(R)
    BY DEF TypeOK
  <1>2. received[l][i] \in R
    <2> HIDE DEF R
    <2> QED BY <1>1
  <1> QED BY <1>2

\* A step that opens no batch and shows none: the batches under way stay as
\* they are, or end.
LEMMA KeysKept ==
    ASSUME KeyInv, TypeInv', UNCHANGED <<batches, received>>,
           \A l \in Lanes : Sending(l)' =>
               Sending(l) /\ send'[l].id = send[l].id /\ batch'[l] = batch[l]
    PROVE  KeyInv'
  BY DEF KeyInv, KeysNameBatches

LEMMA KeyStep == KeyInv /\ [Next]_vars => KeyInv'
  <1> SUFFICES ASSUME KeyInv, [Next]_vars PROVE KeyInv'
    OBVIOUS
  <1>0. TypeInv /\ TypeOK /\ TypeInv' /\ TypeOK'
    BY TypeStep DEF KeyInv, TypeInv
  <1>1. ASSUME NEW p \in Producers, NEW l \in Lanes, Enqueue(p, l) PROVE KeyInv'
    BY <1>0, <1>1, KeysKept
    DEF Enqueue, EnqueueSend, EnqueueCount, EnqueueDrop, workerVars, Sending
  <1>2. ASSUME NEW l \in Lanes, Run(l) PROVE KeyInv'
    <2>1. ASSUME pc[l] \notin {"attempt", "sleep"}, pc'[l] \notin {"attempt", "sleep"},
                 UNCHANGED <<batches, received, send>>,
                 \A m \in Lanes \ {l} : pc'[m] = pc[m] /\ batch'[m] = batch[m]
          PROVE  KeyInv'
      BY <1>0, <2>1, KeysKept DEF Sending
    <2>2. CASE ReceiveUnencodable(l) \/ QueueClosed(l) \/ Flush(l) \/ Abandon(l) \/ ReceiveOverBudget(l)
      BY <1>0, <2>1, <2>2
      DEF ReceiveUnencodable, Dequeue, QueueClosed, Flush, Abandon, ReceiveOverBudget, Goto,
          WorkerOnly, workerVars, TypeOK
    <2>3. CASE ReceiveIntoBatch(l) \/ Resume(l)
      <3>1. pc[l] \notin {"attempt", "sleep"} /\ UNCHANGED <<batches, received, send>>
        BY <2>3 DEF ReceiveIntoBatch, Resume, Dequeue, WorkerOnly
      <3>2. /\ batch' = [batch EXCEPT ![l] = batch'[l]] /\ pc'[l] \in {"select", "send"}
            /\ pc' = [pc EXCEPT ![l] = pc'[l]]
        <4>1. CASE \E e : Add(l, e)
          BY <1>0, <4>1 DEF Add, TypeOK
        <4>2. CASE Goto(l, "select") /\ UNCHANGED batch
          BY <1>0, <4>2 DEF Goto, TypeOK
        <4> QED BY <2>3, <4>1, <4>2 DEF ReceiveIntoBatch, Resume
      <3>4. pc'[l] \notin {"attempt", "sleep"} /\ \A m \in Lanes \ {l} : pc'[m] = pc[m] /\ batch'[m] = batch[m]
        BY <1>0, <3>2 DEF TypeOK
      <3> QED BY <2>1, <3>1, <3>4
    <2> QED BY <1>2, <2>2, <2>3 DEF Run
  <1>3. ASSUME NEW l \in Lanes, BeginBatch(l) PROVE KeyInv'
    <2>1. /\ batches' = batches + 1 /\ UNCHANGED <<received, batch>> /\ ~Sending(l)
          /\ send'[l].id = batches + 1
          /\ \A m \in Lanes \ {l} : Sending(m)' = Sending(m) /\ send'[m] = send[m]
      BY <1>0, <1>3 DEF BeginBatch, Goto, WorkerOnly, TypeOK, Sending
    <2>2. \A m \in Lanes : \A i \in DOMAIN received[m] : received[m][i].id \in Nat
      BY <1>0, ReceivedType
    <2>3. \A m \in Lanes : send[m].id \in Nat
      BY <1>0 DEF TypeOK
    <2>0. batches \in Nat
      BY <1>0 DEF TypeOK
    <2>4. \A m \in Lanes : Sending(m)' => send'[m].id <= batches'
      BY <2>0, <2>1, <2>3 DEF KeyInv
    <2>5. \A m \in Lanes : \A i \in DOMAIN received[m] : received[m][i].id < batches + 1
      BY <2>0, <2>2 DEF KeyInv
    <2>6. \A m \in Lanes : Sending(m) => send[m].id < batches + 1
      BY <2>0, <2>3 DEF KeyInv
    <2>7. KeysNameBatches'
      BY <2>1 DEF KeyInv, KeysNameBatches
    <2>8. \A k, m \in Lanes : (Sending(k) /\ Sending(m))' /\ send'[k].id = send'[m].id => k = m
      BY <2>1, <2>3, <2>6 DEF KeyInv
    <2>9. \A k, m \in Lanes : \A i \in DOMAIN received[m] :
             Sending(k)' /\ received[m][i].id = send'[k].id =>
                k = m /\ received[m][i].events = batch[k]
      BY <2>1, <2>2, <2>5 DEF KeyInv
    <2>10. \A m \in Lanes : \A i \in DOMAIN received[m] : received[m][i].id <= batches + 1
      BY <2>0, <2>2, <2>5
    <2> QED BY <1>0, <2>1, <2>4, <2>7, <2>8, <2>9, <2>10 DEF KeyInv
  <1>4. ASSUME NEW l \in Lanes, ReporterTakes(l) PROVE KeyInv'
    <2> DEFINE b == [id |-> send[l].id, events |-> batch[l]]
               R == [id : Nat, events : Seq(Events)]
    <2>1. /\ UNCHANGED <<pc, batch, batches>> /\ Sending(l)
          /\ \A m \in Lanes : Sending(m)' = Sending(m) /\ send'[m].id = send[m].id
      BY <1>0, <1>4 DEF ReporterTakes, TypeOK, Sending
    <2>2. /\ received'[l] = Append(received[l], b)
          /\ \A m \in Lanes \ {l} : received'[m] = received[m]
          /\ received[l] \in Seq(R)
      BY <1>0, <1>4 DEF ReporterTakes, TypeOK
    <2>3. \A m \in Lanes : \A i \in DOMAIN received'[m] :
             \/ i \in DOMAIN received[m] /\ received'[m][i] = received[m][i]
             \/ m = l /\ received'[m][i] = b
      <3>1. b \in R
        BY <1>0 DEF TypeOK
      <3>2. /\ DOMAIN received'[l] = DOMAIN received[l] \cup {Len(received[l]) + 1}
            /\ \A i \in DOMAIN received[l] : received'[l][i] = received[l][i]
            /\ received'[l][Len(received[l]) + 1] = b
        <4> HIDE DEF b, R
        <4> QED BY <2>2, <3>1, AppendEach
      <3> HIDE DEF b, R
      <3> TAKE m \in Lanes
      <3>3. CASE m = l
        BY <3>2, <3>3
      <3>4. CASE m # l
        BY <2>2, <3>4
      <3> QED BY <3>3, <3>4
    <2>4. b.id = send[l].id /\ b.events = batch[l]
      OBVIOUS
    <2> HIDE DEF b
    <2> QED BY <1>0, <2>1, <2>3, <2>4 DEF KeyInv, KeysNameBatches
  <1>5. ASSUME NEW l \in Lanes,
               AttemptSucceeds(l) \/ AttemptAborted(l) \/ AttemptFinal(l) \/ SleepAborted(l)
               \/ AttemptRetries(l) \/ Wake(l)
        PROVE  KeyInv'
    <2>1. UNCHANGED <<batches, received>> /\ Sending(l)
      BY <1>5
      DEF AttemptSucceeds, AttemptAborted, AttemptFinal, SleepAborted, AttemptRetries, Wake,
          EndBatch, WorkerOnly, Sending
    <2>2. \A m \in Lanes : pc'[m] = pc[m] \/ m = l
      BY <1>0, <1>5
      DEF AttemptSucceeds, AttemptAborted, AttemptFinal, SleepAborted, AttemptRetries, Wake,
          EndBatch, Goto, TypeOK
    <2>3. \A m \in Lanes : send'[m].id = send[m].id
      <3>1. CASE Wake(l)
        BY <1>0, <3>1 DEF Wake, TypeOK
      <3>2. CASE ~Wake(l)
        BY <1>5, <3>2
        DEF AttemptSucceeds, AttemptAborted, AttemptFinal, SleepAborted, AttemptRetries, EndBatch
      <3> QED BY <3>1, <3>2
    <2>4. \A m \in Lanes : batch'[m] = batch[m] \/ (m = l /\ pc'[l] = "resume")
      BY <1>0, <1>5
      DEF AttemptSucceeds, AttemptAborted, AttemptFinal, SleepAborted, AttemptRetries, Wake,
          EndBatch, Goto, TypeOK
    <2>5. \A m \in Lanes : Sending(m)' => Sending(m) /\ batch'[m] = batch[m]
      BY <2>1, <2>2, <2>4 DEF Sending
    <2> QED BY <1>0, <2>1, <2>3, <2>5, KeysKept
  <1>6. CASE Start \/ Close \/ UNCHANGED vars
    BY <1>0, <1>6, KeysKept
    DEF Start, Close, CloseBegin, CloseDeadline, CloseJoined, CloseReturn, CloseCollect,
        CloseRest, vars, workerVars, Sending
  <1> QED BY <1>1, <1>2, <1>3, <1>4, <1>5, <1>6 DEF Next, Worker, Deliver, Terminated

\* The idempotency key of a batch is never given to another batch.
THEOREM KeysNameBatchesHolds == Spec => []KeysNameBatches
  <1>1. KeyInv => KeysNameBatches
    BY DEF KeyInv
  <1> QED BY KeyInit, KeyStep, <1>1, PTL DEF Spec

-----------------------------------------------------------------------------
(* Order: what a destination is shown, and when                            *)

\* The event lane l's worker holds back, and all it and its queue hold.
Carried(l) == {carry[l]} \ {0}
Hands(l) == Range(batch[l]) \cup Carried(l) \cup Range(queue[l])

Before(A, B) == \A a \in A, b \in B : a < b

\* A lane's batch, the event held back and its queue are one line of events,
\* oldest first, and they are the pending ones.
InLine(l) ==
    /\ Ascending(batch[l]) /\ Ascending(queue[l])
    /\ Before(Range(batch[l]), Carried(l)) /\ Before(Range(batch[l]), Range(queue[l]))
    /\ Before(Carried(l), Range(queue[l]))

Owing(l) ==
    \A e \in Events : /\ fate[l][e] = "pending" <=> e \in Hands(l)
                      /\ e > calls => fate[l][e] = "none"

\* A batch is sent only if there is one, and is gone when its send is over.
Places(l) == /\ pc[l] \in {"new", "resume", "done"} => batch[l] = <<>>
             /\ pc[l] \in {"send", "attempt", "sleep"} => batch[l] # <<>>

\* What destination l has received is the batch under way, or older than
\* everything lane l holds.
Current(l) == [id |-> send[l].id, events |-> batch[l]]
Past(l, s) == \A e \in Range(s) : e <= calls /\ \A f \in Hands(l) : e < f
Shown(l) ==
    \A i \in DOMAIN received[l] :
        /\ Ascending(received[l][i].events)
        /\ \/ Sending(l) /\ received[l][i] = Current(l)
           \/ Past(l, received[l][i].events)

LaneOrder(l) == InLine(l) /\ Owing(l) /\ Places(l) /\ Shown(l)

OrderInv == ConsInv /\ InOrder /\ \A l \in Lanes : LaneOrder(l)

\* The empty sequence.
LEMMA EmptyFacts == Range(<<>>) = {} /\ Ascending(<<>>)
  BY DEF Range, Ascending

LEMMA RangeType ==
    ASSUME NEW s \in Seq(Events)
    PROVE  /\ Range(s) \subseteq Events /\ Range(s) \subseteq Nat
           /\ s # <<>> => Range(s) # {}
  <1>0. Events \subseteq Nat
    BY EnvironmentAssumption DEF Events
  <1>1. \A i \in DOMAIN s : s[i] \in Events
    OBVIOUS
  <1>2. s # <<>> => 1 \in DOMAIN s
    OBVIOUS
  <1> QED BY <1>0, <1>1, <1>2 DEF Range

\* An event that is newer than a line joins it at its end.
LEMMA AppendFacts ==
    ASSUME NEW s \in Seq(Events), NEW e \in Events
    PROVE  /\ Append(s, e) \in Seq(Events)
           /\ Range(Append(s, e)) = Range(s) \cup {e}
           /\ Ascending(s) /\ Before(Range(s), {e}) => Ascending(Append(s, e))
  <1> DEFINE t == Append(s, e)
  <1>1. /\ t \in Seq(Events) /\ DOMAIN t = 1..(Len(s) + 1) /\ DOMAIN s = 1..Len(s)
        /\ Len(s) \in Nat
        /\ \A i \in 1..Len(s) : t[i] = s[i]
        /\ t[Len(s) + 1] = e
    OBVIOUS
  <1> HIDE DEF t
  <1>2. Range(t) = Range(s) \cup {e}
    BY <1>1 DEF Range
  <1>3. Ascending(s) /\ Before(Range(s), {e}) => Ascending(t)
    <2> SUFFICES ASSUME Ascending(s), Before(Range(s), {e}),
                        NEW i \in DOMAIN t, NEW j \in DOMAIN t, i < j
                 PROVE  t[i] < t[j]
      BY DEF Ascending
    <2>1. CASE j \in 1..Len(s)
      BY <1>1, <2>1 DEF Ascending
    <2>2. CASE j = Len(s) + 1
      BY <1>1, <2>2 DEF Before, Range
    <2> QED BY <1>1, <2>1, <2>2
  <1> QED BY <1>1, <1>2, <1>3 DEF t

\* The first of a line is older than the rest.
LEMMA TailFacts ==
    ASSUME NEW s \in Seq(Events), s # <<>>
    PROVE  /\ Head(s) \in Events /\ Tail(s) \in Seq(Events)
           /\ Range(s) = {Head(s)} \cup Range(Tail(s))
           /\ Ascending(s) => Ascending(Tail(s)) /\ Before({Head(s)}, Range(Tail(s)))
  <1> DEFINE t == Tail(s)
  <1>1. /\ t \in Seq(Events) /\ DOMAIN t = 1..(Len(s) - 1) /\ DOMAIN s = 1..Len(s)
        /\ Len(s) \in Nat \ {0}
        /\ \A i \in 1..(Len(s) - 1) : t[i] = s[i + 1]
        /\ Head(s) = s[1] /\ Head(s) \in Events
    OBVIOUS
  <1> HIDE DEF t
  <1>2. Range(s) = {Head(s)} \cup Range(t)
    <2>1. ASSUME NEW x \in Range(s) PROVE x \in {Head(s)} \cup Range(t)
      <3>1. PICK i \in 1..Len(s) : x = s[i]
        BY <1>1 DEF Range
      <3>2. CASE i = 1
        BY <1>1, <3>1, <3>2
      <3>3. CASE i # 1
        <4>1. i - 1 \in 1..(Len(s) - 1) /\ (i - 1) + 1 = i
          BY <1>1, <3>3
        <4>2. x = t[i - 1]
          BY <1>1, <3>1, <4>1
        <4> QED BY <1>1, <4>1, <4>2 DEF Range
      <3> QED BY <3>2, <3>3
    <2>2. Head(s) \in Range(s)
      BY <1>1 DEF Range
    <2>3. ASSUME NEW x \in Range(t) PROVE x \in Range(s)
      BY <1>1 DEF Range
    <2> QED BY <2>1, <2>2, <2>3
  <1>3. Ascending(s) => Ascending(t)
    BY <1>1 DEF Ascending
  <1>4. Ascending(s) => Before({Head(s)}, Range(t))
    <2> SUFFICES ASSUME Ascending(s), NEW y \in Range(t) PROVE Head(s) < y
      BY DEF Before
    <2>1. PICK i \in 1..(Len(s) - 1) : y = t[i]
      BY <1>1 DEF Range
    <2>2. y = s[i + 1] /\ i + 1 \in DOMAIN s /\ 1 \in DOMAIN s /\ 1 < i + 1
      BY <1>1, <2>1
    <2> QED BY <1>1, <2>2 DEF Ascending
  <1> QED BY <1>1, <1>2, <1>3, <1>4 DEF t

LEMMA OrderInit == Init => OrderInv
  <1> SUFFICES ASSUME Init PROVE OrderInv
    OBVIOUS
  <1>1. ASSUME NEW l \in Lanes PROVE LaneOrder(l)
    <2>1. /\ batch[l] = <<>> /\ queue[l] = <<>> /\ received[l] = <<>> /\ pc[l] = "new"
          /\ Carried(l) = {} /\ \A e \in Events : fate[l][e] = "none"
      BY <1>1 DEF Init, Carried
    <2> QED BY <2>1, EmptyFacts
            DEF LaneOrder, InLine, Owing, Places, Shown, Hands, Before
  <1>2. InOrder
    BY DEF Init, InOrder
  <1> QED BY <1>1, <1>2, ConsInit DEF OrderInv

\* The types and ranges the steps below need of one lane.
LEMMA LaneTypes ==
    ASSUME TypeOK, NEW l \in Lanes
    PROVE  /\ batch[l] \in Seq(Events) /\ queue[l] \in Seq(Events)
           /\ Range(batch[l]) \subseteq Events /\ Range(queue[l]) \subseteq Events
           /\ Carried(l) \subseteq Events
           /\ Hands(l) \subseteq Events /\ Events \subseteq Nat /\ calls \in Nat
           /\ 0 \notin Events
  <1>1. batch[l] \in Seq(Events) /\ queue[l] \in Seq(Events) /\ carry[l] \in Events \cup {0}
    BY DEF TypeOK
  <1>2. Events \subseteq Nat /\ calls \in Nat /\ 0 \notin Events
    BY EnvironmentAssumption DEF TypeOK, Events
  <1> QED BY <1>1, <1>2, RangeType DEF Carried, Hands

\* A step that moves nothing, and leaves the batches under way as they are.
LEMMA OrderKept ==
    ASSUME OrderInv, ConsInv', UNCHANGED <<calls, fate, queue, batch, carry, received>>,
           \A l \in Lanes : /\ pc'[l] = pc[l] \/ Places(l)'
                            /\ Sending(l) => Sending(l)' /\ send'[l].id = send[l].id
    PROVE  OrderInv'
  <1>1. InOrder'
    BY DEF OrderInv, InOrder
  <1>2. ASSUME NEW l \in Lanes PROVE LaneOrder(l)'
    <2>1. LaneOrder(l) /\ Hands(l)' = Hands(l) /\ Carried(l)' = Carried(l)
      BY DEF OrderInv, Hands, Carried
    <2>2. InLine(l)' /\ Owing(l)'
      BY <2>1 DEF LaneOrder, InLine, Owing
    <2>3. Places(l)'
      BY <2>1 DEF LaneOrder, Places
    <2>4. Shown(l)'
      BY <2>1 DEF LaneOrder, Shown, Past, Current
    <2> QED BY <2>2, <2>3, <2>4 DEF LaneOrder
  <1> QED BY <1>1, <1>2 DEF OrderInv

\* A step of lane l that shows its destination nothing.
LEMMA OrderLane ==
    ASSUME OrderInv, ConsInv', NEW l \in Lanes, LaneOrder(l)',
           UNCHANGED received, calls' \in Nat, calls' >= calls,
           \A m \in Lanes \ {l} :
              /\ pc'[m] = pc[m] /\ batch'[m] = batch[m] /\ queue'[m] = queue[m]
              /\ carry'[m] = carry[m] /\ send'[m] = send[m] /\ fate'[m] = fate[m]
    PROVE  OrderInv'
  <1>1. InOrder'
    BY DEF OrderInv, InOrder
  <1>2. ASSUME NEW m \in Lanes \ {l} PROVE LaneOrder(m)'
    <2>1. LaneOrder(m) /\ Hands(m)' = Hands(m) /\ Carried(m)' = Carried(m)
      BY DEF OrderInv, Hands, Carried
    <2>2. calls \in Nat /\ Events \subseteq Nat
      BY LaneTypes DEF OrderInv, ConsInv, TypeInv
    <2>3. InLine(m)' /\ Places(m)'
      BY <2>1 DEF LaneOrder, InLine, Places
    <2>4. Owing(m)'
      <3> SUFFICES ASSUME NEW e \in Events
                   PROVE  /\ fate'[m][e] = "pending" <=> e \in Hands(m)'
                          /\ e > calls' => fate'[m][e] = "none"
        BY DEF Owing
      <3>1. e \in Nat /\ (e > calls' => e > calls)
        BY <2>2
      <3> QED BY <2>1, <3>1 DEF LaneOrder, Owing
    <2>5. Shown(m)'
      <3> SUFFICES ASSUME NEW i \in DOMAIN received[m]
                   PROVE  /\ Ascending(received[m][i].events)
                          /\ \/ Sending(m)' /\ received[m][i] = Current(m)'
                             \/ Past(m, received[m][i].events)'
        BY DEF Shown
      <3>1. received[m][i].events \in Seq(Events)
        BY ReceivedType DEF OrderInv, ConsInv, TypeInv
      <3>2. Range(received[m][i].events) \subseteq Nat
        BY <3>1, RangeType
      <3>3. Past(m, received[m][i].events) => Past(m, received[m][i].events)'
        BY <2>1, <2>2, <3>2 DEF Past
      <3> QED BY <2>1, <3>3 DEF LaneOrder, Shown, Current, Sending
    <2> QED BY <2>3, <2>4, <2>5 DEF LaneOrder
  <1> QED BY <1>1, <1>2 DEF OrderInv

\* What lane l holds shrinks or stays, or grows by a new call; then what was in
\* the past still is.
LEMMA ShownKept ==
    ASSUME OrderInv, NEW l \in Lanes, received'[l] = received[l],
           calls' \in Nat, calls' >= calls,
           \A e \in Hands(l)' : e \in Hands(l) \/ e > calls,
           Hands(l)' \subseteq Nat,
           Sending(l) => \/ Sending(l)' /\ Current(l)' = Current(l)
                         \/ \A e \in Hands(l)' : e \notin Range(batch[l])
    PROVE  Shown(l)'
  <1>0. LaneOrder(l) /\ TypeOK
    BY DEF OrderInv, ConsInv, TypeInv
  <1>1. calls \in Nat /\ Events \subseteq Nat /\ Hands(l) \subseteq Events
    BY <1>0, LaneTypes
  <1> SUFFICES ASSUME NEW i \in DOMAIN received[l]
               PROVE  /\ Ascending(received[l][i].events)
                      /\ \/ Sending(l)' /\ received[l][i] = Current(l)'
                         \/ Past(l, received[l][i].events)'
    BY DEF Shown
  <1> DEFINE s == received[l][i].events
  <1>2. Ascending(s)
    BY <1>0 DEF LaneOrder, Shown
  <1>3. Range(s) \subseteq Nat
    BY <1>0, ReceivedType, RangeType
  <1>4. Past(l, s) => Past(l, s)'
    BY <1>1, <1>3 DEF Past
  <1>5. ASSUME Sending(l), received[l][i] = Current(l), \A e \in Hands(l)' : e \notin Range(batch[l])
        PROVE  Past(l, s)'
    <2>1. s = batch[l]
      BY <1>5 DEF Current
    <2>2. \A e \in Range(s) : e <= calls
      <3> SUFFICES ASSUME NEW e \in Range(batch[l]) PROVE ~(e > calls)
        BY <1>1, <1>3, <2>1
      <3>1. e \in Events /\ e \in Hands(l)
        BY <1>1 DEF Hands
      <3> QED BY <1>0, <3>1 DEF LaneOrder, Owing
    <2>3. \A e \in Range(s), f \in Hands(l)' : e < f
      BY <1>0, <1>1, <1>3, <1>5, <2>1, <2>2 DEF LaneOrder, InLine, Hands, Before
    <2> QED BY <1>1, <1>3, <2>2, <2>3 DEF Past
  <1> QED BY <1>0, <1>2, <1>4, <1>5 DEF LaneOrder, Shown

\* Nothing a lane holds is newer than the last call.
LEMMA HandsOld ==
    ASSUME OrderInv, NEW l \in Lanes, NEW e \in Hands(l)
    PROVE  e \in Events /\ e \in Nat /\ e <= calls
  <1>1. LaneOrder(l) /\ TypeOK
    BY DEF OrderInv, ConsInv, TypeInv
  <1>2. e \in Events /\ e \in Nat /\ calls \in Nat
    BY <1>1, LaneTypes
  <1>3. ~(e > calls)
    BY <1>1, <1>2 DEF LaneOrder, Owing
  <1> QED BY <1>2, <1>3

\* An event that joins the queue is the newest.
LEMMA OrderSend ==
    ASSUME OrderInv, ConsInv', NEW p \in Producers, NEW l \in Lanes, EnqueueSend(p, l)
    PROVE  OrderInv'
  <1>0. LaneOrder(l) /\ TypeOK
    BY DEF OrderInv, ConsInv, TypeInv
  <1> DEFINE n == calls + 1
  <1>1. n \in Events /\ n \in Nat /\ calls \in Nat /\ calls' = n /\ n > calls
        /\ \A e \in Nat : (e <= calls <=> e < n) /\ (e > n => e > calls /\ e # n)
    BY <1>0, EnvironmentAssumption DEF EnqueueSend, TypeOK, Events
  <1>2. /\ queue'[l] = Append(queue[l], n)
        /\ \A m \in Lanes \ {l} : queue'[m] = queue[m]
        /\ UNCHANGED <<pc, batch, carry, send, received>>
        /\ Settle(l, {n}, "pending")
    BY <1>0 DEF EnqueueSend, workerVars, TypeOK
  <1>3. \A m \in Lanes, e \in Events : fate'[m][e] = IF m = l /\ e \in {n} THEN "pending" ELSE fate[m][e]
    BY <1>0, <1>2, SettleType DEF TypeOK, Fates
  <1>4. \A m \in Lanes \ {l} : fate'[m] = fate[m]
    BY <1>0, <1>2 DEF Settle, TypeOK
  <1> HIDE DEF n
  <1>5. \A e \in Hands(l) : e \in Nat /\ e < n
    <2> SUFFICES ASSUME NEW e \in Hands(l) PROVE e \in Nat /\ e < n
      OBVIOUS
    <2>1. e \in Nat /\ e <= calls
      BY HandsOld
    <2> QED BY <1>1, <2>1
  <1>6. Range(queue'[l]) = Range(queue[l]) \cup {n} /\ Carried(l)' = Carried(l)
    <2>1. queue[l] \in Seq(Events)
      BY <1>0, LaneTypes
    <2>2. Range(queue'[l]) = Range(queue[l]) \cup {n}
      BY <1>1, <1>2, <2>1, AppendFacts
    <2> QED BY <1>2, <2>2 DEF Carried
  <1>61. Hands(l)' = Hands(l) \cup {n}
    BY <1>2, <1>6 DEF Hands
  <1>7. InLine(l)'
    <2>1. Ascending(queue'[l])
      <3>1. queue[l] \in Seq(Events) /\ Ascending(queue[l])
        BY <1>0, LaneTypes DEF LaneOrder, InLine
      <3>2. Before(Range(queue[l]), {n})
        BY <1>5 DEF Before, Hands
      <3> QED BY <1>1, <1>2, <3>1, <3>2, AppendFacts
    <2>2. Before(Range(batch[l]), {n}) /\ Before(Carried(l), {n})
      BY <1>5 DEF Before, Hands
    <2> QED BY <1>0, <1>2, <1>6, <2>1, <2>2 DEF LaneOrder, InLine, Before
  <1>8. Owing(l)'
    <2> SUFFICES ASSUME NEW e \in Events
                 PROVE  /\ fate'[l][e] = "pending" <=> e \in Hands(l)'
                        /\ e > calls' => fate'[l][e] = "none"
      BY DEF Owing
    <2>1. e \in Nat /\ (e > n => e > calls /\ e # n)
      BY <1>0, <1>1, LaneTypes
    <2>2. fate'[l][e] = IF e = n THEN "pending" ELSE fate[l][e]
      BY <1>3
    <2> QED BY <1>0, <1>1, <1>61, <2>1, <2>2 DEF LaneOrder, Owing
  <1>9. Places(l)'
    BY <1>0, <1>2 DEF LaneOrder, Places
  <1>10. Shown(l)'
    <2>1. /\ \A e \in Hands(l)' : e \in Hands(l) \/ e > calls
          /\ Hands(l)' \subseteq Nat
      <3> SUFFICES ASSUME NEW e \in Hands(l)' PROVE (e \in Hands(l) \/ e > calls) /\ e \in Nat
        OBVIOUS
      <3>1. CASE e = n
        BY <1>1, <3>1
      <3>2. CASE e # n
        BY <1>5, <1>61, <3>2
      <3> QED BY <3>1, <3>2
    <2>2. Sending(l)' = Sending(l) /\ Current(l)' = Current(l) /\ received'[l] = received[l]
      BY <1>2 DEF Sending, Current
    <2>3. calls' \in Nat /\ calls' >= calls
      BY <1>1
    <2> QED BY <2>1, <2>2, <2>3, ShownKept
  <1>11. LaneOrder(l)'
    BY <1>7, <1>8, <1>9, <1>10 DEF LaneOrder
  <1>12. calls' \in Nat /\ calls' >= calls
    BY <1>1
  <1> QED BY <1>2, <1>4, <1>11, <1>12, OrderLane

\* Lane l's hands lose the events B, which settle; what stays keeps its place.
LEMMA OrderSettle ==
    ASSUME OrderInv, ConsInv', NEW l \in Lanes, NEW B, NEW f \in Fates \ {"none", "pending"},
           Settle(l, B, f), UNCHANGED <<calls, received>>,
           B \subseteq Hands(l), Hands(l)' = Hands(l) \ B,
           InLine(l)', Places(l)',
           Sending(l) => B = Range(batch[l]),
           \A m \in Lanes \ {l} :
              /\ pc'[m] = pc[m] /\ batch'[m] = batch[m] /\ queue'[m] = queue[m]
              /\ carry'[m] = carry[m] /\ send'[m] = send[m]
    PROVE  OrderInv'
  <1>0. LaneOrder(l) /\ TypeOK
    BY DEF OrderInv, ConsInv, TypeInv
  <1>1. \A m \in Lanes, e \in Events : fate'[m][e] = IF m = l /\ e \in B THEN f ELSE fate[m][e]
    BY <1>0, SettleType DEF TypeOK
  <1>2. \A m \in Lanes \ {l} : fate'[m] = fate[m]
    BY <1>0 DEF Settle, TypeOK
  <1>3. calls \in Nat /\ \A e \in Hands(l) : e \in Nat /\ e <= calls
    BY <1>0, HandsOld, LaneTypes
  <1>4. Owing(l)'
    <2> SUFFICES ASSUME NEW e \in Events
                 PROVE  /\ fate'[l][e] = "pending" <=> e \in Hands(l)'
                        /\ e > calls => fate'[l][e] = "none"
      BY DEF Owing
    <2>1. e \in Nat /\ (e > calls => e \notin B)
      BY <1>0, <1>3, LaneTypes
    <2> QED BY <1>0, <1>1, <2>1 DEF LaneOrder, Owing
  <1>5. Shown(l)'
    <2>1. /\ \A e \in Hands(l)' : e \in Hands(l) /\ e \notin B
          /\ Hands(l)' \subseteq Nat
      BY <1>3
    <2> QED BY <1>3, <2>1, ShownKept
  <1>6. LaneOrder(l)'
    BY <1>4, <1>5 DEF LaneOrder
  <1> QED BY <1>2, <1>3, <1>6, OrderLane

\* Lane l's events change hands.
LEMMA OrderMove ==
    ASSUME OrderInv, ConsInv', NEW l \in Lanes, UNCHANGED <<calls, received, fate>>,
           Hands(l)' = Hands(l), InLine(l)', Places(l)', ~Sending(l),
           \A m \in Lanes \ {l} :
              /\ pc'[m] = pc[m] /\ batch'[m] = batch[m] /\ queue'[m] = queue[m]
              /\ carry'[m] = carry[m] /\ send'[m] = send[m]
    PROVE  OrderInv'
  <1>0. LaneOrder(l) /\ TypeOK
    BY DEF OrderInv, ConsInv, TypeInv
  <1>1. calls \in Nat /\ \A e \in Hands(l) : e \in Nat
    BY <1>0, HandsOld, LaneTypes
  <1>2. Owing(l)'
    BY <1>0 DEF LaneOrder, Owing
  <1>3. Shown(l)'
    <2>1. /\ \A e \in Hands(l)' : e \in Hands(l)
          /\ Hands(l)' \subseteq Nat
      BY <1>1
    <2> QED BY <1>1, <2>1, ShownKept
  <1>4. LaneOrder(l)'
    BY <1>2, <1>3 DEF LaneOrder
  <1> QED BY <1>1, <1>4, OrderLane

\* A call whose event is dropped is only counted.
LEMMA OrderDrop ==
    ASSUME OrderInv, ConsInv', NEW p \in Producers, NEW l \in Lanes, EnqueueDrop(p, l)
    PROVE  OrderInv'
  <1>0. LaneOrder(l) /\ TypeOK
    BY DEF OrderInv, ConsInv, TypeInv
  <1> DEFINE n == calls + 1
  <1>1. n \in Nat /\ calls \in Nat /\ calls' = n /\ calls' \in Nat /\ calls' >= calls
        /\ \A e \in Nat : (e <= calls => e # n) /\ (e > n => e > calls /\ e # n)
    BY <1>0 DEF EnqueueDrop, TypeOK
  <1>2. UNCHANGED <<queue, pc, batch, carry, send, received>> /\ Settle(l, {n}, "dropped")
    BY DEF EnqueueDrop, workerVars
  <1>3. \A m \in Lanes, e \in Events : fate'[m][e] = IF m = l /\ e \in {n} THEN "dropped" ELSE fate[m][e]
    BY <1>0, <1>2, SettleType DEF TypeOK, Fates
  <1>4. \A m \in Lanes \ {l} : fate'[m] = fate[m]
    BY <1>0, <1>2 DEF Settle, TypeOK
  <1> HIDE DEF n
  <1>5. Hands(l)' = Hands(l) /\ Carried(l)' = Carried(l)
    BY <1>2 DEF Hands, Carried
  <1>6. InLine(l)' /\ Places(l)'
    BY <1>0, <1>2, <1>5 DEF LaneOrder, InLine, Places
  <1>7. Owing(l)'
    <2> SUFFICES ASSUME NEW e \in Events
                 PROVE  /\ fate'[l][e] = "pending" <=> e \in Hands(l)'
                        /\ e > calls' => fate'[l][e] = "none"
      BY DEF Owing
    <2>1. e \in Nat /\ (e > n => e > calls /\ e # n)
      BY <1>0, <1>1, LaneTypes
    <2>2. e \in Hands(l) => e # n
      BY <1>1, HandsOld
    <2>3. fate'[l][e] = IF e = n THEN "dropped" ELSE fate[l][e]
      BY <1>3
    <2> QED BY <1>0, <1>1, <1>5, <2>1, <2>2, <2>3 DEF LaneOrder, Owing
  <1>8. Shown(l)'
    <2>1. Hands(l)' \subseteq Nat /\ \A e \in Hands(l)' : e \in Hands(l)
      BY <1>5, HandsOld
    <2>2. Sending(l)' = Sending(l) /\ Current(l)' = Current(l) /\ received'[l] = received[l]
      BY <1>2 DEF Sending, Current
    <2> QED BY <1>1, <2>1, <2>2, ShownKept
  <1>9. LaneOrder(l)'
    BY <1>6, <1>7, <1>8 DEF LaneOrder
  <1> QED BY <1>1, <1>2, <1>4, <1>9, OrderLane

\* What the worker receives is the oldest event of its queue, and newer than its
\* batch; it holds no event back.
LEMMA DequeueFacts ==
    ASSUME OrderInv, NEW l \in Lanes, Dequeue(l)
    PROVE  LET h == Head(queue[l]) IN
           /\ h \in Events /\ carry[l] = 0 /\ Carried(l) = {} /\ ~Sending(l)
           /\ queue'[l] = Tail(queue[l]) /\ \A m \in Lanes \ {l} : queue'[m] = queue[m]
           /\ Range(queue[l]) = {h} \cup Range(queue'[l])
           /\ Ascending(queue'[l])
           /\ Before(Range(batch[l]), {h}) /\ Before({h}, Range(queue'[l]))
           /\ Before(Range(batch[l]), Range(queue'[l]))
           /\ Hands(l) = Range(batch[l]) \cup {h} \cup Range(queue'[l])
           /\ h \notin Range(batch[l]) /\ h \notin Range(queue'[l])
           /\ Range(batch[l]) \subseteq Nat
  <1> DEFINE h == Head(queue[l])
  <1>0. LaneOrder(l) /\ TypeOK
    BY DEF OrderInv, ConsInv, TypeInv
  <1>1. /\ queue[l] \in Seq(Events) /\ queue[l] # <<>> /\ pc[l] = "select"
        /\ queue'[l] = Tail(queue[l]) /\ \A m \in Lanes \ {l} : queue'[m] = queue[m]
    BY <1>0, LaneTypes DEF Dequeue, TypeOK
  <1>2. carry[l] = 0
    BY <1>1 DEF OrderInv, ConsInv, HandsFree
  <1>3. Carried(l) = {} /\ ~Sending(l)
    BY <1>1, <1>2 DEF Carried, Sending
  <1>4. Ascending(queue[l]) /\ Before(Range(batch[l]), Range(queue[l]))
    BY <1>0 DEF LaneOrder, InLine
  <1>5. /\ h \in Events /\ Range(queue[l]) = {h} \cup Range(queue'[l])
        /\ Ascending(queue'[l]) /\ Before({h}, Range(queue'[l]))
    BY <1>1, <1>4, TailFacts
  <1> HIDE DEF h
  <1>6. Before(Range(batch[l]), {h}) /\ Before(Range(batch[l]), Range(queue'[l]))
    BY <1>4, <1>5 DEF Before
  <1>7. h \in Nat /\ Range(batch[l]) \subseteq Nat
    BY <1>0, <1>5, LaneTypes
  <1>8. h \notin Range(batch[l]) /\ h \notin Range(queue'[l])
    BY <1>5, <1>6, <1>7 DEF Before
  <1>9. Hands(l) = Range(batch[l]) \cup {h} \cup Range(queue'[l])
    BY <1>3, <1>5 DEF Hands
  <1> QED BY <1>1, <1>2, <1>3, <1>5, <1>6, <1>7, <1>8, <1>9 DEF h

\* A worker that adds an event to its batch keeps the line, if the event is
\* newer than the batch.
LEMMA AddFacts ==
    ASSUME OrderInv, NEW l \in Lanes, NEW e \in Events, Add(l, e)
    PROVE  /\ Range(batch'[l]) = Range(batch[l]) \cup {e} /\ batch'[l] # <<>>
           /\ Ascending(batch[l]) /\ Before(Range(batch[l]), {e}) => Ascending(batch'[l])
           /\ Places(l)'
           /\ \A m \in Lanes \ {l} : pc'[m] = pc[m] /\ batch'[m] = batch[m]
  <1>1. TypeOK
    BY DEF OrderInv, ConsInv, TypeInv
  <1>2. /\ pc'[l] \in {"send", "select"} /\ \A m \in Lanes \ {l} : pc'[m] = pc[m] /\ batch'[m] = batch[m]
        /\ Len(batch'[l]) = Len(batch[l]) + 1
    BY <1>1, AddType
  <1>3. batch[l] \in Seq(Events) /\ batch'[l] = Append(batch[l], e)
    BY <1>1 DEF Add, TypeOK
  <1>4. batch'[l] # <<>>
    BY <1>2, <1>3
  <1> QED BY <1>2, <1>3, <1>4, AppendFacts DEF Places

\* What the destination takes is the batch at hand, which is newer than all it
\* took before, and older than all it will be shown.
LEMMA OrderTake ==
    ASSUME OrderInv, ConsInv', NEW l \in Lanes, ReporterTakes(l)
    PROVE  OrderInv'
  <1>0. LaneOrder(l) /\ TypeOK
    BY DEF OrderInv, ConsInv, TypeInv
  <1> DEFINE b == Current(l)
             R == [id : Nat, events : Seq(Events)]
  <1>1. /\ UNCHANGED <<pc, batch, queue, carry, calls, fate>> /\ Sending(l)
        /\ received[l] \in Seq(R) /\ received'[l] = Append(received[l], b)
        /\ \A m \in Lanes \ {l} : received'[m] = received[m]
    BY <1>0 DEF ReporterTakes, TypeOK, Sending, Current
  <1>2. b \in R /\ b.events = batch[l]
    BY <1>0 DEF TypeOK, Current
  <1>3. \A m \in Lanes : Sending(m)' = Sending(m) /\ send'[m].id = send[m].id
    BY <1>0, <1>1 DEF ReporterTakes, TypeOK, Sending
  <1>4. /\ DOMAIN received'[l] = DOMAIN received[l] \cup {Len(received[l]) + 1}
        /\ \A i \in DOMAIN received[l] : received'[l][i] = received[l][i]
        /\ received'[l][Len(received[l]) + 1] = b
        /\ Len(received[l]) \in Nat /\ DOMAIN received[l] = 1..Len(received[l])
    <2> HIDE DEF b, R
    <2>1. Len(received[l]) \in Nat /\ DOMAIN received[l] = 1..Len(received[l])
      BY <1>1
    <2> QED BY <1>1, <1>2, <2>1, AppendEach
  <1>5. Ascending(batch[l]) /\ Range(batch[l]) \subseteq Hands(l)
    BY <1>0 DEF LaneOrder, InLine, Hands
  <1>6. \A m \in Lanes : LaneOrder(m) /\ Hands(m)' = Hands(m) /\ Carried(m)' = Carried(m)
                         /\ Current(m)' = Current(m)
    BY <1>1, <1>3 DEF OrderInv, Hands, Carried, Current
  <1>7. ASSUME NEW m \in Lanes PROVE LaneOrder(m)'
    <2>1. InLine(m)' /\ Owing(m)' /\ Places(m)'
      BY <1>1, <1>6 DEF LaneOrder, InLine, Owing, Places
    <2>2. ASSUME NEW i \in DOMAIN received'[m]
          PROVE  /\ Ascending(received'[m][i].events)
                 /\ \/ Sending(m)' /\ received'[m][i] = Current(m)'
                    \/ Past(m, received[m][i].events)'
      <3>1. CASE i \in DOMAIN received[m] /\ received'[m][i] = received[m][i]
        <4>1. \/ Sending(m) /\ received[m][i] = Current(m)
              \/ Past(m, received[m][i].events)
          BY <1>6, <3>1 DEF LaneOrder, Shown
        <4>2. Past(m, received[m][i].events) => Past(m, received[m][i].events)'
          BY <1>1, <1>6, <3>1 DEF Past
        <4>3. Ascending(received'[m][i].events)
          BY <1>6, <3>1 DEF LaneOrder, Shown
        <4> QED BY <1>3, <1>6, <3>1, <4>1, <4>2, <4>3
      <3>2. CASE m = l /\ received'[m][i] = b
        BY <1>1, <1>2, <1>3, <1>5, <1>6, <3>2
      <3>3. m # l => received'[m] = received[m]
        BY <1>1
      <3>4. m = l => i \in DOMAIN received[l] \/ i = Len(received[l]) + 1
        BY <1>4
      <3> HIDE DEF b
      <3> QED BY <1>4, <3>1, <3>2, <3>3, <3>4
    <2>3. Shown(m)'
      BY <2>2 DEF Shown
    <2> QED BY <2>1, <2>3 DEF LaneOrder
  <1>8. InOrder'
    <2> SUFFICES ASSUME NEW m \in Lanes, NEW i \in DOMAIN received'[m], NEW j \in DOMAIN received'[m]
                 PROVE  /\ Ascending(received'[m][i].events)
                        /\ i < j => \/ received'[m][i] = received'[m][j]
                                    \/ \A e \in Range(received'[m][i].events),
                                          f \in Range(received'[m][j].events) : e < f
      BY DEF InOrder
    <2>0. Ascending(received'[m][i].events)
      BY <1>7 DEF LaneOrder, Shown
    <2>1. CASE m # l
      BY <1>1, <2>0, <2>1 DEF OrderInv, InOrder
    <2>2. CASE m = l /\ i \in DOMAIN received[l] /\ j \in DOMAIN received[l]
      BY <1>4, <2>0, <2>2 DEF OrderInv, InOrder
    <2>3. CASE m = l /\ i = Len(received[l]) + 1
      <3>1. ~(i < j)
        <4> HIDE DEF b, R
        <4> QED BY <1>4, <2>3
      <3> QED BY <2>0, <3>1
    <2>4. CASE m = l /\ i \in DOMAIN received[l] /\ j = Len(received[l]) + 1
      <3>1. received'[m][j] = b /\ received'[m][i] = received[l][i]
        BY <1>4, <2>4
      <3>2. received[l][i] = b \/ Past(l, received[l][i].events)
        BY <1>0, <2>4 DEF LaneOrder, Shown
      <3> QED BY <1>2, <1>5, <2>0, <3>1, <3>2 DEF Past
    <2> HIDE DEF b
    <2> QED BY <1>4, <2>1, <2>2, <2>3, <2>4
  <1> QED BY <1>7, <1>8 DEF OrderInv

\* A batch that ends leaves the worker's hand.
LEMMA OrderEnd ==
    ASSUME OrderInv, ConsInv', NEW l \in Lanes, Sending(l),
           NEW c \in {"delivered", "failed", "undelivered"}, EndBatch(l, c)
    PROVE  OrderInv'
  <1>0. LaneOrder(l) /\ TypeOK
    BY DEF OrderInv, ConsInv, TypeInv
  <1>1. /\ UNCHANGED <<calls, received, queue, carry, send>>
        /\ batch'[l] = <<>> /\ pc'[l] = "resume"
        /\ \A m \in Lanes \ {l} : pc'[m] = pc[m] /\ batch'[m] = batch[m]
        /\ Settle(l, Range(batch[l]), c)
    BY <1>0 DEF EndBatch, Goto, WorkerOnly, TypeOK
  <1>2. Carried(l)' = Carried(l) /\ Range(batch'[l]) = {} /\ Ascending(batch'[l])
    BY <1>1, EmptyFacts DEF Carried
  <1>3. Range(batch[l]) \cap (Carried(l) \cup Range(queue[l])) = {}
    <2>1. Range(batch[l]) \subseteq Nat
      BY <1>0, LaneTypes
    <2> QED BY <1>0, <2>1 DEF LaneOrder, InLine, Before
  <1>4. Hands(l)' = Hands(l) \ Range(batch[l]) /\ Range(batch[l]) \subseteq Hands(l)
    BY <1>1, <1>2, <1>3 DEF Hands
  <1>5. InLine(l)' /\ Places(l)'
    BY <1>0, <1>1, <1>2 DEF LaneOrder, InLine, Places, Before
  <1>6. c \in Fates \ {"none", "pending"}
    BY DEF Fates
  <1> QED BY <1>1, <1>4, <1>5, <1>6, OrderSettle

\* The steps of run.
LEMMA OrderRun ==
    ASSUME OrderInv, ConsInv', NEW l \in Lanes, Run(l)
    PROVE  OrderInv'
  <1>0. LaneOrder(l) /\ TypeOK
    BY DEF OrderInv, ConsInv, TypeInv
  <1> DEFINE h == Head(queue[l])
  <1>1. CASE ReceiveUnencodable(l)
    <2>1. /\ Dequeue(l) /\ UNCHANGED <<pc, batch, carry, send, calls, received>>
          /\ Settle(l, {h}, "failed")
      BY <1>1 DEF ReceiveUnencodable, Dequeue, workerVars
    <2>2. /\ Hands(l)' = Hands(l) \ {h} /\ {h} \subseteq Hands(l) /\ ~Sending(l)
          /\ Carried(l)' = {} /\ \A m \in Lanes \ {l} : queue'[m] = queue[m]
      BY <2>1, DequeueFacts DEF Hands, Carried
    <2>3. InLine(l)' /\ Places(l)'
      BY <1>0, <2>1, <2>2, DequeueFacts DEF LaneOrder, InLine, Places, Before
    <2>4. "failed" \in Fates \ {"none", "pending"}
      BY DEF Fates
    <2> HIDE DEF h
    <2> QED BY <2>1, <2>2, <2>3, <2>4, OrderSettle
  <1>2. CASE ReceiveIntoBatch(l)
    <2>1. /\ Dequeue(l) /\ Add(l, h) /\ UNCHANGED <<carry, send, calls, received, fate>>
      BY <1>2 DEF ReceiveIntoBatch, Dequeue
    <2>2. /\ h \in Events /\ Carried(l)' = {} /\ ~Sending(l)
          /\ \A m \in Lanes \ {l} : queue'[m] = queue[m]
      BY <2>1, DequeueFacts DEF Carried
    <2>3. /\ Range(batch'[l]) = Range(batch[l]) \cup {h} /\ Ascending(batch'[l]) /\ Places(l)'
          /\ \A m \in Lanes \ {l} : pc'[m] = pc[m] /\ batch'[m] = batch[m]
      BY <1>0, <2>1, <2>2, AddFacts, DequeueFacts DEF LaneOrder, InLine
    <2>4. Hands(l)' = Hands(l)
      BY <2>1, <2>2, <2>3, DequeueFacts DEF Hands
    <2>5. InLine(l)'
      BY <2>1, <2>2, <2>3, DequeueFacts DEF InLine, Before
    <2> HIDE DEF h
    <2> QED BY <2>1, <2>2, <2>3, <2>4, <2>5, OrderMove
  <1>3. CASE ReceiveOverBudget(l)
    <2>1. /\ Dequeue(l) /\ UNCHANGED <<batch, send, calls, received, fate>>
          /\ carry'[l] = h /\ pc'[l] = "send" /\ batch[l] # <<>>
          /\ \A m \in Lanes \ {l} : pc'[m] = pc[m] /\ carry'[m] = carry[m]
      BY <1>0, <1>3 DEF ReceiveOverBudget, Dequeue, TypeOK, OverBudget
    <2>2. /\ h \in Events /\ ~Sending(l) /\ \A m \in Lanes \ {l} : queue'[m] = queue[m]
      BY <2>1, DequeueFacts
    <2>3. Carried(l)' = {h}
      BY <1>0, <2>1, <2>2, LaneTypes DEF Carried
    <2>4. Hands(l)' = Hands(l)
      BY <2>1, <2>3, DequeueFacts DEF Hands
    <2>5. InLine(l)' /\ Places(l)'
      BY <1>0, <2>1, <2>3, DequeueFacts DEF LaneOrder, InLine, Places
    <2> HIDE DEF h
    <2> QED BY <2>1, <2>2, <2>4, <2>5, OrderMove
  <1>4. CASE QueueClosed(l) \/ Flush(l)
    <2>1. /\ UNCHANGED <<calls, fate, queue, batch, carry, received, send>> /\ ~Sending(l)
          /\ \A m \in Lanes \ {l} : pc'[m] = pc[m]
          /\ pc'[l] = IF batch[l] = <<>> THEN "done" ELSE "send"
      BY <1>0, <1>4 DEF QueueClosed, Flush, Goto, WorkerOnly, Sending, TypeOK
    <2>2. Places(l)'
      BY <2>1 DEF Places
    <2>3. \A m \in Lanes : /\ pc'[m] = pc[m] \/ Places(m)'
                           /\ Sending(m) => Sending(m)' /\ send'[m].id = send[m].id
      BY <2>1, <2>2 DEF Sending
    <2> QED BY <2>1, <2>3, OrderKept
  <1>5. CASE Abandon(l)
    <2>1. /\ UNCHANGED <<calls, received, carry, send>> /\ ~Sending(l)
          /\ \A m \in Lanes \ {l} : /\ pc'[m] = pc[m] /\ batch'[m] = batch[m]
                                    /\ queue'[m] = queue[m]
          /\ pc'[l] = "done" /\ batch'[l] = <<>> /\ queue'[l] = <<>> /\ pc[l] = "select"
          /\ Settle(l, Range(batch[l]) \cup Range(queue[l]), "undelivered")
      BY <1>0, <1>5 DEF Abandon, Goto, Sending, TypeOK
    <2>2. Carried(l) = {} /\ Carried(l)' = {}
      BY <2>1 DEF OrderInv, ConsInv, HandsFree, Carried
    <2>3. /\ Range(batch[l]) \cup Range(queue[l]) = Hands(l) /\ Hands(l)' = {}
      BY <2>1, <2>2, EmptyFacts DEF Hands
    <2>4. InLine(l)' /\ Places(l)'
      BY <2>1, <2>2, EmptyFacts DEF InLine, Places, Before
    <2>5. "undelivered" \in Fates \ {"none", "pending"}
      BY DEF Fates
    <2> QED BY <2>1, <2>3, <2>4, <2>5, OrderSettle
  <1>6. CASE Resume(l)
    <2>1. /\ UNCHANGED <<calls, received, fate, queue, send>> /\ ~Sending(l)
          /\ batch[l] = <<>>
          /\ \A m \in Lanes \ {l} : carry'[m] = carry[m]
          /\ Carried(l)' = {} /\ Range(batch[l]) = {} /\ Ascending(queue[l])
          /\ Before(Carried(l), Range(queue[l]))
      BY <1>0, <1>6, EmptyFacts
      DEF Resume, WorkerOnly, Sending, TypeOK, LaneOrder, Places, Carried, InLine
    <2>2. CASE carry[l] = 0
      <3>1. /\ batch' = batch /\ pc'[l] = "select" /\ \A m \in Lanes \ {l} : pc'[m] = pc[m]
            /\ Carried(l) = {}
        BY <1>0, <1>6, <2>2 DEF Resume, Goto, TypeOK, Carried
      <3>2. Hands(l)' = Hands(l)
        BY <2>1, <3>1 DEF Hands
      <3>3. InLine(l)' /\ Places(l)'
        BY <2>1, <3>1, EmptyFacts DEF InLine, Places, Before
      <3> QED BY <2>1, <3>1, <3>2, <3>3, OrderMove
    <2>3. CASE carry[l] # 0
      <3>1. carry[l] \in Events /\ Add(l, carry[l]) /\ Carried(l) = {carry[l]}
        BY <1>0, <1>6, <2>3 DEF Resume, TypeOK, Carried
      <3>2. Ascending(batch[l]) /\ Before(Range(batch[l]), {carry[l]})
        BY <2>1, EmptyFacts DEF Before
      <3>3. /\ Range(batch'[l]) = {carry[l]} /\ Ascending(batch'[l]) /\ Places(l)'
            /\ \A m \in Lanes \ {l} : pc'[m] = pc[m] /\ batch'[m] = batch[m]
        BY <2>1, <3>1, <3>2, AddFacts
      <3>4. Hands(l)' = Hands(l)
        BY <2>1, <3>1, <3>3 DEF Hands
      <3>5. InLine(l)'
        BY <2>1, <3>1, <3>3 DEF InLine, Before
      <3> QED BY <2>1, <3>3, <3>4, <3>5, OrderMove
    <2> QED BY <2>2, <2>3
  <1> QED BY <1>1, <1>2, <1>3, <1>4, <1>5, <1>6 DEF Run

\* The steps of deliver.
LEMMA OrderDeliver ==
    ASSUME OrderInv, ConsInv', NEW l \in Lanes, Deliver(l)
    PROVE  OrderInv'
  <1>0. LaneOrder(l) /\ TypeOK
    BY DEF OrderInv, ConsInv, TypeInv
  <1>1. CASE BeginBatch(l) \/ AttemptRetries(l) \/ Wake(l)
    <2>1. /\ UNCHANGED <<calls, fate, queue, batch, carry, received>>
      BY <1>1 DEF BeginBatch, AttemptRetries, Wake, WorkerOnly
    <2>2. \A m \in Lanes \ {l} : pc'[m] = pc[m] /\ send'[m] = send[m]
      BY <1>0, <1>1 DEF BeginBatch, AttemptRetries, Wake, Goto, TypeOK
    <2>3. /\ Sending(l)' /\ Places(l)'
          /\ Sending(l) => send'[l].id = send[l].id
      BY <1>0, <1>1
      DEF BeginBatch, AttemptRetries, Wake, Goto, TypeOK, Sending, Places, LaneOrder
    <2>4. \A m \in Lanes : /\ pc'[m] = pc[m] \/ Places(m)'
                           /\ Sending(m) => Sending(m)' /\ send'[m].id = send[m].id
      BY <2>2, <2>3 DEF Sending
    <2> QED BY <2>1, <2>4, OrderKept
  <1>2. CASE AttemptSucceeds(l) \/ AttemptAborted(l) \/ AttemptFinal(l) \/ SleepAborted(l)
    BY <1>2, OrderEnd
    DEF AttemptSucceeds, AttemptAborted, AttemptFinal, SleepAborted, Sending
  <1> QED BY <1>1, <1>2 DEF Deliver

\* Close gives up what is still queued, which without workers is all there is.
LEMMA OrderCollect ==
    ASSUME OrderInv, ConsInv', ShutdownInv, NEW l \in Lanes, CloseCollect(l)
    PROVE  OrderInv'
  <1>0. LaneOrder(l) /\ TypeOK
    BY DEF OrderInv, ConsInv, TypeInv
  <1>1. /\ UNCHANGED <<calls, received, pc, batch, carry, send>>
        /\ queue'[l] = <<>> /\ \A m \in Lanes \ {l} : queue'[m] = queue[m]
        /\ Settle(l, Range(queue[l]), "undelivered")
    BY <1>0 DEF CloseCollect, CloseRest, workerVars, TypeOK
  <1>2. pc[l] = "new"
    BY DEF CloseCollect, ShutdownInv, AllDone
  <1>3. batch[l] = <<>> /\ carry[l] = 0 /\ ~Sending(l)
    BY <1>0, <1>2 DEF OrderInv, ConsInv, HandsFree, LaneOrder, Places, Sending
  <1>4. /\ Range(queue[l]) = Hands(l) /\ Hands(l)' = {} /\ Carried(l)' = {}
    BY <1>1, <1>3, EmptyFacts DEF Hands, Carried
  <1>5. InLine(l)' /\ Places(l)'
    BY <1>0, <1>1, <1>4, EmptyFacts DEF InLine, Places, Before, LaneOrder
  <1>6. "undelivered" \in Fates \ {"none", "pending"}
    BY DEF Fates
  <1> QED BY <1>1, <1>3, <1>4, <1>5, <1>6, OrderSettle

LEMMA ConsStep == ConsInv /\ [Next]_vars => ConsInv'
  BY TypeStep, HandsFreeStep, ConservationStep DEF ConsInv

LEMMA OrderStep == OrderInv /\ ShutdownInv /\ [Next]_vars => OrderInv'
  <1> SUFFICES ASSUME OrderInv, ShutdownInv, [Next]_vars PROVE OrderInv'
    OBVIOUS
  <1>0. ConsInv'
    BY ConsStep DEF OrderInv
  <1>1. ASSUME NEW p \in Producers, NEW l \in Lanes, EnqueueCount(p, l) PROVE OrderInv'
    BY <1>0, <1>1, OrderKept DEF EnqueueCount, workerVars, Sending
  <1>2. CASE Start
    <2>1. /\ UNCHANGED <<calls, fate, queue, batch, carry, received, send>>
          /\ \A m \in Lanes : pc[m] = "new" /\ pc'[m] = "select"
      BY <1>2 DEF Start, ShutdownInv
    <2>2. \A m \in Lanes : Places(m)' /\ ~Sending(m)
      BY <2>1 DEF Places, Sending
    <2> QED BY <1>0, <2>1, <2>2, OrderKept
  <1>3. CASE CloseBegin \/ CloseDeadline \/ CloseJoined \/ CloseReturn \/ UNCHANGED vars
    BY <1>0, <1>3, OrderKept
    DEF CloseBegin, CloseDeadline, CloseJoined, CloseReturn, CloseRest, vars, workerVars, Sending
  <1> QED
    BY <1>0, <1>1, <1>2, <1>3, OrderSend, OrderDrop, OrderRun, OrderDeliver, OrderTake, OrderCollect
    DEF Next, Enqueue, Worker, Close, Terminated

\* Every destination is shown the events it is owed oldest first, and a retry
\* never after a newer batch.
THEOREM InOrderHolds == Spec => []InOrder
  <1>1. OrderInv => InOrder
    BY DEF OrderInv
  <1> QED BY OrderInit, OrderStep, ShutdownInit, ShutdownStep, <1>1, PTL DEF Spec

-----------------------------------------------------------------------------
(* The package's contract                                                  *)

\* An answer can only come from a destination that has taken the batch.
TakenInv ==
    \A l \in Lanes : pc[l] = "attempt" /\ send[l].taken =>
        \E i \in DOMAIN received[l] : received[l][i].events = batch[l]

ContractInv == OrderInv /\ ShutdownInv /\ TakenInv

\* A batch that is taken joins what the destination has received.
LEMMA TakeGrows ==
    ASSUME TypeOK, NEW l \in Lanes, ReporterTakes(l)
    PROVE  /\ \A m \in Lanes \ {l} : received'[m] = received[m]
           /\ DOMAIN received'[l] = DOMAIN received[l] \cup {Len(received[l]) + 1}
           /\ DOMAIN received[l] = 1..Len(received[l]) /\ Len(received[l]) \in Nat
           /\ \A i \in DOMAIN received[l] : received'[l][i] = received[l][i]
           /\ received'[l][Len(received[l]) + 1].events = batch[l]
  <1> DEFINE b == Current(l)
             R == [id : Nat, events : Seq(Events)]
  <1>1. /\ received[l] \in Seq(R) /\ received'[l] = Append(received[l], b)
        /\ \A m \in Lanes \ {l} : received'[m] = received[m]
    BY DEF ReporterTakes, TypeOK, Current
  <1>2. b \in R /\ b.events = batch[l]
    BY DEF TypeOK, Current
  <1> HIDE DEF b, R
  <1>3. DOMAIN received[l] = 1..Len(received[l]) /\ Len(received[l]) \in Nat
    BY <1>1
  <1> QED BY <1>1, <1>2, <1>3, AppendEach

LEMMA TakenStep == TypeOK /\ TakenInv /\ [Next]_vars => TakenInv'
  <1> SUFFICES ASSUME TypeOK, TakenInv, [Next]_vars PROVE TakenInv'
    OBVIOUS
  <1>0. ASSUME UNCHANGED received,
               \A m \in Lanes : pc'[m] = "attempt" /\ send'[m].taken =>
                   pc[m] = "attempt" /\ send[m].taken /\ batch'[m] = batch[m]
        PROVE  TakenInv'
    BY <1>0 DEF TakenInv
  <1>1. ASSUME NEW p \in Producers, NEW l \in Lanes, Enqueue(p, l) PROVE TakenInv'
    BY <1>0, <1>1 DEF Enqueue, EnqueueSend, EnqueueCount, EnqueueDrop, workerVars
  <1>2. ASSUME NEW l \in Lanes, ReceiveUnencodable(l) \/ ReceiveOverBudget(l) \/ QueueClosed(l)
                                \/ Flush(l) \/ Abandon(l)
        PROVE TakenInv'
    <2>1. /\ UNCHANGED <<received, send>> /\ pc'[l] # "attempt"
          /\ \A m \in Lanes \ {l} : pc'[m] = pc[m] /\ batch'[m] = batch[m]
      BY <1>2
      DEF ReceiveUnencodable, ReceiveOverBudget, Dequeue, QueueClosed, Flush, Abandon, Goto,
          WorkerOnly, workerVars, TypeOK
    <2> QED BY <1>0, <2>1
  <1>3. ASSUME NEW l \in Lanes, ReceiveIntoBatch(l) \/ Resume(l) PROVE TakenInv'
    <2>1. /\ UNCHANGED <<received, send>> /\ pc'[l] # "attempt"
          /\ \A m \in Lanes \ {l} : pc'[m] = pc[m] /\ batch'[m] = batch[m]
      BY <1>3 DEF ReceiveIntoBatch, Dequeue, Resume, Add, Goto, WorkerOnly, TypeOK
    <2> QED BY <1>0, <2>1
  <1>4. ASSUME NEW l \in Lanes, BeginBatch(l) \/ Wake(l) PROVE TakenInv'
    <2>1. /\ UNCHANGED <<received, batch>> /\ ~send'[l].taken
          /\ \A m \in Lanes \ {l} : pc'[m] = pc[m] /\ send'[m] = send[m]
      BY <1>4 DEF BeginBatch, Wake, Goto, WorkerOnly, TypeOK
    <2> QED BY <1>0, <2>1
  <1>5. ASSUME NEW l \in Lanes,
               AttemptSucceeds(l) \/ AttemptAborted(l) \/ AttemptFinal(l) \/ SleepAborted(l)
               \/ AttemptRetries(l)
        PROVE  TakenInv'
    <2>1. /\ UNCHANGED <<received, send>> /\ pc'[l] # "attempt"
          /\ \A m \in Lanes \ {l} : pc'[m] = pc[m] /\ batch'[m] = batch[m]
      BY <1>5
      DEF AttemptSucceeds, AttemptAborted, AttemptFinal, SleepAborted, AttemptRetries, EndBatch,
          Goto, WorkerOnly, TypeOK
    <2> QED BY <1>0, <2>1
  <1>6. ASSUME NEW l \in Lanes, ReporterTakes(l) PROVE TakenInv'
    <2>1. UNCHANGED <<pc, batch>> /\ \A m \in Lanes \ {l} : send'[m] = send[m]
      BY <1>6 DEF ReporterTakes, TypeOK
    <2>2. \E i \in DOMAIN received'[l] : received'[l][i].events = batch[l]
      BY <1>6, TakeGrows
    <2>3. \A m \in Lanes \ {l} : received'[m] = received[m]
      BY <1>6, TakeGrows
    <2> SUFFICES ASSUME NEW m \in Lanes, pc'[m] = "attempt", send'[m].taken
                 PROVE  \E i \in DOMAIN received'[m] : received'[m][i].events = batch'[m]
      BY DEF TakenInv
    <2>4. CASE m = l
      BY <2>1, <2>2, <2>4
    <2>5. CASE m # l
      BY <2>1, <2>3, <2>5 DEF TakenInv
    <2> QED BY <2>4, <2>5
  <1>7. CASE Start
    BY <1>0, <1>7 DEF Start
  <1>8. CASE Close \/ UNCHANGED vars
    BY <1>0, <1>8
    DEF Close, CloseBegin, CloseDeadline, CloseJoined, CloseReturn, CloseCollect, CloseRest,
        vars, workerVars
  <1> QED BY <1>1, <1>2, <1>3, <1>4, <1>5, <1>6, <1>7, <1>8
          DEF Next, Worker, Run, Deliver, Terminated

LEMMA ContractInvInit == Init => ContractInv
  <1> SUFFICES ASSUME Init PROVE ContractInv
    OBVIOUS
  <1>1. TakenInv
    BY DEF Init, TakenInv
  <1> QED BY <1>1, OrderInit, ShutdownInit DEF ContractInv

LEMMA ContractInvStep == ContractInv /\ [Next]_vars => ContractInv'
  <1>1. OrderInv => TypeOK
    BY DEF OrderInv, ConsInv, TypeInv
  <1> QED BY <1>1, OrderStep, ShutdownStep, TakenStep DEF ContractInv

\* The events of the batch under way are the oldest lane l owes, and so are all
\* it holds.
LEMMA OldestFacts ==
    ASSUME OrderInv, NEW l \in Lanes
    PROVE  /\ batch[l] # <<>> => Contract!Oldest(l, Range(batch[l]))
           /\ Hands(l) # {} => Contract!Oldest(l, Hands(l))
           /\ Contract!Owed(l) = Hands(l)
           /\ Hands(l) \subseteq Events /\ Contract!Events = Events
  <1>0. LaneOrder(l) /\ TypeOK
    BY DEF OrderInv, ConsInv, TypeInv
  <1>1. Contract!Events = Events
    BY DEF Contract!Events, Events
  <1>2. Hands(l) \subseteq Events
    BY <1>0, LaneTypes
  <1>3. Contract!Owed(l) = Hands(l)
    BY <1>0, <1>1, <1>2 DEF Contract!Owed, LaneOrder, Owing
  <1>4. ASSUME batch[l] # <<>> PROVE Contract!Oldest(l, Range(batch[l]))
    <2>1. Range(batch[l]) # {} /\ Range(batch[l]) \subseteq Hands(l)
      BY <1>0, <1>4, LaneTypes, RangeType DEF Hands
    <2>2. \A b \in Range(batch[l]), e \in Hands(l) \ Range(batch[l]) : b < e
      BY <1>0 DEF LaneOrder, InLine, Before, Hands
    <2> QED BY <1>3, <2>1, <2>2 DEF Contract!Oldest
  <1>5. ASSUME Hands(l) # {} PROVE Contract!Oldest(l, Hands(l))
    BY <1>3, <1>5 DEF Contract!Oldest
  <1> QED BY <1>1, <1>2, <1>3, <1>4, <1>5

\* What the contract calls taken.
LEMMA TakenFacts ==
    ASSUME NEW l \in Lanes, NEW e
    PROVE  Contract!Taken(l, e) <=> \E i \in DOMAIN received[l] : e \in Range(received[l][i].events)
  BY DEF Contract!Taken

\* Settling no event changes nothing.
LEMMA SettleNone ==
    ASSUME TypeOK, NEW l \in Lanes, NEW f, Settle(l, {}, f)
    PROVE  fate' = fate
  BY DEF Settle, TypeOK

\* Appending to a sequence of batches appends to the sequence of their sets.
LEMMA SetsAppend ==
    ASSUME NEW s \in Seq([id : Nat, events : Seq(Events)]),
           NEW b \in [id : Nat, events : Seq(Events)]
    PROVE  [i \in DOMAIN Append(s, b) |-> Range(Append(s, b)[i].events)] =
               Append([i \in DOMAIN s |-> Range(s[i].events)], Range(b.events))
  <1> DEFINE R == [id : Nat, events : Seq(Events)]
             t == Append(s, b)
             u == [i \in DOMAIN s |-> Range(s[i].events)]
             v == Append(u, Range(b.events))
             n == Len(s) + 1
  <1>1. s \in Seq(R) /\ b \in R
    OBVIOUS
  <1>2. Len(s) \in Nat /\ DOMAIN s = 1..Len(s)
    OBVIOUS
  <1>3. /\ DOMAIN t = 1..n /\ \A i \in 1..Len(s) : t[i] = s[i]
        /\ t[n] = b
    <2> HIDE DEF R
    <2>1. 1..n = 1..Len(s) \cup {Len(s) + 1}
      BY <1>2
    <2> QED BY <1>1, <1>2, <2>1, AppendEach
  <1>4. \A i \in 1..Len(s) : Range(s[i].events) \in SUBSET Events
    <2>1. \A i \in 1..Len(s) : s[i] \in R
      <3> HIDE DEF R
      <3> QED BY <1>1, <1>2
    <2>2. \A i \in 1..Len(s) : s[i].events \in Seq(Events)
      BY <2>1
    <2> QED BY <2>2, RangeType
  <1>5. u \in Seq(SUBSET Events) /\ Len(u) = Len(s)
    BY <1>2, <1>4
  <1>6. Range(b.events) \in SUBSET Events
    BY <1>1, RangeType
  <1>7. /\ v = [i \in 1..n |-> IF i = n THEN Range(b.events) ELSE u[i]]
    <2> HIDE DEF u
    <2> DEFINE x == Range(b.events)
    <2> HIDE DEF x
    <2>1. v = Append(u, x) /\ x \in SUBSET Events
      BY <1>6 DEF x
    <2> QED BY <1>2, <1>5, <2>1 DEF x
  <1>8. [i \in DOMAIN t |-> Range(t[i].events)] = [i \in 1..n |-> IF i = n THEN Range(b.events) ELSE u[i]]
    <2> HIDE DEF t
    <2>1. \A i \in 1..n : i # n => i \in 1..Len(s) /\ i \in DOMAIN s
      BY <1>2
    <2> QED BY <1>3, <2>1
  <1> QED BY <1>7, <1>8

\* A destination that takes the batch under way is shown the oldest events owed.
LEMMA TakeStep ==
    ASSUME ContractInv, NEW l \in Lanes, ReporterTakes(l)
    PROVE  Contract!Take(l)
  <1>0. TypeOK /\ LaneOrder(l) /\ OrderInv
    BY DEF ContractInv, OrderInv, ConsInv, TypeInv
  <1> DEFINE b == Current(l)
             R == [id : Nat, events : Seq(Events)]
             Sets(s) == [i \in DOMAIN s |-> Range(s[i].events)]
  <1>1. /\ received \in [Lanes -> Seq(R)] /\ b \in R /\ b.events = batch[l]
        /\ received' = [received EXCEPT ![l] = Append(@, b)]
        /\ pc[l] = "attempt"
    BY <1>0 DEF ReporterTakes, TypeOK, Current
  <1>2. started
    BY <1>1 DEF ContractInv, ShutdownInv
  <1>3. batch[l] # <<>>
    BY <1>0, <1>1 DEF LaneOrder, Places
  <1>4. /\ Contract!Oldest(l, Range(batch[l])) /\ Range(batch[l]) \in SUBSET Contract!Events
    BY <1>0, <1>3, OldestFacts, LaneTypes
  <1>5. Sets(Append(received[l], b)) = Append(Sets(received[l]), Range(batch[l]))
    <2>1. received[l] \in Seq(R)
      BY <1>1
    <2> HIDE DEF b
    <2> QED BY <1>1, <2>1, SetsAppend
  <1>6. [m \in Lanes |-> Sets(received'[m])] =
           [[m \in Lanes |-> Sets(received[m])] EXCEPT ![l] = Append(@, Range(batch[l]))]
    <2> HIDE DEF Sets, b, R
    <2> QED BY <1>1, <1>5
  <1>7. UNCHANGED <<calls, fate, started, closed, deadline>>
    BY DEF ReporterTakes, closeVars
  <1> QED BY <1>2, <1>4, <1>6, <1>7 DEF Contract!Take

\* A batch that ends settles the oldest events owed, and as delivered only if
\* the destination has them.
LEMMA EndStep ==
    ASSUME ContractInv, NEW l \in Lanes,
           AttemptSucceeds(l) \/ AttemptAborted(l) \/ AttemptFinal(l) \/ SleepAborted(l)
    PROVE  Contract!Deliver(l) \/ Contract!Fail(l) \/ Contract!GiveUp(l)
  <1>0. TypeOK /\ LaneOrder(l) /\ OrderInv
    BY DEF ContractInv, OrderInv, ConsInv, TypeInv
  <1> DEFINE B == Range(batch[l])
  <1>1. /\ pc[l] \in {"attempt", "sleep"}
        /\ UNCHANGED <<calls, received, started, closed, deadline>>
    BY DEF AttemptSucceeds, AttemptAborted, AttemptFinal, SleepAborted, EndBatch, WorkerOnly,
           closeVars
  <1>2. started /\ ~AllDone /\ batch[l] # <<>>
    BY <1>0, <1>1 DEF ContractInv, ShutdownInv, AllDone, LaneOrder, Places
  <1>3. /\ Contract!Oldest(l, B) /\ B \in SUBSET Contract!Events /\ Contract!Events = Events
    BY <1>0, <1>2, OldestFacts, LaneTypes
  <1>4. \A f : Settle(l, B, f) => Contract!SettledAs(l, B, f)
    BY <1>3 DEF Settle, Contract!SettledAs
  <1> HIDE DEF B
  <1>5. CASE AttemptSucceeds(l)
    <2>1. Settle(l, B, "delivered") /\ pc[l] = "attempt" /\ send[l].taken
      BY <1>5 DEF AttemptSucceeds, EndBatch, B
    <2>2. \A e \in B : Contract!Taken(l, e)
      BY <2>1, TakenFacts DEF ContractInv, TakenInv, B
    <2> QED BY <1>1, <1>3, <1>4, <2>1, <2>2 DEF Contract!Deliver
  <1>6. CASE AttemptFinal(l)
    <2>1. Settle(l, B, "failed")
      BY <1>6 DEF AttemptFinal, EndBatch, B
    <2> QED BY <1>1, <1>2, <1>3, <1>4, <2>1 DEF Contract!Fail
  <1>7. CASE AttemptAborted(l) \/ SleepAborted(l)
    <2>1. Settle(l, B, "undelivered") /\ aborted
      BY <1>7 DEF AttemptAborted, SleepAborted, EndBatch, B
    <2>2. closed /\ deadline
      BY <1>2, <2>1 DEF ContractInv, ShutdownInv
    <2> QED BY <1>1, <1>3, <1>4, <2>1, <2>2 DEF Contract!GiveUp
  <1> QED BY <1>5, <1>6, <1>7

\* What is given up is all lane l owes.
LEMMA GiveUpStep ==
    ASSUME ContractInv, NEW l \in Lanes, Abandon(l) \/ CloseCollect(l)
    PROVE  Contract!GiveUp(l) \/ UNCHANGED Contract!vars
  <1>0. TypeOK /\ LaneOrder(l) /\ OrderInv
    BY DEF ContractInv, OrderInv, ConsInv, TypeInv
  <1>1. UNCHANGED <<calls, received, started, closed, deadline>>
    BY DEF Abandon, closeVars, CloseCollect, CloseRest
  <1>2. /\ closed /\ (deadline \/ ~started) /\ pc[l] \in {"new", "select"}
        /\ CloseCollect(l) => pc[l] = "new"
    BY DEF Abandon, CloseCollect, ContractInv, ShutdownInv, AllDone
  <1>3. Carried(l) = {}
    BY <1>0, <1>2 DEF OrderInv, ConsInv, HandsFree, Carried
  <1>4. CloseCollect(l) => Range(batch[l]) = {}
    BY <1>0, <1>2, EmptyFacts DEF LaneOrder, Places
  <1>5. Settle(l, Hands(l), "undelivered")
    <2>1. CASE Abandon(l)
      <3>1. Hands(l) = Range(batch[l]) \cup Range(queue[l])
        BY <1>3 DEF Hands
      <3> QED BY <2>1, <3>1 DEF Abandon
    <2>2. CASE CloseCollect(l)
      <3>1. Hands(l) = Range(queue[l])
        BY <1>3, <1>4, <2>2 DEF Hands
      <3> QED BY <2>2, <3>1 DEF CloseCollect
    <2> QED BY <2>1, <2>2
  <1>6. CASE Hands(l) = {}
    <2>1. fate' = fate
      BY <1>0, <1>5, <1>6, SettleNone
    <2> QED BY <1>1, <2>1 DEF Contract!vars
  <1>7. CASE Hands(l) # {}
    <2>1. /\ Contract!Oldest(l, Hands(l)) /\ Hands(l) \in SUBSET Contract!Events
          /\ Contract!Events = Events
      BY <1>0, <1>7, OldestFacts
    <2>2. Contract!SettledAs(l, Hands(l), "undelivered")
      BY <1>5, <2>1 DEF Settle, Contract!SettledAs
    <2> QED BY <1>1, <1>2, <2>1, <2>2 DEF Contract!GiveUp
  <1> QED BY <1>6, <1>7

\* An event that cannot be encoded is one the destination has never seen.
LEMMA FailOneStep ==
    ASSUME ContractInv, NEW l \in Lanes, ReceiveUnencodable(l)
    PROVE  Contract!FailOne(l)
  <1> DEFINE h == Head(queue[l])
  <1>0. TypeOK /\ LaneOrder(l) /\ OrderInv
    BY DEF ContractInv, OrderInv, ConsInv, TypeInv
  <1>1. Dequeue(l) /\ UNCHANGED <<calls, received, started, closed, deadline>>
        /\ Settle(l, {h}, "failed") /\ pc[l] = "select"
    BY DEF ReceiveUnencodable, Dequeue, closeVars
  <1>2. started
    BY <1>1 DEF ContractInv, ShutdownInv
  <1>3. h \in Hands(l) /\ ~Sending(l) /\ h \in Nat
    BY <1>0, <1>1, DequeueFacts, LaneTypes
  <1> HIDE DEF h
  <1>4. h \in Contract!Owed(l) /\ Contract!Events = Events
    BY <1>0, <1>3, OldestFacts
  <1>5. ~Contract!Taken(l, h)
    <2> SUFFICES ASSUME NEW i \in DOMAIN received[l], h \in Range(received[l][i].events)
                 PROVE  FALSE
      BY TakenFacts
    <2>1. Past(l, received[l][i].events)
      BY <1>0, <1>3 DEF LaneOrder, Shown
    <2>2. h < h
      BY <1>3, <2>1 DEF Past
    <2> QED BY <1>3, <2>2
  <1>6. Contract!SettledAs(l, {h}, "failed")
    BY <1>1, <1>4 DEF Settle, Contract!SettledAs
  <1> QED BY <1>1, <1>2, <1>4, <1>5, <1>6 DEF Contract!FailOne

\* Enqueue decides about one event.
LEMMA EnqueueStep ==
    ASSUME ContractInv, NEW p \in Producers, NEW l \in Lanes, Enqueue(p, l)
    PROVE  Contract!Accept(l) \/ Contract!Drop(l) \/ UNCHANGED Contract!vars
  <1>0. Contract!Events = Events
    BY DEF Contract!Events, Events
  <1>1. CASE EnqueueSend(p, l)
    BY <1>0, <1>1 DEF EnqueueSend, Contract!Accept, Settle, Contract!SettledAs, closeVars
  <1>2. CASE EnqueueDrop(p, l)
    BY <1>0, <1>2 DEF EnqueueDrop, Contract!Drop, Settle, Contract!SettledAs, closeVars
  <1>3. CASE EnqueueCount(p, l)
    BY <1>3 DEF EnqueueCount, Contract!vars, closeVars
  <1> QED BY <1>1, <1>2, <1>3 DEF Enqueue

\* Every step is one the contract allows.
LEMMA ContractStep == ContractInv /\ [Next]_vars => [Contract!Next]_(Contract!vars)
  <1> SUFFICES ASSUME ContractInv, [Next]_vars
               PROVE  Contract!Next \/ UNCHANGED Contract!vars
    OBVIOUS
  <1>1. ASSUME NEW p \in Producers, NEW l \in Lanes, Enqueue(p, l)
        PROVE  Contract!Next \/ UNCHANGED Contract!vars
    BY <1>1, EnqueueStep DEF Contract!Next
  <1>2. ASSUME NEW l \in Lanes, Run(l)
        PROVE  Contract!Next \/ UNCHANGED Contract!vars
    <2>1. CASE ReceiveUnencodable(l)
      BY <2>1, FailOneStep DEF Contract!Next
    <2>2. CASE Abandon(l)
      BY <2>2, GiveUpStep DEF Contract!Next
    <2>3. CASE ReceiveIntoBatch(l) \/ ReceiveOverBudget(l) \/ QueueClosed(l) \/ Flush(l) \/ Resume(l)
      BY <2>3
      DEF ReceiveIntoBatch, ReceiveOverBudget, Dequeue, QueueClosed, Flush, Resume, WorkerOnly,
          closeVars, Contract!vars
    <2> QED BY <1>2, <2>1, <2>2, <2>3 DEF Run
  <1>3. ASSUME NEW l \in Lanes, Deliver(l)
        PROVE  Contract!Next \/ UNCHANGED Contract!vars
    <2>1. CASE BeginBatch(l) \/ AttemptRetries(l) \/ Wake(l)
      BY <2>1 DEF BeginBatch, AttemptRetries, Wake, WorkerOnly, closeVars, Contract!vars
    <2>2. CASE AttemptSucceeds(l) \/ AttemptAborted(l) \/ AttemptFinal(l) \/ SleepAborted(l)
      BY <2>2, EndStep DEF Contract!Next
    <2> QED BY <1>3, <2>1, <2>2 DEF Deliver
  <1>4. ASSUME NEW l \in Lanes, ReporterTakes(l)
        PROVE  Contract!Next \/ UNCHANGED Contract!vars
    BY <1>4, TakeStep DEF Contract!Next
  <1>5. CASE Start
    BY <1>5 DEF Start, Contract!Next, Contract!Start
  <1>6. CASE CloseBegin
    <2>1. ~closed
      BY <1>6 DEF CloseBegin, ContractInv, ShutdownInv
    <2> QED BY <1>6, <2>1 DEF CloseBegin, CloseRest, Contract!Next, Contract!Close
  <1>7. CASE CloseDeadline
    <2>1. closed
      BY <1>7 DEF CloseDeadline, ContractInv, ShutdownInv
    <2> QED BY <1>7, <2>1 DEF CloseDeadline, CloseRest, Contract!Next, Contract!Deadline
  <1>8. CASE CloseJoined \/ CloseReturn \/ UNCHANGED vars
    BY <1>8 DEF CloseJoined, CloseReturn, CloseRest, vars, closeVars, Contract!vars
  <1>9. ASSUME NEW l \in Lanes, CloseCollect(l)
        PROVE  Contract!Next \/ UNCHANGED Contract!vars
    BY <1>9, GiveUpStep DEF Contract!Next
  <1> QED BY <1>1, <1>2, <1>3, <1>4, <1>5, <1>6, <1>7, <1>8, <1>9
          DEF Next, Worker, Close, Terminated

LEMMA ContractInit == Init => Contract!Init
  <1> SUFFICES ASSUME Init PROVE Contract!Init
    OBVIOUS
  <1>1. Contract!Events = Events
    BY DEF Contract!Events, Events
  <1>2. [l \in Lanes |-> [i \in DOMAIN received[l] |-> Range(received[l][i].events)]]
           = [l \in Lanes |-> <<>>]
    BY DEF Init
  <1> QED BY <1>1, <1>2 DEF Init, Contract!Init

\* The dispatcher does what the package comment promises, for any destinations,
\* limits, sizes and answers.
THEOREM ImplementsContractHolds == Spec => ImplementsContract
  <1> QED BY ContractInvInit, ContractInvStep, ContractInit, ContractStep, PTL
          DEF Spec, ImplementsContract, Contract!Spec

-----------------------------------------------------------------------------
(* Batch limits                                                            *)

\* The library states that < is well founded on the numbers; from that, a set
\* that contains 0 and with each number the next contains every number. Stated
\* of a set, it needs no operator parameter.
LEMMA LeastNumber ==
    ASSUME NEW T, T \subseteq Nat, T # {}
    PROVE  \E n \in T : \A m \in T : n <= m
  <1> DEFINE R == OpToRel(<, Nat)
  <1>1. IsWellFoundedOn(R, Nat)
    BY NatLessThanWellFounded
  <1>2. \E n \in T : \A m \in T : ~ (<<m, n>> \in R)
    <2> HIDE DEF R
    <2> QED BY <1>1, WFMin
  <1>3. \A m, n \in Nat : m < n => <<m, n>> \in R
    BY DEF OpToRel
  <1> HIDE DEF R
  <1>4. PICK n \in T : \A m \in T : ~ (<<m, n>> \in R)
    BY <1>2
  <1>5. \A m \in T : m \in Nat /\ n \in Nat /\ ~ (m < n)
    BY <1>3, <1>4
  <1> QED BY <1>4, <1>5

LEMMA InductiveSet ==
    ASSUME NEW P, 0 \in P, \A n \in Nat : n \in P => n + 1 \in P
    PROVE  Nat \subseteq P
  <1> DEFINE T == Nat \ P
  <1> SUFFICES ASSUME T # {} PROVE FALSE
    OBVIOUS
  <1>1. PICK n \in T : \A m \in T : n <= m
    BY LeastNumber
  <1>2. n # 0 /\ n - 1 \in Nat
    BY <1>1
  <1>3. n - 1 \in P
    BY <1>1, <1>2
  <1>4. (n - 1) + 1 \in P
    BY <1>2, <1>3
  <1> QED BY <1>1, <1>4

\* g is the running sum of the sizes of the first k events of s.
IsSum(g, s, k) == g = [n \in 0..k |-> IF n = 0 THEN 0 ELSE g[n - 1] + Size[s[n]]]

LEMMA SumExists ==
    ASSUME NEW s \in Seq(Events), NEW k \in Nat
    PROVE  \E g : IsSum(g, s, k)
  <1> DEFINE P == {m \in Nat : \E g : IsSum(g, s, m)}
  <1>1. 0 \in P
    <2> DEFINE g == [n \in 0..0 |-> 0]
    <2>1. IsSum(g, s, 0)
      BY DEF IsSum
    <2> QED BY <2>1
  <1>2. ASSUME NEW m \in Nat, m \in P PROVE m + 1 \in P
    <2>1. PICK g : IsSum(g, s, m)
      BY <1>2
    <2> DEFINE h == [n \in 0..(m + 1) |-> IF n = m + 1 THEN g[m] + Size[s[m + 1]] ELSE g[n]]
    <2>2. ASSUME NEW n \in 0..(m + 1)
          PROVE  h[n] = IF n = 0 THEN 0 ELSE h[n - 1] + Size[s[n]]
      <3>1. CASE n = m + 1
        BY <3>1
      <3>2. CASE n # m + 1
        <4>1. n \in 0..m /\ (n # 0 => n - 1 \in 0..m /\ n - 1 # m + 1 /\ n - 1 \in 0..(m + 1))
          BY <3>2
        <4>2. g[n] = IF n = 0 THEN 0 ELSE g[n - 1] + Size[s[n]]
          BY <2>1, <4>1 DEF IsSum
        <4> QED BY <3>2, <4>1, <4>2
      <3> QED BY <3>1, <3>2
    <2>3. IsSum(h, s, m + 1)
      BY <2>2 DEF IsSum
    <2> QED BY <2>3
  <1> HIDE DEF P
  <1>3. Nat \subseteq P
    BY <1>1, <1>2, InductiveSet
  <1> QED BY <1>3 DEF P

LEMMA SumValue ==
    ASSUME NEW s \in Seq(Events)
    PROVE  \E g : IsSum(g, s, Len(s)) /\ EventBytes(s) = g[Len(s)]
  <1> DEFINE G == CHOOSE g : g = [n \in 0..Len(s) |-> IF n = 0 THEN 0 ELSE g[n - 1] + Size[s[n]]]
  <1>1. IsSum(G, s, Len(s))
    <2>1. \E g : g = [n \in 0..Len(s) |-> IF n = 0 THEN 0 ELSE g[n - 1] + Size[s[n]]]
      BY SumExists DEF IsSum
    <2> QED BY <2>1 DEF IsSum
  <1>2. EventBytes(s) = G[Len(s)]
    BY DEF EventBytes
  <1> QED BY <1>1, <1>2

\* Sequences with the same first k events have the same sums up to k, and sums
\* are numbers.
LEMMA SumAgrees ==
    ASSUME NEW s \in Seq(Events), NEW t \in Seq(Events), NEW k \in Nat,
           k <= Len(s), k <= Len(t), \A i \in 1..k : s[i] = t[i],
           NEW g, IsSum(g, s, Len(s)), NEW h, IsSum(h, t, Len(t))
    PROVE  g[k] = h[k] /\ g[k] \in Nat
  <1> DEFINE P == {m \in Nat : m <= k => g[m] = h[m] /\ g[m] \in Nat}
  <1>0. Len(s) \in Nat /\ Len(t) \in Nat
    OBVIOUS
  <1>1. 0 \in P
    BY <1>0 DEF IsSum
  <1>2. ASSUME NEW m \in Nat, m \in P PROVE m + 1 \in P
    <2> SUFFICES ASSUME m + 1 <= k PROVE g[m + 1] = h[m + 1] /\ g[m + 1] \in Nat
      OBVIOUS
    <2>1. /\ m + 1 \in 0..Len(s) /\ m + 1 \in 0..Len(t) /\ m + 1 \in 1..k
          /\ m + 1 # 0 /\ (m + 1) - 1 = m /\ m <= k
      BY <1>0
    <2>2. g[m + 1] = g[m] + Size[s[m + 1]]
      BY <2>1 DEF IsSum
    <2>3. h[m + 1] = h[m] + Size[t[m + 1]]
      BY <2>1 DEF IsSum
    <2>4. s[m + 1] = t[m + 1] /\ s[m + 1] \in Events
      BY <1>0, <2>1
    <2>5. Size[s[m + 1]] \in Nat
      BY <2>4, EnvironmentAssumption
    <2>6. g[m] = h[m] /\ g[m] \in Nat
      BY <1>2, <2>1
    <2> QED BY <2>2, <2>3, <2>4, <2>5, <2>6
  <1> HIDE DEF P
  <1>3. Nat \subseteq P
    BY <1>1, <1>2, InductiveSet
  <1> QED BY <1>3 DEF P

\* What an event adds to a batch is its size.
LEMMA EventBytesFacts ==
    /\ EventBytes(<<>>) = 0
    /\ \A s \in Seq(Events) : EventBytes(s) \in Nat
    /\ \A s \in Seq(Events), e \in Events : EventBytes(Append(s, e)) = EventBytes(s) + Size[e]
  <1>1. EventBytes(<<>>) = 0
    <2>1. <<>> \in Seq(Events) /\ Len(<<>>) = 0
      OBVIOUS
    <2>2. PICK g : IsSum(g, <<>>, 0) /\ EventBytes(<<>>) = g[0]
      BY <2>1, SumValue
    <2> QED BY <2>2 DEF IsSum
  <1>2. ASSUME NEW s \in Seq(Events) PROVE EventBytes(s) \in Nat
    <2>1. PICK g : IsSum(g, s, Len(s)) /\ EventBytes(s) = g[Len(s)]
      BY SumValue
    <2>2. Len(s) \in Nat /\ Len(s) <= Len(s)
      OBVIOUS
    <2> QED BY <2>1, <2>2, SumAgrees
  <1>3. ASSUME NEW s \in Seq(Events), NEW e \in Events
        PROVE  EventBytes(Append(s, e)) = EventBytes(s) + Size[e]
    <2> DEFINE t == Append(s, e)
    <2>1. /\ t \in Seq(Events) /\ Len(t) = Len(s) + 1 /\ Len(s) \in Nat
          /\ \A i \in 1..Len(s) : s[i] = t[i]
          /\ t[Len(s) + 1] = e
      OBVIOUS
    <2> HIDE DEF t
    <2>2. PICK g : IsSum(g, s, Len(s)) /\ EventBytes(s) = g[Len(s)]
      BY SumValue
    <2>3. PICK h : IsSum(h, t, Len(t)) /\ EventBytes(t) = h[Len(t)]
      BY <2>1, SumValue
    <2>4. Len(s) <= Len(s) /\ Len(s) <= Len(t)
      BY <2>1
    <2>5. g[Len(s)] = h[Len(s)]
      BY <2>1, <2>2, <2>3, <2>4, SumAgrees
    <2>6. Len(t) \in 0..Len(t) /\ Len(t) # 0 /\ Len(t) - 1 = Len(s)
      BY <2>1
    <2>7. h[Len(t)] = h[Len(s)] + Size[t[Len(t)]]
      BY <2>3, <2>6 DEF IsSum
    <2> QED BY <2>1, <2>2, <2>3, <2>5, <2>7 DEF t
  <1> QED BY <1>1, <1>2, <1>3

\* BatchLimits is not inductive: size must be what the batch weighs, and a
\* worker that goes on receiving must have room left. A comma is counted for
\* every event, which is one more than the body has.
LaneLimits(l) ==
    /\ pc[l] # "done" => size[l] = Envelope + EventBytes(batch[l]) + Len(batch[l])
    /\ pc[l] = "select" /\ batch[l] # <<>> => Len(batch[l]) < BatchEvents
    /\ pc[l] \in {"select", "send", "attempt", "sleep"} /\ Len(batch[l]) > 1
          => size[l] <= BatchBytes
    /\ pc[l] \in {"send", "attempt", "sleep"} => Len(batch[l]) \in 1..BatchEvents

LimitsInv == OrderInv /\ ShutdownInv /\ \A l \in Lanes : LaneLimits(l)

LEMMA LimitsInit == Init => LimitsInv
  <1> SUFFICES ASSUME Init PROVE LimitsInv
    OBVIOUS
  <1>1. Envelope \in Nat
    BY EnvironmentAssumption
  <1>2. ASSUME NEW l \in Lanes PROVE LaneLimits(l)
    <2>1. size[l] = Envelope /\ batch[l] = <<>> /\ pc[l] = "new" /\ Len(batch[l]) = 0
      BY DEF Init
    <2> QED BY <1>1, <2>1, EventBytesFacts DEF LaneLimits
  <1> QED BY <1>2, OrderInit, ShutdownInit DEF LimitsInv

\* Adding an event to a batch that has room for it, or to an empty one.
LEMMA AddLimits ==
    ASSUME TypeOK, NEW l \in Lanes, LaneLimits(l), NEW e \in Events, Add(l, e),
           pc[l] # "done",
           batch[l] # <<>> => Len(batch[l]) < BatchEvents /\ ~OverBudget(l, e)
    PROVE  LaneLimits(l)'
  <1> DEFINE n == Len(batch[l])
             z == size[l] + Size[e] + 1
  <1>1. /\ batch[l] \in Seq(Events) /\ size[l] \in Nat
        /\ batch'[l] = Append(batch[l], e) /\ size'[l] = z
        /\ pc'[l] = IF Full(n + 1, z) THEN "send" ELSE "select"
    BY DEF TypeOK, Add
  <1>2. /\ n \in Nat /\ Len(batch'[l]) = n + 1 /\ (n = 0 <=> batch[l] = <<>>)
        /\ EventBytes(batch[l]) \in Nat /\ Size[e] \in Nat /\ Envelope \in Nat
        /\ EventBytes(batch'[l]) = EventBytes(batch[l]) + Size[e]
    BY <1>1, EventBytesFacts, EnvironmentAssumption
  <1>3. size[l] = Envelope + EventBytes(batch[l]) + n
    BY DEF LaneLimits
  <1>4. BatchEvents \in Nat /\ BatchEvents >= 1 /\ BatchBytes \in Nat
    BY ConfigAssumption
  <1>5. n + 1 <= BatchEvents /\ (n + 1 > 1 => z <= BatchBytes)
    BY <1>1, <1>2, <1>4 DEF OverBudget
  <1>6. size'[l] = Envelope + EventBytes(batch'[l]) + Len(batch'[l])
    <2> DEFINE a == EventBytes(batch[l])
    <2>1. a \in Nat /\ Size[e] \in Nat /\ n \in Nat /\ Envelope \in Nat
      BY <1>2
    <2>2. EventBytes(batch'[l]) = a + Size[e] /\ Len(batch'[l]) = n + 1
      BY <1>2
    <2>3. size[l] = Envelope + a + n
      BY <1>3
    <2>4. size'[l] = size[l] + Size[e] + 1
      BY <1>1
    <2>5. \A i, j, k, o \in Nat : (i + j + k) + o + 1 = i + (j + o) + (k + 1)
      OBVIOUS
    <2> HIDE DEF a, n
    <2>6. (Envelope + a + n) + Size[e] + 1 = Envelope + (a + Size[e]) + (n + 1)
      BY <2>1, <2>5
    <2> QED BY <2>2, <2>3, <2>4, <2>6
  <1>8. z \in Nat /\ size'[l] = z /\ Len(batch'[l]) = n + 1 /\ pc'[l] \in {"send", "select"}
    BY <1>1, <1>2
  <1> HIDE DEF n, z
  <1>7. pc'[l] = "select" => n + 1 < BatchEvents
    BY <1>1, <1>2, <1>4, <1>5 DEF Full
  <1>9. Len(batch'[l]) \in 1..BatchEvents
    BY <1>2, <1>4, <1>5, <1>8
  <1>10. Len(batch'[l]) > 1 => size'[l] <= BatchBytes
    BY <1>5, <1>8
  <1>11. pc'[l] = "select" => Len(batch'[l]) < BatchEvents
    BY <1>7, <1>8
  <1> QED BY <1>6, <1>9, <1>10, <1>11 DEF LaneLimits

\* A step that leaves a lane's batch alone.
LEMMA LimitsKept ==
    ASSUME TypeOK, NEW l \in Lanes, LaneLimits(l), batch'[l] = batch[l], size'[l] = size[l],
           \/ pc'[l] = pc[l]
           \/ pc[l] # "done" /\ pc'[l] = "done"
           \/ pc[l] = "select" /\ pc'[l] = "send" /\ batch[l] # <<>>
           \/ pc[l] \in {"send", "attempt", "sleep"} /\ pc'[l] \in {"send", "attempt", "sleep"}
           \/ pc[l] # "done" /\ batch[l] = <<>> /\ pc'[l] = "select"
    PROVE  LaneLimits(l)'
  <1>1. /\ Len(batch[l]) \in Nat /\ (Len(batch[l]) = 0 <=> batch[l] = <<>>)
        /\ BatchEvents \in Nat /\ BatchBytes \in Nat
    BY ConfigAssumption DEF TypeOK
  <1> QED BY <1>1 DEF LaneLimits

LEMMA LimitsStep == LimitsInv /\ [Next]_vars => LimitsInv'
  <1> SUFFICES ASSUME LimitsInv, [Next]_vars PROVE LimitsInv'
    OBVIOUS
  <1>0. TypeOK /\ OrderInv /\ ShutdownInv /\ OrderInv' /\ ShutdownInv'
    BY OrderStep, ShutdownStep DEF LimitsInv, OrderInv, ConsInv, TypeInv
  <1>1. ASSUME NEW l \in Lanes, LaneLimits(l)',
               \A m \in Lanes \ {l} : pc'[m] = pc[m] /\ batch'[m] = batch[m] /\ size'[m] = size[m]
        PROVE  LimitsInv'
    <2>1. ASSUME NEW m \in Lanes \ {l} PROVE LaneLimits(m)'
      BY <1>0, <1>1, LimitsKept DEF LimitsInv
    <2> QED BY <1>0, <1>1, <2>1 DEF LimitsInv
  <1>2. CASE UNCHANGED <<pc, batch, size>>
    BY <1>0, <1>2, LimitsKept DEF LimitsInv
  <1>3. ASSUME NEW p \in Producers, NEW l \in Lanes, Enqueue(p, l) PROVE LimitsInv'
    BY <1>2, <1>3 DEF Enqueue, EnqueueSend, EnqueueCount, EnqueueDrop, workerVars
  <1>4. ASSUME NEW l \in Lanes, Run(l) PROVE LimitsInv'
    <2>0. LaneLimits(l) /\ LaneOrder(l)
      BY <1>0 DEF LimitsInv, OrderInv
    <2>1. CASE ReceiveUnencodable(l)
      BY <1>2, <2>1 DEF ReceiveUnencodable, workerVars
    <2>2. CASE ReceiveIntoBatch(l)
      <3>1. Dequeue(l) /\ Add(l, Head(queue[l])) /\ ~OverBudget(l, Head(queue[l])) /\ pc[l] = "select"
        BY <2>2 DEF ReceiveIntoBatch, Dequeue
      <3>2. Head(queue[l]) \in Events
        BY <1>0, <3>1, DequeueFacts
      <3>3. LaneLimits(l)'
        BY <1>0, <2>0, <3>1, <3>2, AddLimits DEF LaneLimits
      <3>4. \A m \in Lanes \ {l} : pc'[m] = pc[m] /\ batch'[m] = batch[m] /\ size'[m] = size[m]
        BY <1>0, <3>1 DEF Add, TypeOK
      <3> QED BY <1>1, <3>3, <3>4
    <2>3. CASE ReceiveOverBudget(l) \/ QueueClosed(l) \/ Flush(l)
      <3>1. /\ UNCHANGED <<batch, size>> /\ pc[l] = "select"
            /\ pc'[l] = "done" \/ (pc'[l] = "send" /\ batch[l] # <<>>)
            /\ \A m \in Lanes \ {l} : pc'[m] = pc[m]
        BY <1>0, <2>3
        DEF ReceiveOverBudget, Dequeue, OverBudget, QueueClosed, Flush, Goto, TypeOK
      <3>2. LaneLimits(l)'
        BY <1>0, <2>0, <3>1, LimitsKept
      <3> QED BY <1>1, <3>1, <3>2
    <2>4. CASE Abandon(l)
      <3>1. /\ size' = size /\ pc'[l] = "done" /\ batch'[l] = <<>>
            /\ \A m \in Lanes \ {l} : pc'[m] = pc[m] /\ batch'[m] = batch[m]
        BY <1>0, <2>4 DEF Abandon, Goto, TypeOK
      <3>2. LaneLimits(l)'
        BY <3>1 DEF LaneLimits
      <3> QED BY <1>1, <3>1, <3>2
    <2>5. CASE Resume(l)
      <3>1. pc[l] = "resume" /\ batch[l] = <<>>
        BY <2>0, <2>5 DEF Resume, LaneOrder, Places
      <3>2. CASE carry[l] = 0
        <4>1. /\ UNCHANGED <<batch, size>> /\ pc'[l] = "select"
              /\ \A m \in Lanes \ {l} : pc'[m] = pc[m]
          BY <1>0, <2>5, <3>2 DEF Resume, Goto, TypeOK
        <4>2. LaneLimits(l)'
          BY <1>0, <2>0, <3>1, <4>1, LimitsKept
        <4> QED BY <1>1, <4>1, <4>2
      <3>3. CASE carry[l] # 0
        <4>1. Add(l, carry[l]) /\ carry[l] \in Events
          BY <1>0, <2>5, <3>3 DEF Resume, TypeOK
        <4>2. LaneLimits(l)'
          BY <1>0, <2>0, <3>1, <4>1, AddLimits
        <4>3. \A m \in Lanes \ {l} : pc'[m] = pc[m] /\ batch'[m] = batch[m] /\ size'[m] = size[m]
          BY <1>0, <4>1 DEF Add, TypeOK
        <4> QED BY <1>1, <4>2, <4>3
      <3> QED BY <3>2, <3>3
    <2> QED BY <1>4, <2>1, <2>2, <2>3, <2>4, <2>5 DEF Run
  <1>5. ASSUME NEW l \in Lanes, Deliver(l) PROVE LimitsInv'
    <2>0. LaneLimits(l)
      BY DEF LimitsInv
    <2>1. CASE BeginBatch(l) \/ AttemptRetries(l) \/ Wake(l)
      <3>1. /\ UNCHANGED <<batch, size>> /\ \A m \in Lanes \ {l} : pc'[m] = pc[m]
            /\ pc[l] \in {"send", "attempt", "sleep"} /\ pc'[l] \in {"send", "attempt", "sleep"}
        BY <1>0, <2>1 DEF BeginBatch, AttemptRetries, Wake, Goto, TypeOK
      <3>2. LaneLimits(l)'
        BY <1>0, <2>0, <3>1, LimitsKept
      <3> QED BY <1>1, <3>1, <3>2
    <2>2. CASE AttemptSucceeds(l) \/ AttemptAborted(l) \/ AttemptFinal(l) \/ SleepAborted(l)
      <3>1. /\ batch'[l] = <<>> /\ size'[l] = Envelope /\ pc'[l] = "resume"
            /\ \A m \in Lanes \ {l} : pc'[m] = pc[m] /\ batch'[m] = batch[m] /\ size'[m] = size[m]
        BY <1>0, <2>2
        DEF AttemptSucceeds, AttemptAborted, AttemptFinal, SleepAborted, EndBatch, Goto, TypeOK
      <3>2. Len(batch'[l]) = 0 /\ EventBytes(batch'[l]) = 0 /\ Envelope \in Nat
        BY <3>1, EventBytesFacts, EnvironmentAssumption
      <3>3. LaneLimits(l)'
        BY <3>1, <3>2 DEF LaneLimits
      <3> QED BY <1>1, <3>1, <3>3
    <2> QED BY <1>5, <2>1, <2>2 DEF Deliver
  <1>6. CASE Start
    <2>1. \A l \in Lanes : pc[l] = "new" /\ pc'[l] = "select" /\ batch[l] = <<>>
      BY <1>0, <1>6 DEF Start, ShutdownInv, OrderInv, LaneOrder, Places
    <2>2. UNCHANGED <<batch, size>>
      BY <1>6 DEF Start
    <2>3. \A l \in Lanes : LaneLimits(l)'
      BY <1>0, <2>1, <2>2, LimitsKept DEF LimitsInv
    <2> QED BY <1>0, <2>3 DEF LimitsInv
  <1>7. CASE Close \/ UNCHANGED vars \/ \E l \in Lanes : ReporterTakes(l)
    BY <1>2, <1>7
    DEF Close, CloseBegin, CloseDeadline, CloseJoined, CloseReturn, CloseCollect, CloseRest,
        vars, workerVars, ReporterTakes
  <1> QED BY <1>3, <1>4, <1>5, <1>6, <1>7 DEF Next, Worker, Terminated

\* Order and limits together, for every envelope, budget and size of events.
THEOREM BatchingHolds == Spec => []Batching
  <1>1. LimitsInv => Batching
    <2> SUFFICES ASSUME LimitsInv PROVE Batching
      OBVIOUS
    <2>1. InOrder
      BY DEF LimitsInv, OrderInv
    <2>2. ASSUME NEW l \in Lanes, pc[l] \in {"send", "attempt", "sleep"}
          PROVE  /\ Len(batch[l]) \in 1..BatchEvents
                 /\ Len(batch[l]) > 1 => BodyBytes(batch[l]) <= BatchBytes
      <3>1. batch[l] \in Seq(Events) /\ BatchBytes \in Nat /\ Envelope \in Nat
        BY ConfigAssumption, EnvironmentAssumption
        DEF LimitsInv, OrderInv, ConsInv, TypeInv, TypeOK
      <3>2. Len(batch[l]) \in Nat /\ EventBytes(batch[l]) \in Nat
        BY <3>1, EventBytesFacts
      <3>3. LaneLimits(l)
        BY DEF LimitsInv
      <3> QED BY <2>2, <3>1, <3>2, <3>3 DEF LaneLimits, BodyBytes
    <2> QED BY <2>1, <2>2 DEF Batching, BatchLimits
  <1> QED BY LimitsInit, LimitsStep, <1>1, PTL DEF Spec

-----------------------------------------------------------------------------
(* What Close leaves                                                       *)

\* An ascending sequence has as many elements as its length says.
LEMMA AscendingCount ==
    ASSUME NEW s \in Seq(Events), Ascending(s)
    PROVE  IsFiniteSet(Range(s)) /\ Cardinality(Range(s)) = Len(s)
  <1> DEFINE n == Len(s)
  <1>1. n \in Nat /\ DOMAIN s = 1..n /\ s \in [1..n -> Range(s)]
    BY DEF Range
  <1>2. IsFiniteSet(1..n) /\ Cardinality(1..n) = n
    <2>1. 1 \in Int /\ n \in Int
      BY <1>1
    <2>2. /\ IsFiniteSet(1..n)
          /\ Cardinality(1..n) = IF 1 > n THEN 0 ELSE n - 1 + 1
      BY <2>1, FS_Interval
    <2> QED BY <1>1, <2>2
  <1>3. ASSUME NEW i \in 1..n, NEW j \in 1..n, s[i] = s[j] PROVE i = j
    <2>1. s[i] \in Nat /\ s[j] \in Nat
      BY <1>1, RangeType
    <2> QED BY <1>1, <1>3, <2>1 DEF Ascending
  <1>4. s \in Bijection(1..n, Range(s))
    BY <1>1, <1>3 DEF Bijection, Injection, IsInjective, Surjection, Range
  <1> QED BY <1>1, <1>2, <1>4, FS_Bijection DEF ExistsBijection

\* The events a lane's counters tell of, and how many they are.
Outcomes == {"delivered", "failed", "undelivered", "dropped"}
Met(l, c) == {e \in Events : fate[l][e] = c}
Tally(l) == \A c \in Outcomes : stats[l][c] = Cardinality(Met(l, c))

\* The numbers CloseAccounts compares are those of finite sets.
LEMMA MetFinite == \A l, c : IsFiniteSet(Met(l, c)) /\ Cardinality(Met(l, c)) \in Nat
  <1>1. IsFiniteSet(Events)
    <2>1. 1 \in Int /\ MaxCalls \in Int
      BY EnvironmentAssumption
    <2> QED BY <2>1, FS_Interval DEF Events
  <1>2. \A l, c : Met(l, c) \in SUBSET Events
    BY DEF Met
  <1> QED BY <1>1, <1>2, FS_Subset, FS_CardinalityType

\* What CloseAccounts needs to be inductive: while Enqueue may run, nothing is
\* closed; Close collects only when the workers are gone; and the counters tell
\* what happened to the events all along.
AccountInv ==
    /\ OrderInv /\ ShutdownInv
    /\ \A l \in Lanes : Tally(l)
    /\ closed => Unlocked
    /\ closer = "returned" =>
          /\ ~started \/ AllDone
          /\ \A l \in Lanes : queue[l] = <<>>
          /\ lost <=> \E l \in Lanes : Met(l, "undelivered") # {}

\* Events that had no outcome yet get one, and its counter grows by their
\* number.
LEMMA TallySettle ==
    ASSUME TypeOK, NEW l \in Lanes, Tally(l), NEW f \in Outcomes, NEW B \in SUBSET Events,
           \A e \in B : fate[l][e] \in {"none", "pending"},
           Settle(l, B, f), Count(l, f, Cardinality(B))
    PROVE  \A m \in Lanes : Tally(m) => Tally(m)'
  <1>1. \A m \in Lanes, e \in Events : fate'[m][e] = IF m = l /\ e \in B THEN f ELSE fate[m][e]
    BY SettleType DEF TypeOK, Fates, Outcomes
  <1>2. Outcomes \subseteq Counters /\ "none" \notin Outcomes /\ "pending" \notin Outcomes
    BY DEF Outcomes, Counters
  <1>3. IsFiniteSet(Met(l, f)) /\ Cardinality(Met(l, f)) \in Nat
    BY MetFinite
  <1>4. IsFiniteSet(B) /\ Cardinality(B) \in Nat
    <2>1. IsFiniteSet(Events)
      <3>1. 1 \in Int /\ MaxCalls \in Int
        BY EnvironmentAssumption
      <3> QED BY <3>1, FS_Interval DEF Events
    <2> QED BY <2>1, FS_Subset, FS_CardinalityType
  <1>5. /\ stats'[l][f] = stats[l][f] + Cardinality(B)
        /\ \A m \in Lanes, d \in Counters : (m # l \/ d # f) => stats'[m][d] = stats[m][d]
    BY <1>2, <1>4, CountType DEF TypeOK
  <1>6. \A m \in Lanes, d \in Outcomes : (m # l \/ d # f) => Met(m, d)' = Met(m, d)
    BY <1>1, <1>2 DEF Met
  <1>7. Met(l, f)' = Met(l, f) \cup B /\ Met(l, f) \cap B = {}
    BY <1>1, <1>2 DEF Met
  <1>8. Cardinality(Met(l, f)') = Cardinality(Met(l, f)) + Cardinality(B)
    <2>1. Cardinality(Met(l, f) \cup B) =
             Cardinality(Met(l, f)) + Cardinality(B) - Cardinality(Met(l, f) \cap B)
      BY <1>3, <1>4, FS_Union
    <2>2. Cardinality({}) = 0
      BY FS_EmptySet
    <2>3. \A i, j \in Nat : i + j - 0 = i + j
      OBVIOUS
    <2> QED BY <1>3, <1>4, <1>7, <2>1, <2>2, <2>3
  <1> SUFFICES ASSUME NEW m \in Lanes, Tally(m), NEW d \in Outcomes
               PROVE  stats'[m][d] = Cardinality(Met(m, d)')
    BY DEF Tally
  <1>9. CASE m # l \/ d # f
    BY <1>2, <1>5, <1>6, <1>9 DEF Tally
  <1>10. CASE m = l /\ d = f
    BY <1>5, <1>8, <1>10 DEF Tally
  <1> QED BY <1>9, <1>10

\* Counters and fates that no outcome depends on.
LEMMA TallyKept ==
    ASSUME NEW m \in Lanes, Tally(m),
           \A c \in Outcomes : stats'[m][c] = stats[m][c] /\ Met(m, c)' = Met(m, c)
    PROVE  Tally(m)'
  BY DEF Tally

\* A step that settles events as f and counts them.
LEMMA TallySettles ==
    ASSUME AccountInv, NEW l \in Lanes, NEW f \in Outcomes, NEW B \in SUBSET Hands(l),
           Settle(l, B, f), NEW n \in Nat, n = Cardinality(B), Count(l, f, n)
    PROVE  \A m \in Lanes : Tally(m)'
  <1>1. TypeOK /\ OrderInv /\ LaneOrder(l)
    BY DEF AccountInv, OrderInv, ConsInv, TypeInv
  <1>2. B \in SUBSET Events
    BY <1>1, LaneTypes
  <1>3. \A e \in B : fate[l][e] \in {"none", "pending"}
    BY <1>1, <1>2 DEF LaneOrder, Owing
  <1> QED BY <1>1, <1>2, <1>3, TallySettle DEF AccountInv

\* A step that settles nothing.
LEMMA TallySame ==
    ASSUME AccountInv, UNCHANGED fate,
           \A m \in Lanes, c \in Outcomes : stats'[m][c] = stats[m][c]
    PROVE  \A m \in Lanes : Tally(m)'
  BY TallyKept DEF AccountInv, Met

\* What a lane holds is as much as its counters are told it is.
LEMMA HandCounts ==
    ASSUME OrderInv, NEW l \in Lanes
    PROVE  /\ Len(batch[l]) \in Nat /\ Len(batch[l]) = Cardinality(Range(batch[l]))
           /\ Len(queue[l]) \in Nat /\ Len(queue[l]) = Cardinality(Range(queue[l]))
           /\ Len(batch[l]) + Len(queue[l]) = Cardinality(Range(batch[l]) \cup Range(queue[l]))
  <1> DEFINE A == Range(batch[l])
             B == Range(queue[l])
  <1>1. /\ batch[l] \in Seq(Events) /\ queue[l] \in Seq(Events) /\ A \subseteq Nat
        /\ Ascending(batch[l]) /\ Ascending(queue[l]) /\ Before(A, B)
    BY LaneTypes DEF OrderInv, ConsInv, TypeInv, LaneOrder, InLine
  <1>2. /\ Len(batch[l]) \in Nat /\ Len(queue[l]) \in Nat
        /\ IsFiniteSet(A) /\ Cardinality(A) = Len(batch[l])
        /\ IsFiniteSet(B) /\ Cardinality(B) = Len(queue[l])
    BY <1>1, AscendingCount
  <1>3. A \cap B = {}
    BY <1>1 DEF Before
  <1>4. Cardinality(A \cup B) = Cardinality(A) + Cardinality(B) - Cardinality(A \cap B)
    BY <1>2, FS_Union
  <1>5. Cardinality({}) = 0
    BY FS_EmptySet
  <1>6. \A i, j \in Nat : i + j - 0 = i + j
    OBVIOUS
  <1> QED BY <1>2, <1>3, <1>4, <1>5, <1>6

\* The outcome of a new call was none.
LEMMA CallTally ==
    ASSUME AccountInv, NEW p \in Producers, NEW l \in Lanes, EnqueueSend(p, l) \/ EnqueueDrop(p, l)
    PROVE  /\ \A m \in Lanes : Tally(m)'
           /\ \A m \in Lanes : Met(m, "undelivered")' = Met(m, "undelivered")
  <1> DEFINE n == calls + 1
  <1>0. TypeOK /\ LaneOrder(l)
    BY DEF AccountInv, OrderInv, ConsInv, TypeInv
  <1>1. n \in Events /\ n > calls
    BY <1>0, EnvironmentAssumption DEF EnqueueSend, EnqueueDrop, TypeOK, Events
  <1>2. fate[l][n] = "none"
    BY <1>0, <1>1 DEF LaneOrder, Owing
  <1> HIDE DEF n
  <1>3. CASE EnqueueSend(p, l)
    <2>1. Settle(l, {n}, "pending") /\ stats' = stats
      BY <1>3 DEF EnqueueSend, n
    <2>2. \A m \in Lanes, e \in Events : fate'[m][e] = IF m = l /\ e = n THEN "pending" ELSE fate[m][e]
      BY <1>0, <2>1, SettleType DEF TypeOK, Fates
    <2>3. \A m \in Lanes, c \in Outcomes : Met(m, c)' = Met(m, c)
      BY <1>2, <2>2 DEF Met, Outcomes
    <2> QED BY <2>1, <2>3, TallyKept DEF AccountInv, Outcomes
  <1>4. CASE EnqueueDrop(p, l)
    <2>1. Settle(l, {n}, "dropped") /\ Count(l, "dropped", 1)
      BY <1>4 DEF EnqueueDrop, n
    <2>2. \A m \in Lanes, e \in Events : fate'[m][e] = IF m = l /\ e = n THEN "dropped" ELSE fate[m][e]
      BY <1>0, <2>1, SettleType DEF TypeOK, Fates
    <2>3. \A m \in Lanes : Met(m, "undelivered")' = Met(m, "undelivered")
      BY <1>2, <2>2 DEF Met
    <2>4. {n} \in SUBSET Events /\ Cardinality({n}) = 1 /\ "dropped" \in Outcomes
      BY <1>1, FS_Singleton DEF Outcomes
    <2>5. Count(l, "dropped", Cardinality({n}))
      BY <2>1, <2>4
    <2>6. \A e \in {n} : fate[l][e] \in {"none", "pending"}
      BY <1>2
    <2> QED BY <1>0, <2>1, <2>3, <2>4, <2>5, <2>6, TallySettle DEF AccountInv
  <1> QED BY <1>3, <1>4

LEMMA TallyStep == AccountInv /\ [Next]_vars => \A m \in Lanes : Tally(m)'
  <1> SUFFICES ASSUME AccountInv, [Next]_vars PROVE \A m \in Lanes : Tally(m)'
    OBVIOUS
  <1>0. TypeOK /\ OrderInv
    BY DEF AccountInv, OrderInv, ConsInv, TypeInv
  <1>00. stats \in [Lanes -> [Counters -> Nat]] /\ Outcomes \subseteq Counters
    BY <1>0 DEF TypeOK, Outcomes, Counters
  <1>000. ASSUME NEW l \in Lanes, NEW c \in Counters \ Outcomes, Count(l, c, 1), UNCHANGED fate
          PROVE  \A m \in Lanes : Tally(m)'
    BY <1>00, <1>000, CountType, TallySame
  <1>1. ASSUME NEW p \in Producers, NEW l \in Lanes, Enqueue(p, l)
        PROVE  \A m \in Lanes : Tally(m)'
    <2>1. CASE EnqueueSend(p, l) \/ EnqueueDrop(p, l)
      BY <2>1, CallTally
    <2>2. CASE EnqueueCount(p, l)
      <3>1. Count(l, "enqueued", 1) /\ UNCHANGED fate /\ "enqueued" \in Counters \ Outcomes
        BY <2>2 DEF EnqueueCount, Counters, Outcomes
      <3> QED BY <1>000, <3>1
    <2> QED BY <1>1, <2>1, <2>2 DEF Enqueue
  <1>2. ASSUME NEW l \in Lanes, ReceiveUnencodable(l) PROVE \A m \in Lanes : Tally(m)'
    <2> DEFINE h == Head(queue[l])
    <2>1. Dequeue(l) /\ Settle(l, {h}, "failed") /\ Count(l, "failed", 1)
      BY <1>2 DEF ReceiveUnencodable
    <2>2. {h} \in SUBSET Hands(l)
      BY <1>0, <2>1, DequeueFacts
    <2> HIDE DEF h
    <2>3. 1 = Cardinality({h}) /\ 1 \in Nat /\ "failed" \in Outcomes
      BY FS_Singleton DEF Outcomes
    <2> QED BY <2>1, <2>2, <2>3, TallySettles
  <1>3. ASSUME NEW l \in Lanes, Abandon(l) PROVE \A m \in Lanes : Tally(m)'
    <2> DEFINE B == Range(batch[l]) \cup Range(queue[l])
               n == Len(batch[l]) + Len(queue[l])
    <2>1. Settle(l, B, "undelivered") /\ Count(l, "undelivered", n)
      BY <1>3 DEF Abandon
    <2>2. n = Cardinality(B) /\ "undelivered" \in Outcomes
      BY <1>0, HandCounts DEF Outcomes
    <2>3. B \in SUBSET Hands(l)
      BY DEF Hands
    <2>4. n \in Nat
      <3>1. Len(batch[l]) \in Nat /\ Len(queue[l]) \in Nat
        BY <1>0, HandCounts
      <3>2. \A i, j \in Nat : i + j \in Nat
        OBVIOUS
      <3> QED BY <3>1, <3>2
    <2> HIDE DEF B, n
    <2> QED BY <2>1, <2>2, <2>3, <2>4, TallySettles
  <1>4. ASSUME NEW l \in Lanes, CloseCollect(l) PROVE \A m \in Lanes : Tally(m)'
    <2> DEFINE B == Range(queue[l])
               n == Len(queue[l])
    <2>1. Settle(l, B, "undelivered") /\ Count(l, "undelivered", n)
      BY <1>4 DEF CloseCollect
    <2>2. n \in Nat /\ n = Cardinality(B) /\ "undelivered" \in Outcomes
      BY <1>0, HandCounts DEF Outcomes
    <2>3. B \in SUBSET Hands(l)
      BY DEF Hands
    <2> HIDE DEF B, n
    <2> QED BY <2>1, <2>2, <2>3, TallySettles
  <1>5. ASSUME NEW l \in Lanes, NEW c \in {"delivered", "failed", "undelivered"}, EndBatch(l, c)
        PROVE  \A m \in Lanes : Tally(m)'
    <2> DEFINE B == Range(batch[l])
               n == Len(batch[l])
    <2>1. Settle(l, B, c) /\ Count(l, c, n)
      BY <1>5 DEF EndBatch
    <2>2. n \in Nat /\ n = Cardinality(B) /\ c \in Outcomes
      BY <1>0, HandCounts DEF Outcomes
    <2>3. B \in SUBSET Hands(l)
      BY DEF Hands
    <2> HIDE DEF B, n
    <2> QED BY <2>1, <2>2, <2>3, TallySettles
  <1>6. ASSUME NEW l \in Lanes, AttemptRetries(l) PROVE \A m \in Lanes : Tally(m)'
    <2>1. Count(l, "retries", 1) /\ UNCHANGED fate /\ "retries" \in Counters \ Outcomes
      BY <1>6 DEF AttemptRetries, Counters, Outcomes
    <2> QED BY <1>000, <2>1
  <1>7. CASE UNCHANGED <<stats, fate>>
    BY <1>7, TallySame
  <1>8. ASSUME NEW l \in Lanes, ReceiveIntoBatch(l) \/ ReceiveOverBudget(l) \/ QueueClosed(l)
                                \/ Flush(l) \/ Resume(l) \/ BeginBatch(l) \/ Wake(l)
                                \/ ReporterTakes(l)
        PROVE  \A m \in Lanes : Tally(m)'
    BY <1>7, <1>8
    DEF ReceiveIntoBatch, ReceiveOverBudget, QueueClosed, Flush, Resume, BeginBatch, Wake,
        ReporterTakes
  <1>9. CASE Start \/ CloseBegin \/ CloseDeadline \/ CloseJoined \/ CloseReturn \/ UNCHANGED vars
    BY <1>7, <1>9 DEF Start, CloseBegin, CloseDeadline, CloseJoined, CloseReturn, vars
  <1> QED BY <1>1, <1>2, <1>3, <1>4, <1>5, <1>6, <1>8, <1>9
          DEF Next, Worker, Run, Deliver, Close, Terminated, AttemptSucceeds, AttemptAborted,
              AttemptFinal, SleepAborted

LEMMA AccountInit == Init => AccountInv
  <1> SUFFICES ASSUME Init PROVE AccountInv
    OBVIOUS
  <1>1. ASSUME NEW l \in Lanes, NEW c \in Outcomes PROVE stats[l][c] = Cardinality(Met(l, c))
    <2>1. stats[l][c] = 0
      BY DEF Init, Outcomes, Counters
    <2>2. Met(l, c) = {}
      BY DEF Init, Met, Outcomes
    <2> QED BY <2>1, <2>2, FS_EmptySet
  <1> QED BY <1>1, OrderInit, ShutdownInit DEF Init, AccountInv, Tally

LEMMA AccountStep == AccountInv /\ [Next]_vars => AccountInv'
  <1> SUFFICES ASSUME AccountInv, [Next]_vars PROVE AccountInv'
    OBVIOUS
  <1>0. OrderInv' /\ ShutdownInv' /\ \A l \in Lanes : Tally(l)'
    BY OrderStep, ShutdownStep, TallyStep DEF AccountInv
  <1>1. TypeOK /\ ShutdownInv
    BY DEF AccountInv, OrderInv, ConsInv, TypeInv
  <1> DEFINE Left == /\ ~started \/ AllDone
                     /\ \A l \in Lanes : queue[l] = <<>>
                     /\ lost <=> \E l \in Lanes : Met(l, "undelivered") # {}
  <1> SUFFICES (closed' => Unlocked') /\ (closer' = "returned" => Left')
    BY <1>0 DEF AccountInv
  <1>2. closer = "returned" => Left /\ \A l \in Lanes : pc[l] \in {"new", "done"}
    BY <1>1 DEF AccountInv, ShutdownInv, AllDone
  <1>3. closed => Unlocked
    BY DEF AccountInv
  <1>4. ASSUME NEW p \in Producers, NEW l \in Lanes, EnqueueSend(p, l) \/ EnqueueCount(p, l)
        PROVE  (closed' => Unlocked') /\ (closer' = "returned" => Left')
    <2>1. ~closed
      BY <1>3, <1>4 DEF EnqueueSend, EnqueueCount, Unlocked
    <2>2. ~closed' /\ closer' = closer /\ closer # "returned"
      BY <1>1, <1>4, <2>1 DEF EnqueueSend, EnqueueCount, closeVars, ShutdownInv
    <2> QED BY <2>2
  <1>5. ASSUME NEW p \in Producers, NEW l \in Lanes, EnqueueDrop(p, l)
        PROVE  (closed' => Unlocked') /\ (closer' = "returned" => Left')
    <2>1. /\ UNCHANGED <<uncounted, closed, closer, started, lost, queue, pc>>
          /\ \A m \in Lanes : Met(m, "undelivered")' = Met(m, "undelivered")
      BY <1>5, CallTally DEF EnqueueDrop, closeVars, workerVars
    <2> QED BY <1>2, <1>3, <2>1 DEF Unlocked, AllDone
  <1>6. ASSUME NEW l \in Lanes, Worker(l) \/ ReporterTakes(l)
        PROVE  (closed' => Unlocked') /\ (closer' = "returned" => Left')
    <2>1. /\ UNCHANGED <<uncounted, closed, closer>> /\ pc[l] \notin {"new", "done"}
      BY <1>6
      DEF Worker, Run, Deliver, ReceiveUnencodable, ReceiveIntoBatch, ReceiveOverBudget, Dequeue,
          QueueClosed, Flush, Abandon, Resume, BeginBatch, AttemptSucceeds, AttemptAborted,
          AttemptFinal, AttemptRetries, Wake, SleepAborted, EndBatch, WorkerOnly, ReporterTakes,
          closeVars
    <2> QED BY <1>2, <1>3, <2>1 DEF Unlocked
  <1>7. CASE Start
    <2>1. ~closed /\ closed' = closed /\ closer' = closer
      BY <1>7 DEF Start
    <2> QED BY <1>1, <2>1 DEF ShutdownInv
  <1>8. CASE CloseBegin \/ CloseDeadline \/ CloseJoined
    <2>1. closer' # "returned" /\ (closed' => Unlocked')
      BY <1>3, <1>8 DEF CloseBegin, CloseDeadline, CloseJoined, CloseRest, Unlocked
    <2> QED BY <2>1
  <1>9. CASE CloseReturn
    <2>1. /\ closer = "collecting" /\ UNCHANGED <<uncounted, queue, stats, fate, closed, started, pc>>
          /\ \A l \in Lanes : queue[l] = <<>>
          /\ lost' = \E l \in Lanes : stats[l]["undelivered"] > 0
      BY <1>9 DEF CloseReturn, CloseRest, workerVars
    <2>2. ASSUME NEW l \in Lanes PROVE stats[l]["undelivered"] > 0 <=> Met(l, "undelivered") # {}
      <3>1. stats[l]["undelivered"] = Cardinality(Met(l, "undelivered"))
        BY DEF AccountInv, Tally, Outcomes
      <3> QED BY <3>1, MetFinite, FS_EmptySet
    <2>3. \A l \in Lanes : Met(l, "undelivered")' = Met(l, "undelivered")
      BY <2>1 DEF Met
    <2> QED BY <1>1, <1>3, <2>1, <2>2, <2>3 DEF Unlocked, ShutdownInv, AllDone
  <1>10. ASSUME NEW l \in Lanes, CloseCollect(l)
         PROVE  (closed' => Unlocked') /\ (closer' = "returned" => Left')
    <2>1. closer' # "returned" /\ UNCHANGED <<closed, uncounted>>
      BY <1>10 DEF CloseCollect, CloseRest
    <2> QED BY <1>3, <2>1 DEF Unlocked
  <1>11. CASE UNCHANGED vars
    <2>1. UNCHANGED <<uncounted, closed, closer, started, lost, queue, pc, fate>>
      BY <1>11 DEF vars, closeVars, workerVars
    <2> QED BY <1>2, <1>3, <2>1 DEF Unlocked, AllDone, Met
  <1> QED BY <1>4, <1>5, <1>6, <1>7, <1>8, <1>9, <1>10, <1>11 DEF Next, Enqueue, Close, Terminated

\* What Close reports is what happened: nothing is pending, the counters add up
\* and name the outcome of every event, and the error says if any was given up.
THEOREM CloseAccountsHolds == Spec => []CloseAccounts
  <1>1. AccountInv => CloseAccounts
    <2> SUFFICES ASSUME AccountInv, closer = "returned" PROVE CloseAccounts
      BY DEF CloseAccounts
    <2>0. TypeOK /\ OrderInv /\ ConsInv /\ ShutdownInv /\ closed
      BY DEF AccountInv, OrderInv, ConsInv, TypeInv, ShutdownInv
    <2>1. ASSUME NEW l \in Lanes
          PROVE  /\ pc[l] \in {"new", "done"}
                 /\ \A e \in Events : fate[l][e] # "pending"
                 /\ stats[l]["enqueued"] = stats[l]["delivered"] + stats[l]["failed"]
                                                                 + stats[l]["undelivered"]
                 /\ \A c \in Outcomes : stats[l][c] = Cardinality({e \in Events : fate[l][e] = c})
      <3>1. pc[l] \in {"new", "done"} /\ queue[l] = <<>>
        BY <2>0 DEF AccountInv, ShutdownInv, AllDone
      <3>2. LaneOrder(l)
        BY <2>0 DEF OrderInv
      <3>3. batch[l] = <<>> /\ carry[l] = 0
        BY <2>0, <3>1, <3>2 DEF ConsInv, HandsFree, LaneOrder, Places
      <3>4. Hands(l) = {}
        BY <3>1, <3>3, EmptyFacts DEF Hands, Carried
      <3>5. \A e \in Events : fate[l][e] # "pending"
        BY <3>2, <3>4 DEF LaneOrder, Owing
      <3>6. InHand(l) = 0 /\ Cardinality(uncounted[l]) = 0
        <4>1. uncounted[l] = {} /\ Len(batch[l]) = 0 /\ Len(queue[l]) = 0 /\ Held(carry[l]) = 0
          BY <2>0, <3>1, <3>3 DEF AccountInv, Unlocked, Held
        <4> QED BY <4>1, FS_EmptySet DEF InHand
      <3>7. /\ Balance(l) /\ \A c \in Counters : stats[l][c] \in Nat
        BY <2>0, Numbers DEF ConsInv, Conservation, Balance
      <3>8. stats[l]["enqueued"] = stats[l]["delivered"] + stats[l]["failed"]
                                                         + stats[l]["undelivered"]
        BY <3>6, <3>7 DEF Balance, Counters
      <3>9. \A c \in Outcomes : stats[l][c] = Cardinality({e \in Events : fate[l][e] = c})
        BY DEF AccountInv, Tally, Met
      <3> QED BY <3>1, <3>5, <3>8, <3>9
    <2>2. lost <=> \E l \in Lanes, e \in Events : fate[l][e] = "undelivered"
      BY DEF AccountInv, Met
    <2> QED BY <2>1, <2>2 DEF CloseAccounts, Outcomes
  <1> QED BY AccountInit, AccountStep, <1>1, PTL DEF Spec

\* Shutdown gives up only what the deadline or a delivery that never started
\* forces it to, and Close tells of every event what became of it.
THEOREM ShutdownAccountsHolds == Spec => []ShutdownAccounts
  <1>1. LostOnlyAtDeadline /\ CloseAccounts => ShutdownAccounts
    BY DEF ShutdownAccounts
  <1> QED BY LostOnlyAtDeadlineHolds, CloseAccountsHolds, <1>1, PTL

-----------------------------------------------------------------------------
(* The clock of deliver: RetrySchedule, for every configuration            *)

\* The wait of attempt a, before it is capped, given those before it.
Step(f, a) == IF a = 1 THEN BackoffBase
              ELSE IF f[a - 1] < BackoffMax THEN 2 * f[a - 1] ELSE f[a - 1]

\* f has the waits of the first k attempts.
Doubles(f, k) == f = [a \in 1..k |-> Step(f, a)]

LEMMA DoublesUpTo ==
    ASSUME NEW k \in Nat
    PROVE  \E f : Doubles(f, k)
  <1> DEFINE P == {m \in Nat : \E f : Doubles(f, m)}
  <1>1. 0 \in P
    <2> DEFINE f == [a \in 1..0 |-> 0]
    <2>1. \A a \in 1..0 : FALSE
      OBVIOUS
    <2>2. Doubles(f, 0)
      BY <2>1 DEF Doubles
    <2> QED BY <2>2
  <1>2. ASSUME NEW m \in Nat, m \in P PROVE m + 1 \in P
    <2>1. PICK f : Doubles(f, m)
      BY <1>2
    <2> DEFINE g == [a \in 1..(m + 1) |-> IF a = m + 1 THEN Step(f, a) ELSE f[a]]
    <2>2. ASSUME NEW a \in 1..(m + 1) PROVE g[a] = Step(g, a)
      <3>1. a # 1 => a - 1 \in 1..(m + 1) /\ g[a - 1] = f[a - 1]
        OBVIOUS
      <3>2. Step(g, a) = Step(f, a)
        <4> HIDE DEF g
        <4> QED BY <3>1 DEF Step
      <3>3. CASE a = m + 1
        BY <3>2, <3>3
      <3>4. CASE a # m + 1
        <4>1. a \in 1..m
          BY <3>4
        <4>2. f[a] = Step(f, a)
          BY <2>1, <4>1 DEF Doubles
        <4> QED BY <3>2, <3>4, <4>2
      <3> QED BY <3>3, <3>4
    <2>3. Doubles(g, m + 1)
      <3>1. g = [a \in 1..(m + 1) |-> g[a]]
        OBVIOUS
      <3> HIDE DEF g
      <3> QED BY <2>2, <3>1 DEF Doubles
    <2> QED BY <2>3
  <1> HIDE DEF P
  <1>3. Nat \subseteq P
    BY <1>1, <1>2, InductiveSet
  <1> QED BY <1>3 DEF P

LEMMA DoublesAgree ==
    ASSUME NEW m \in Nat, NEW n \in Nat, NEW f, NEW g, Doubles(f, m), Doubles(g, n),
           NEW k \in Nat, 1 <= k, k <= m, k <= n
    PROVE  f[k] = g[k]
  <1> DEFINE P == {i \in Nat : 1 <= i /\ i <= k => f[i] = g[i]}
  <1>1. 0 \in P
    OBVIOUS
  <1>2. ASSUME NEW i \in Nat, i \in P PROVE i + 1 \in P
    <2> SUFFICES ASSUME i + 1 <= k PROVE f[i + 1] = g[i + 1]
      OBVIOUS
    <2>1. i + 1 \in 1..m /\ i + 1 \in 1..n
      OBVIOUS
    <2>2. f[i + 1] = Step(f, i + 1) /\ g[i + 1] = Step(g, i + 1)
      BY <2>1 DEF Doubles
    <2>3. i + 1 # 1 => f[(i + 1) - 1] = g[(i + 1) - 1]
      BY <1>2
    <2> QED BY <2>2, <2>3 DEF Step
  <1> HIDE DEF P
  <1>3. k \in P
    BY <1>1, <1>2, InductiveSet
  <1> QED BY <1>3 DEF P

\* The waits double as the recursion says.
LEMMA DoubledIs == \A a \in Nat \ {0} : Doubled[a] = Step(Doubled, a)
  <1> DEFINE W(a) == (CHOOSE f : Doubles(f, a))
             F == [a \in Nat \ {0} |-> W(a)[a]]
  <1>1. \A a \in Nat : Doubles(W(a), a)
    BY DoublesUpTo
  <1>2. ASSUME NEW a \in Nat \ {0} PROVE F[a] = Step(F, a)
    <2>1. W(a)[a] = Step(W(a), a)
      <3>1. PICK f : f = W(a)
        OBVIOUS
      <3>2. Doubles(f, a) /\ a \in 1..a
        BY <1>1, <3>1
      <3>3. f[a] = Step(f, a)
        BY <3>2 DEF Doubles
      <3> QED BY <3>1, <3>3
    <2>2. ASSUME a # 1 PROVE W(a)[a - 1] = F[a - 1]
      <3>1. a - 1 \in Nat \ {0} /\ a \in Nat /\ 1 <= a - 1 /\ a - 1 <= a
        BY <2>2
      <3>2. Doubles(W(a), a) /\ Doubles(W(a - 1), a - 1)
        BY <1>1, <3>1
      <3>3. W(a)[a - 1] = W(a - 1)[a - 1]
        <4> HIDE DEF W
        <4> QED BY <3>1, <3>2, DoublesAgree
      <3> QED BY <3>1, <3>3
    <2>3. F[a] = W(a)[a]
      OBVIOUS
    <2> HIDE DEF F, W
    <2> QED BY <2>1, <2>2, <2>3 DEF Step
  <1>3. F = [a \in Nat \ {0} |-> Step(F, a)]
    <2>1. F = [a \in Nat \ {0} |-> F[a]]
      OBVIOUS
    <2> HIDE DEF F
    <2> QED BY <1>2, <2>1
  <1> HIDE DEF F
  <1> DEFINE D == CHOOSE f : f = [a \in Nat \ {0} |-> Step(f, a)]
  <1>4. D = [a \in Nat \ {0} |-> Step(D, a)]
    BY <1>3
  <1>5. Doubled = D
    BY DEF Doubled, Step
  <1> HIDE DEF D
  <1> QED BY <1>4, <1>5

LEMMA DoubledGrows ==
    ASSUME NEW a \in Nat \ {0}
    PROVE  Doubled[a] \in Nat /\ Doubled[a] >= BackoffBase
  <1> USE RetryAssumption
  <1> DEFINE P == {i \in Nat : LET d == Doubled[i + 1] IN d \in Nat /\ d >= BackoffBase}
  <1>1. 0 \in P
    BY DoubledIs DEF Step
  <1>2. ASSUME NEW i \in Nat, i \in P PROVE i + 1 \in P
    <2>1. PICK d : d = Doubled[i + 1]
      OBVIOUS
    <2>2. Doubled[i + 2] = IF d < BackoffMax THEN 2 * d ELSE d
      BY <2>1, DoubledIs DEF Step
    <2>3. d \in Nat /\ d >= BackoffBase
      BY <1>2, <2>1
    <2>4. Doubled[i + 2] \in Nat /\ Doubled[i + 2] >= BackoffBase
      BY <2>2, <2>3
    <2>5. (i + 1) + 1 = i + 2
      OBVIOUS
    <2> QED BY <2>4, <2>5
  <1> HIDE DEF P
  <1>3. a - 1 \in P
    BY <1>1, <1>2, InductiveSet
  <1> QED BY <1>3 DEF P

\* backoff waits at least BackoffBase and at most BackoffMax, whatever a
\* Retry-After says, also when its duration overflowed.
THEOREM WaitIsBounded ==
    ASSUME NEW a \in Nat \ {0}, NEW hint \in Int
    PROVE  Wait(a, hint) \in BackoffBase..BackoffMax
  <1>1. Doubled[a] \in Nat /\ Doubled[a] >= BackoffBase
    BY DoubledGrows
  <1> QED BY <1>1, RetryAssumption DEF Wait, Backoff, Capped

LEMMA HintsAreDurations ==
    ASSUME NEW hint \in Hints \cup {0}
    PROVE  hint \in Int
  <1>1. ASSUME NEW s \in DelaySeconds PROVE Duration(s) \in Int
    <2>1. s * Second \in Int /\ DurationLimit \in Nat
      BY RetryAssumption
    <2>2. 2 * DurationLimit \in Nat /\ 2 * DurationLimit > 0
      BY RetryAssumption
    <2> QED BY <2>1, <2>2 DEF Duration
  <1>2. Dates \subseteq Nat
    BY RetryAssumption
  <1>3. hint = 0 \/ hint \in Dates \/ \E s \in DelaySeconds : hint = Duration(s)
    BY DEF Hints
  <1> QED
    <2>1. CASE hint \in Dates
      BY <1>2, <2>1
    <2>2. CASE hint = 0
      BY <2>2
    <2>3. CASE \E s \in DelaySeconds : hint = Duration(s)
      <3>1. PICK s \in DelaySeconds : hint = Duration(s)
        BY <2>3
      <3> QED BY ONLY <1>1, <3>1
    <2> QED BY <1>3, <2>1, <2>2, <2>3

\* A sleep is planned only within the budget, and an attempt starts when the
\* sleep before it ends.
ClockInv ==
    /\ clock \in Nat /\ lastStart \in Nat /\ attempt \in Nat \ {0} /\ wait \in Int
    /\ outcome \in {"attempt", "sleep"} \cup Final
    /\ lastStart <= clock /\ lastStart <= RetryBudget
    /\ outcome = "attempt" => clock = lastStart
    /\ outcome # "attempt" => clock <= lastStart + RequestTimeout
    /\ outcome = "sleep" => wait >= 0 /\ clock + wait <= RetryBudget

LEMMA ClockInitially == ClockInit => ClockInv
  BY RetryAssumption DEF ClockInit, ClockInv

LEMMA ClockStep == ClockInv /\ [ClockNext]_clockVars => ClockInv'
  <1>1. /\ RequestTimeout \in Nat /\ RetryBudget \in Nat
        /\ BackoffBase \in Nat /\ BackoffMax \in Nat
    BY RetryAssumption
  <1> SUFFICES ASSUME ClockInv, [ClockNext]_clockVars PROVE ClockInv'
    OBVIOUS
  <1>2. ASSUME NEW t \in 0..RequestTimeout, Delivered(t) \/ PermanentError(t)
        PROVE  ClockInv'
    <2>1. outcome = "attempt" /\ outcome' \in {"delivered", "permanent error"}
      BY <1>2 DEF Delivered, PermanentError, Answer
    <2>2. clock' = clock + t /\ lastStart' = lastStart /\ attempt' = attempt /\ wait' = wait
      BY <1>2 DEF Delivered, PermanentError, Answer
    <2>3. /\ clock \in Nat /\ lastStart \in Nat /\ clock = lastStart /\ lastStart <= RetryBudget
          /\ attempt \in Nat \ {0} /\ wait \in Int
      BY <2>1 DEF ClockInv
    <2>4. /\ clock' \in Nat /\ lastStart' \in Nat
          /\ lastStart' <= clock' /\ clock' <= lastStart' + RequestTimeout
      BY ONLY <1>1, <2>2, <2>3
    <2>5. attempt' \in Nat \ {0} /\ wait' \in Int /\ lastStart' <= RetryBudget
      BY ONLY <2>2, <2>3
    <2> QED BY <2>1, <2>4, <2>5 DEF ClockInv, Final
  <1>3. ASSUME NEW t \in 0..RequestTimeout, NEW hint \in Int,
               \/ AttemptsExhausted(t, hint) \/ BudgetExhausted(t, hint)
               \/ Sleep(t, hint)
        PROVE  ClockInv'
    <2> USE DEF AttemptsExhausted, BudgetExhausted, Sleep, Retryable,
                Answer
    <2>1. /\ outcome = "attempt"
          /\ outcome' \in {"attempts exhausted", "retry budget exhausted", "sleep"}
      BY <1>3
    <2>2. clock' = clock + t /\ lastStart' = lastStart /\ attempt' = attempt
      BY <1>3
    <2>3. /\ clock \in Nat /\ lastStart \in Nat /\ clock = lastStart /\ lastStart <= RetryBudget
          /\ attempt \in Nat \ {0}
      BY <2>1 DEF ClockInv
    <2>4. /\ clock' \in Nat /\ lastStart' \in Nat
          /\ lastStart' <= clock' /\ clock' <= lastStart' + RequestTimeout
      BY ONLY <1>1, <2>2, <2>3
    <2>5. attempt' \in Nat \ {0} /\ lastStart' <= RetryBudget
      BY ONLY <2>2, <2>3
    <2>6. wait' \in BackoffBase..BackoffMax
      <3>1. Wait(attempt, hint) \in BackoffBase..BackoffMax
        BY <2>3, WaitIsBounded
      <3> QED BY <1>3, <3>1
    <2>7. wait' \in Int /\ wait' >= 0
      BY ONLY <1>1, <2>6
    <2>8. outcome' = "sleep" => clock' + wait' <= RetryBudget
      <3>1. outcome' = "sleep" => ~ (clock' + wait' > RetryBudget)
        BY <1>3 DEF PastBudget
      <3>2. \A m, n, b \in Int : ~ (m + n > b) => m + n <= b
        OBVIOUS
      <3>3. clock' \in Int /\ wait' \in Int /\ RetryBudget \in Int
        BY ONLY <1>1, <2>4, <2>7
      <3>4. ~ (clock' + wait' > RetryBudget) => clock' + wait' <= RetryBudget
        BY ONLY <3>2, <3>3
      <3> QED BY <3>1, <3>4
    <2> QED BY <2>1, <2>4, <2>5, <2>7, <2>8 DEF ClockInv, Final
  <1>4. CASE WakeUp
    BY <1>1, <1>4 DEF WakeUp, ClockInv, Final
  <1>5. CASE Settled \/ UNCHANGED clockVars
    BY <1>5 DEF Settled, clockVars, ClockInv, Final
  <1> QED BY <1>2, <1>3, <1>4, <1>5, HintsAreDurations DEF ClockNext, Attempt

\* deliver's last attempt starts within RetryBudget of the first, and ends a
\* RequestTimeout later at the latest.
THEOREM SettledInTimeHolds == ClockSpec => []SettledInTime
  <1>1. ClockInv => SettledInTime
    BY RetryAssumption DEF ClockInv, SettledInTime
  <1> QED BY ClockInitially, ClockStep, <1>1, PTL DEF ClockSpec

\* When the attempts of a batch start whose destination refuses each at once.
RefusedStarts(starts) ==
    /\ starts[1] = 0
    /\ \A k \in 1..(DefaultAttempts - 1) : starts[k + 1] = starts[k] + Backoff(k)

\* RefusingOutageLosesNothing is not inductive: when deliver gives up, the last
\* attempt started where the waits before it put it, and the wait that did not
\* fit is the backoff of that attempt.
RefusedInv(starts) ==
    /\ ClockInv /\ maxAttempts \in Nat \ {0}
    /\ refused /\ maxAttempts = DefaultAttempts
         /\ outcome \in {"attempt", "sleep", "attempts exhausted", "retry budget exhausted"} =>
          /\ attempt <= maxAttempts /\ clock = lastStart /\ lastStart = starts[attempt]
          /\ outcome = "sleep" => attempt < maxAttempts
          /\ outcome # "attempt" => wait = Backoff(attempt)
          /\ outcome = "attempts exhausted" => attempt = maxAttempts
          /\ outcome = "retry budget exhausted" => clock + wait > RetryBudget

LEMMA RefusedStep ==
    ASSUME NEW starts, RefusedStarts(starts), RefusedInv(starts), [ClockNext]_clockVars
    PROVE  RefusedInv(starts)'
  <1>0. ClockInv /\ ClockInv' /\ maxAttempts \in Nat \ {0}
    BY ClockStep DEF RefusedInv
  <1>1. CASE \E t \in 0..RequestTimeout : Delivered(t) \/ PermanentError(t)
    BY <1>0, <1>1 DEF Delivered, PermanentError, Answer, RefusedInv
  <1>2. ASSUME NEW t \in 0..RequestTimeout, NEW hint \in Int,
               AttemptsExhausted(t, hint) \/ BudgetExhausted(t, hint) \/ Sleep(t, hint)
        PROVE  RefusedInv(starts)'
    <2>1. /\ outcome = "attempt" /\ clock' = clock + t /\ wait' = Wait(attempt, hint)
          /\ UNCHANGED <<maxAttempts, attempt, lastStart>>
          /\ refused' = (refused /\ t = 0 /\ hint = 0)
          /\ \/ outcome' = "attempts exhausted" /\ attempt >= maxAttempts
             \/ /\ outcome' = "retry budget exhausted" /\ attempt < maxAttempts
                /\ clock' + wait' > RetryBudget
             \/ outcome' = "sleep" /\ attempt < maxAttempts
      BY <1>2 DEF AttemptsExhausted, BudgetExhausted, Sleep, Retryable, Answer, PastBudget
    <2> SUFFICES ASSUME refused', maxAttempts' = DefaultAttempts
                 PROVE  /\ attempt' <= maxAttempts' /\ clock' = lastStart' /\ lastStart' = starts[attempt']
                        /\ outcome' = "sleep" => attempt' < maxAttempts'
                        /\ wait' = Backoff(attempt')
                        /\ outcome' = "attempts exhausted" => attempt' = maxAttempts'
                        /\ outcome' = "retry budget exhausted" => clock' + wait' > RetryBudget
      BY <1>0, <2>1 DEF RefusedInv
    <2>2. refused /\ t = 0 /\ hint = 0 /\ maxAttempts = DefaultAttempts
      BY <2>1
    <2>3. attempt <= maxAttempts /\ clock = lastStart /\ lastStart = starts[attempt]
      BY <2>1, <2>2 DEF RefusedInv
    <2>4. clock \in Nat /\ attempt \in Nat \ {0}
      BY <1>0 DEF ClockInv
    <2>5. wait' = Backoff(attempt)
      <3>1. Wait(attempt, 0) \in BackoffBase..BackoffMax
        BY <2>4, WaitIsBounded
      <3>2. Wait(attempt, 0) = Backoff(attempt)
        <4>1. Doubled[attempt] \in Nat /\ Doubled[attempt] >= BackoffBase
          BY <2>4, DoubledGrows
        <4>2. Backoff(attempt) \in Nat
          BY <4>1, RetryAssumption DEF Backoff, Capped
        <4> QED BY <4>2 DEF Wait
      <3> QED BY <2>1, <2>2, <3>2
    <2>6. clock' = clock
      <3>1. clock' = clock + t
        BY <2>1
      <3>2. t = 0 /\ clock \in Nat
        BY <2>2, <2>4
      <3> QED BY ONLY <3>1, <3>2
    <2>7. attempt >= maxAttempts => attempt = maxAttempts
      BY <1>0, <2>3, <2>4
    <2> QED BY <2>1, <2>3, <2>5, <2>6, <2>7
  <1>3. CASE WakeUp
    <2>1. /\ outcome = "sleep" /\ outcome' = "attempt" /\ attempt' = attempt + 1
          /\ clock' = clock + wait /\ lastStart' = clock + wait
          /\ UNCHANGED <<maxAttempts, refused>>
      BY <1>3 DEF WakeUp
    <2> SUFFICES ASSUME refused, maxAttempts = DefaultAttempts
                 PROVE  attempt + 1 <= maxAttempts /\ clock + wait = starts[attempt + 1]
      BY <1>0, <2>1 DEF RefusedInv
    <2>2. attempt < maxAttempts /\ clock = starts[attempt] /\ wait = Backoff(attempt)
      BY <2>1 DEF RefusedInv
    <2>3. attempt \in 1..(DefaultAttempts - 1)
      BY <1>0, <2>2 DEF ClockInv
    <2> QED BY <1>0, <2>2, <2>3 DEF RefusedStarts
  <1>4. CASE UNCHANGED clockVars
    BY <1>0, <1>4 DEF clockVars, RefusedInv
  <1> QED BY <1>1, <1>2, <1>3, <1>4, HintsAreDurations DEF ClockNext, Attempt, Settled

\* What an outage may last that refuses connections, for every configuration:
\* the waits before the last attempt allowed reach past it, and so does the
\* retry budget when the longest wait is left out. Then no batch is given up.
THEOREM RefusingOutageSurvived ==
    ASSUME NEW starts, RefusedStarts(starts), RefusedFor \in Nat,
           starts[DefaultAttempts] >= RefusedFor, RetryBudget - BackoffMax + 1 >= RefusedFor
    PROVE  ClockSpec => []RefusingOutageLosesNothing
  <1>1. ClockInit => RefusedInv(starts)
    BY ClockInitially, RetryAssumption DEF ClockInit, RefusedInv, RefusedStarts
  <1>2. RefusedInv(starts) /\ [ClockNext]_clockVars => RefusedInv(starts)'
    BY RefusedStep
  <1>3. RefusedInv(starts) => RefusingOutageLosesNothing
    <2> SUFFICES ASSUME RefusedInv(starts), GaveUp, refused PROVE lastStart >= RefusedFor
      BY DEF RefusingOutageLosesNothing
    <2>1. /\ maxAttempts = DefaultAttempts /\ clock = lastStart /\ lastStart = starts[attempt]
          /\ wait = Backoff(attempt)
          /\ outcome = "attempts exhausted" => attempt = maxAttempts
          /\ outcome = "retry budget exhausted" => clock + wait > RetryBudget
      BY DEF GaveUp, RefusedInv
    <2>2. CASE outcome = "attempts exhausted"
      BY <2>1, <2>2
    <2>3. CASE outcome = "retry budget exhausted"
      <3>1. lastStart \in Nat /\ attempt \in Nat \ {0}
        BY DEF RefusedInv, ClockInv
      <3>2. Backoff(attempt) \in Nat /\ Backoff(attempt) <= BackoffMax
        BY <3>1, DoubledGrows, RetryAssumption DEF Backoff, Capped
      <3>3. lastStart + wait > RetryBudget /\ wait \in Nat /\ wait <= BackoffMax
        BY <2>1, <2>3, <3>2
      <3>4. /\ RetryBudget \in Nat /\ BackoffMax \in Nat /\ RefusedFor \in Nat
            /\ RetryBudget - BackoffMax + 1 >= RefusedFor
        BY RetryAssumption
      <3> QED BY ONLY <3>1, <3>3, <3>4
    <2> QED BY <2>2, <2>3 DEF GaveUp
  <1> QED BY <1>1, <1>2, <1>3, PTL DEF ClockSpec

\* DefaultConfig in any unit of time that divides its 200 ms: ten attempts, waits
\* from 200 ms to 10 s and a budget of 30 s survive a refusal of 20 s, whatever
\* the timeout of a request.
THEOREM DefaultOutageSurvived ==
    ASSUME NEW u \in Nat \ {0}, BackoffBase = u, BackoffMax = 50 * u, RetryBudget = 150 * u,
           DefaultAttempts = 10, RefusedFor = 100 * u
    PROVE  ClockSpec => []RefusingOutageLosesNothing
  <1> DEFINE starts == <<0, u, 3 * u, 7 * u, 15 * u, 31 * u, 63 * u, 113 * u, 163 * u, 213 * u>>
  <1>1. /\ Doubled[1] = u /\ Doubled[2] = 2 * u /\ Doubled[3] = 4 * u
        /\ Doubled[4] = 8 * u /\ Doubled[5] = 16 * u /\ Doubled[6] = 32 * u
        /\ Doubled[7] = 64 * u /\ Doubled[8] = 64 * u /\ Doubled[9] = 64 * u
    <2>0. /\ Doubled[1] = u
          /\ \A a \in Nat \ {0, 1} : Doubled[a] = IF Doubled[a - 1] < 50 * u
                                                  THEN 2 * Doubled[a - 1] ELSE Doubled[a - 1]
      BY DoubledIs DEF Step
    <2>1. Doubled[2] = 2 * u
      BY <2>0
    <2>2. Doubled[3] = 4 * u
      BY <2>0, <2>1
    <2>3. Doubled[4] = 8 * u
      BY <2>0, <2>2
    <2>4. Doubled[5] = 16 * u
      BY <2>0, <2>3
    <2>5. Doubled[6] = 32 * u
      BY <2>0, <2>4
    <2>6. Doubled[7] = 64 * u
      BY <2>0, <2>5
    <2>7. Doubled[8] = 64 * u
      BY <2>0, <2>6
    <2>8. Doubled[9] = 64 * u
      BY <2>0, <2>7
    <2> QED BY <2>0, <2>1, <2>2, <2>3, <2>4, <2>5, <2>6, <2>7, <2>8
  <1>2. /\ Backoff(1) = u /\ Backoff(2) = 2 * u /\ Backoff(3) = 4 * u
        /\ Backoff(4) = 8 * u /\ Backoff(5) = 16 * u /\ Backoff(6) = 32 * u
        /\ Backoff(7) = 50 * u /\ Backoff(8) = 50 * u /\ Backoff(9) = 50 * u
    BY <1>1 DEF Backoff, Capped
  <1>3. RefusedStarts(starts)
    <2>1. starts[1] = 0
      OBVIOUS
    <2>2. ASSUME NEW k \in 1..(DefaultAttempts - 1) PROVE starts[k + 1] = starts[k] + Backoff(k)
      <3>1. \/ k = 1 \/ k = 2 \/ k = 3 \/ k = 4 \/ k = 5 \/ k = 6 \/ k = 7 \/ k = 8 \/ k = 9
        OBVIOUS
      <3> QED BY <1>2, <3>1
    <2> QED BY <2>1, <2>2 DEF RefusedStarts
  <1>4. starts[DefaultAttempts] >= RefusedFor
    OBVIOUS
  <1>5. RetryBudget - BackoffMax + 1 >= RefusedFor /\ RefusedFor \in Nat
    OBVIOUS
  <1> HIDE DEF starts
  <1> QED BY <1>3, <1>4, <1>5, RefusingOutageSurvived

=============================================================================
