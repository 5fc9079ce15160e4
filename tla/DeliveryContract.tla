-------------------------- MODULE DeliveryContract --------------------------
(***************************************************************************)
(* What the package comment of internal/report/report.go (lines 4 to 18)   *)
(* promises of every destination, without queues, workers, batches,        *)
(* retries or timers: an accepted event is owed to its destination until   *)
(* it is settled exactly once; the destination is only ever shown the      *)
(* oldest events it is owed; an event is settled as delivered only after   *)
(* the destination has taken it, and is given up only at the shutdown      *)
(* deadline, or if delivery never started.                                 *)
(*                                                                         *)
(* Events are numbered in the order in which Enqueue decided about them,   *)
(* so "older" is "<".                                                      *)
(***************************************************************************)
EXTENDS Naturals, Sequences

CONSTANTS Lanes,     \* the destinations
          MaxCalls   \* bound: how many events Enqueue is offered

Events == 1..MaxCalls

VARIABLES calls,      \* how many events Enqueue has decided about
          fate,       \* [Lanes -> [Events -> Fates]]
          received,   \* [Lanes -> the batches the destination took, as sets]
          started,    \* delivery has started
          closed,     \* no event is accepted any more
          deadline    \* the shutdown deadline has passed

vars == <<calls, fate, received, started, closed, deadline>>

Settlements == {"delivered", "failed", "undelivered"}
Fates == {"none", "pending", "dropped"} \cup Settlements

\* The events destination l is still owed.
Owed(l) == {e \in Events : fate[l][e] = "pending"}

\* B is the oldest part of what destination l is owed.
Oldest(l, B) == /\ B # {} /\ B \subseteq Owed(l)
                /\ \A b \in B, e \in Owed(l) \ B : b < e

\* Destination l has taken event e in some batch.
Taken(l, e) == \E i \in DOMAIN received[l] : e \in received[l][i]

SettledAs(l, B, f) ==
    fate' = [fate EXCEPT ![l] = [e \in Events |-> IF e \in B THEN f ELSE @[e]]]

-----------------------------------------------------------------------------

Init == /\ calls = 0
        /\ fate = [l \in Lanes |-> [e \in Events |-> "none"]]
        /\ received = [l \in Lanes |-> <<>>]
        /\ started = FALSE /\ closed = FALSE /\ deadline = FALSE

\* Enqueue decides about the next event: it is owed from now on, or dropped.
Accept(l) == /\ calls < MaxCalls /\ ~closed
             /\ calls' = calls + 1
             /\ SettledAs(l, {calls + 1}, "pending")
             /\ UNCHANGED <<received, started, closed, deadline>>

Drop(l) == /\ calls < MaxCalls
           /\ calls' = calls + 1
           /\ SettledAs(l, {calls + 1}, "dropped")
           /\ UNCHANGED <<received, started, closed, deadline>>

\* The destination takes a batch: the oldest events it is owed. It may take
\* them again, when the batch is retried.
Take(l) == /\ started
           /\ \E B \in SUBSET Events : /\ Oldest(l, B)
                                       /\ received' = [received EXCEPT ![l] = Append(@, B)]
           /\ UNCHANGED <<calls, fate, started, closed, deadline>>

\* The oldest events owed were all taken, and are settled as delivered.
Deliver(l) == /\ \E B \in SUBSET Events : /\ Oldest(l, B)
                                          /\ \A e \in B : Taken(l, e)
                                          /\ SettledAs(l, B, "delivered")
              /\ UNCHANGED <<calls, received, started, closed, deadline>>

\* The oldest events owed are finally refused.
Fail(l) == /\ started
           /\ \E B \in SUBSET Events : Oldest(l, B) /\ SettledAs(l, B, "failed")
           /\ UNCHANGED <<calls, received, started, closed, deadline>>

\* One event that was never shown to the destination cannot be rendered.
FailOne(l) == /\ started
              /\ \E e \in Owed(l) : ~Taken(l, e) /\ SettledAs(l, {e}, "failed")
              /\ UNCHANGED <<calls, received, started, closed, deadline>>

\* After the shutdown deadline, or when nothing was ever started, events are
\* given up as undelivered: oldest first.
GiveUp(l) == /\ closed
             /\ deadline \/ ~started
             /\ \E B \in SUBSET Events : Oldest(l, B) /\ SettledAs(l, B, "undelivered")
             /\ UNCHANGED <<calls, received, started, closed, deadline>>

Start == /\ ~started /\ ~closed
         /\ started' = TRUE
         /\ UNCHANGED <<calls, fate, received, closed, deadline>>

Close == /\ ~closed
         /\ closed' = TRUE
         /\ UNCHANGED <<calls, fate, received, started, deadline>>

Deadline == /\ closed /\ ~deadline
            /\ deadline' = TRUE
            /\ UNCHANGED <<calls, fate, received, started, closed>>

Next == \/ \E l \in Lanes : \/ Accept(l) \/ Drop(l) \/ Take(l) \/ Deliver(l)
                            \/ Fail(l) \/ FailOne(l) \/ GiveUp(l)
        \/ Start \/ Close \/ Deadline

Spec == Init /\ [][Next]_vars
=============================================================================
