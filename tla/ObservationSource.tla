------------------------- MODULE ObservationSource -------------------------
(***************************************************************************)
(* What the application expects of reader.Session.Run: it hands numbered   *)
(* observations to the application's queue, one after the other and none   *)
(* left out, until it ends; once stopped, it may end as cancelled; it is   *)
(* never serving after its end.                                            *)
(***************************************************************************)
EXTENDS Naturals, Sequences

CONSTANT QueueCapacity

VARIABLES queue,    \* the application's channel
          handed,   \* how many observations were handed over
          serving,  \* Snapshot.Ready
          stopped,  \* the run's context is cancelled
          outcome   \* "running", or what Run returned

sourceVars == <<queue, handed, serving, stopped, outcome>>

Init == queue = <<>> /\ handed = 0 /\ serving = FALSE /\ stopped = FALSE /\ outcome = "running"

\* The session hands over the next observation.
Hand == /\ outcome = "running" /\ Len(queue) < QueueCapacity
        /\ queue' = Append(queue, handed + 1)
        /\ handed' = handed + 1
        /\ UNCHANGED <<serving, stopped, outcome>>

\* It loses or completes a handshake.
Serving(b) == /\ outcome = "running"
              /\ serving' = b
              /\ UNCHANGED <<queue, handed, stopped, outcome>>

\* It ends: for a reason of its own, or because it was stopped.
End(r) == /\ outcome = "running"
          /\ r = "cancelled" => stopped
          /\ outcome' = r /\ serving' = FALSE
          /\ UNCHANGED <<queue, handed, stopped>>

Stop == stopped' = TRUE /\ UNCHANGED <<queue, handed, serving, outcome>>

Take == /\ queue # <<>> /\ queue' = Tail(queue)
        /\ UNCHANGED <<handed, serving, stopped, outcome>>

Step == \/ Hand \/ Stop \/ Take
        \/ \E b \in BOOLEAN : Serving(b)
        \/ \E r \in {"failed", "cancelled"} : End(r)

Spec == Init /\ [][Step]_sourceVars
=============================================================================
