-------------------------- MODULE MCRetrySchedule --------------------------
(***************************************************************************)
(* DefaultConfig in units of 200 ms, its BackoffBase, and what the project *)
(* says of these defaults. The attempt limit they had before is tried too. *)
(***************************************************************************)
EXTENDS RetrySchedule

CONSTANTS DefaultAttempts,  \* the limit of DefaultConfig
          RefusedFor,  \* 20 s: the outage the comment of DefaultConfig speaks of
          DownFor      \* 22 s: the README's outage of about 23 seconds, rounded down

\* DefaultConfig, while deliver gives up a batch that it could have retried.
GaveUp == /\ maxAttempts = DefaultAttempts
          /\ outcome \in {"attempts exhausted", "retry budget exhausted"}

\* "a destination that refuses connections for about 20 seconds then loses no
\* batches": when every attempt is refused at once, the last one comes later.
RefusingOutageLosesNothing == GaveUp /\ refused => lastStart >= RefusedFor

\* "a destination may be down for about 23 seconds without losing a batch": the
\* last attempt comes after an outage that long, however its attempts fail.
OutageLosesNothing == GaveUp => lastStart >= DownFor
=============================================================================
