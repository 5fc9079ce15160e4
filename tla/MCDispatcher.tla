---------------------------- MODULE MCDispatcher ----------------------------
(***************************************************************************)
(* Instances of Dispatcher for TLC.  With BatchBytes = 6 and Envelope = 1, *)
(* event 2 is over the budget on its own and never fits behind another,    *)
(* and any two of the others fit a batch.                                  *)
(***************************************************************************)
EXTENDS Dispatcher

CONSTANT Healthy   \* the destination whose worker alone is scheduled fairly

MCSize == [e \in Events |-> IF e = 2 THEN 6 ELSE 1]

\* Only one destination's attempts are sure to end. The others may hang.
IsolationSpec == Spec /\ Fairness({Healthy})

\* There is no ordering and no waiting across destinations: a destination that
\* never answers does not hold up the events of another.
Isolation ==
    \A e \in Events : fate[Healthy][e] = "pending" ~> fate[Healthy][e] # "pending"
=============================================================================
