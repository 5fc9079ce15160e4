------------------------------ MODULE Adaptive ------------------------------
(***************************************************************************)
(* internal/filter/adaptive.go: a matcher that answers with its selected   *)
(* candidate and, on sampled calls, times a shadow to decide whether to    *)
(* switch. Candidates are 0 .. N-1; that they agree is PatternIndex's.     *)
(*                                                                         *)
(* A sampled call holds the lock from the choice of its shadow to the      *)
(* publication of the selection; what others do meanwhile (count a call,   *)
(* read the old selection) commutes with it, so it is one step here.       *)
(* Which of its two runs goes first then makes no difference.              *)
(***************************************************************************)
EXTENDS Integers, SequencesExt

CONSTANTS N,            \* len(Candidates)
          Callers,      \* goroutines calling Match
          SampleEvery, Warmup, Window, Cooldown,  \* AdaptiveConfig
          Hysteresis,     \* in tenths
          OverheadBudget, \* in hundredths
          Costs,        \* what one run of a matcher may take
          MaxCalls, MaxSampled  \* bounds of the model

ASSUME AdaptiveAssumption ==
    /\ N \in 2..4 /\ SampleEvery \in Nat /\ SampleEvery >= 10
    /\ Warmup \in 1..1000 /\ Window \in 1..1000 /\ Cooldown \in Nat
    /\ Hysteresis \in 0..9 /\ OverheadBudget \in 1..100
    /\ Costs \subseteq Nat /\ \E c \in Costs : \A d \in Costs : d <= c

Candidates == 0..(N - 1)

VARIABLES
    full,       \* FullShadow
    calls, selected,  \* the atomics
    ctl,        \* controller: selected, switches, sinceSwitch
    counts, rings,    \* controller: samples ever, the last Window costs
    nextShadow, sampled, shadowTime,
    place,      \* where each caller's Match is
    dst,        \* whose answers were appended to each caller's buffer
    lastSwitch  \* history: the sampled call that switched last, 0 if none

vars == <<full, calls, selected, ctl, counts, rings, nextShadow, sampled,
          shadowTime, place, dst, lastSwitch>>

policy == <<full, ctl, counts, rings, nextShadow, sampled, shadowTime, lastSwitch>>

Init == /\ full \in BOOLEAN
        /\ calls = 0 /\ selected = 0
        /\ ctl = [selected |-> 0, switches |-> 0, sinceSwitch |-> 0]
        /\ counts = [c \in Candidates |-> 0] /\ rings = [c \in Candidates |-> <<>>]
        /\ nextShadow = 0 /\ sampled = 0 /\ shadowTime = 0
        /\ place = [p \in Callers |-> "start"] /\ dst = [p \in Callers |-> <<>>]
        /\ lastSwitch = 0

-----------------------------------------------------------------------------
(* The controller *)

Total(q) ==
    LET sum[n \in 0..Len(q)] == IF n = 0 THEN 0 ELSE sum[n - 1] + q[n]
    IN  sum[Len(q)]

MeanOf(ring) == IF ring = <<>> THEN 0 ELSE Total(ring) \div Len(ring)

Warm(n) == \A c \in Candidates : n[c] >= Warmup

Observe(ring, cost) ==
    IF Len(ring) < Window THEN Append(ring, cost) ELSE Append(Tail(ring), cost)

\* The selected candidate unless another is cheaper, then the first of those.
Best(r) ==
    LET cheapest == {c \in Candidates : \A d \in Candidates : MeanOf(r[c]) <= MeanOf(r[d])}
    IN IF ctl.selected \in cheapest THEN ctl.selected
       ELSE CHOOSE c \in cheapest : \A d \in cheapest : c <= d

\* Mutant: a switch does not start a new cooldown.
DecideWithoutReset(n, r) ==
    LET best == Best(r)
    IN IF /\ Warm(n)
          /\ ctl.switches = 0 \/ ctl.sinceSwitch + 1 > Cooldown
          /\ 10 * MeanOf(r[best]) < MeanOf(r[ctl.selected]) * (10 - Hysteresis)
       THEN [selected |-> best, switches |-> ctl.switches + 1, sinceSwitch |-> ctl.sinceSwitch + 1]
       ELSE [ctl EXCEPT !.sinceSwitch = @ + 1]

\* The controller after a sampled call left the samples n and r.
Decide(n, r) ==
    LET best == Best(r)
    IN IF /\ Warm(n)
          /\ ctl.switches = 0 \/ ctl.sinceSwitch + 1 > Cooldown
          /\ 10 * MeanOf(r[best]) < MeanOf(r[ctl.selected]) * (10 - Hysteresis)
       THEN [selected |-> best, switches |-> ctl.switches + 1, sinceSwitch |-> 0]
       ELSE [ctl EXCEPT !.sinceSwitch = @ + 1]

-----------------------------------------------------------------------------
(* Match *)

\* Mutant: the time spent is not compared.
WithinBudgetAlways == TRUE

WithinBudget ==
    100 * shadowTime <= OverheadBudget * MeanOf(rings[ctl.selected]) * calls

\* Mutant: the selected candidate is not stepped over.
PickShadowAny == (nextShadow + 1) % N

\* Round robin over the candidates that are not selected.
PickShadow ==
    LET next == (nextShadow + 1) % N
    IN IF next = ctl.selected THEN (next + 1) % N ELSE next

Shadowing == full \/ ~Warm(counts) \/ WithinBudget

Shadows == IF full THEN Candidates \ {ctl.selected}
           ELSE IF Shadowing THEN {PickShadow} \ {ctl.selected}
           ELSE {}

\* Mutant: a shadow's answer lands in the caller's buffer.
AnswersShared == SetToSeq({ctl.selected} \cup Shadows)

\* Whose answers a sampled call appends: shadows write to scratch.
Answers == <<ctl.selected>>

\* A call that is not sampled counts itself, then reads the selection.
Count(p) == /\ place[p] = "start" /\ ~full
            /\ calls < MaxCalls
            /\ calls' = calls + 1
            /\ place' = [place EXCEPT ![p] = IF (calls + 1) % SampleEvery = 0 THEN "lock" ELSE "read"]
            /\ UNCHANGED <<selected, dst, policy>>

CountNothing(p) == /\ place[p] = "start" /\ full
                   /\ place' = [place EXCEPT ![p] = "lock"]
                   /\ UNCHANGED <<calls, selected, dst, policy>>

MatchSelected(p) == /\ place[p] = "read"
                    /\ dst' = [dst EXCEPT ![p] = Append(@, selected)]
                    /\ place' = [place EXCEPT ![p] = "return"]
                    /\ UNCHANGED <<calls, selected, policy>>

Sample(p) ==
    /\ place[p] = "lock" /\ sampled < MaxSampled
    /\ \E cost \in [{ctl.selected} \cup Shadows -> Costs] :
          /\ counts' = [c \in Candidates |-> IF c \in DOMAIN cost THEN counts[c] + 1 ELSE counts[c]]
          /\ rings' = [c \in Candidates |->
                         IF c \in DOMAIN cost THEN Observe(rings[c], cost[c]) ELSE rings[c]]
          /\ shadowTime' = shadowTime + Total([n \in 1..N |-> IF n - 1 \in Shadows THEN cost[n - 1] ELSE 0])
    /\ nextShadow' = IF Shadowing THEN PickShadow ELSE nextShadow
    /\ sampled' = sampled + 1
    /\ ctl' = Decide(counts', rings')
    /\ selected' = ctl'.selected
    /\ lastSwitch' = IF ctl'.switches > ctl.switches THEN sampled + 1 ELSE lastSwitch
    /\ dst' = [dst EXCEPT ![p] = @ \o Answers]
    /\ place' = [place EXCEPT ![p] = "return"]
    /\ UNCHANGED <<full, calls>>

\* The caller takes its answer and may call again, with its buffer emptied.
Return(p) == /\ place[p] = "return"
             /\ dst' = [dst EXCEPT ![p] = <<>>]
             /\ place' = [place EXCEPT ![p] = "start"]
             /\ UNCHANGED <<calls, selected, policy>>

Next == \E p \in Callers :
           Count(p) \/ CountNothing(p) \/ MatchSelected(p) \/ Sample(p) \/ Return(p)

Spec == Init /\ [][Next]_vars

-----------------------------------------------------------------------------

\* A call is answered by exactly one candidate, however its run overlaps with
\* shadows and switches: Match appends each subscription at most once.
OneAnswer == \A p \in Callers : place[p] = "return" => Len(dst[p]) = 1

\* Round robin and the step over the selected candidate give every candidate
\* its Warmup samples as soon as there were enough sampled calls for that.
WarmInTime == sampled >= Warmup * (N - 1) => Warm(counts)

\* The overhead budget holds over any history, up to what warming up cost and
\* the one shadow that runs while the time spent is still within it: no more
\* than OverheadBudget of what the calls would take at the highest cost.
OverheadBounded ==
    LET highest == CHOOSE c \in Costs : \A d \in Costs : d <= c
        budgeted == OverheadBudget * highest * calls
        warmup == 100 * Warmup * (N - 1) * highest
    IN ~full => 100 * shadowTime <=
                   (IF budgeted < warmup THEN warmup ELSE budgeted) + 100 * highest

\* Shadowing does no harm, however long it goes on and whoever calls meanwhile:
\* answers come once, warming up ends, and the overhead stays within its budget.
ShadowsHarmless == OneAnswer /\ WarmInTime /\ OverheadBounded

\* A switch comes more than Cooldown sampled calls after the one before, when
\* every candidate was tried often enough, to one whose window was cheaper.
SwitchJustified ==
    [][ ctl'.selected # ctl.selected =>
          /\ lastSwitch = 0 \/ sampled' - lastSwitch > Cooldown
          /\ \A c \in Candidates : counts'[c] >= Warmup
          /\ MeanOf(rings'[ctl'.selected]) < MeanOf(rings'[ctl.selected]) ]_vars
=============================================================================
