--------------------------- MODULE RetrySchedule ---------------------------
(***************************************************************************)
(* The clock of internal/report/dispatcher.go's deliver: when the attempts *)
(* of one batch start, how long the worker waits between them, and which   *)
(* limit ends them; with the answers internal/report/httpreport gives.     *)
(* Dispatcher leaves time out and lets any attempt be the last; here time  *)
(* is all there is. It is counted in units of the configuration's choice,  *)
(* from the first attempt; attempts are exact, computation takes none.     *)
(***************************************************************************)
EXTENDS Integers

CONSTANTS RequestTimeout, BackoffBase, BackoffMax, RetryBudget,  \* Config
          AttemptLimits,  \* the values of Config.MaxAttempts to try
          Second,         \* time.Second
          DurationLimit,  \* the first duration that no time.Duration holds
          DelaySeconds,   \* what a Retry-After may say, in seconds
          Dates           \* and how far in the future it may lie as a date

ASSUME RetryAssumption ==
    /\ RequestTimeout \in Nat \ {0} /\ AttemptLimits \subseteq Nat \ {0}
    /\ BackoffBase \in Nat \ {0} /\ BackoffMax \in Nat /\ BackoffMax >= BackoffBase
    /\ RetryBudget \in Nat \ {0}
    /\ Second \in Nat \ {0} /\ DelaySeconds \subseteq Nat /\ Dates \subseteq Nat
    /\ DurationLimit \in Nat /\ RetryBudget + RequestTimeout + BackoffMax < DurationLimit
    /\ \A d \in Dates : d < DurationLimit

VARIABLES
    maxAttempts,  \* Config.MaxAttempts, the same all along
    clock,      \* d.now() minus start
    attempt,    \* deliver's attempt
    outcome,    \* "attempt" or "sleep" while deliver runs, then why it returned
    wait,       \* what deliver sleeps
    lastStart,  \* history: when the last attempt started
    refused     \* history: every failure so far was immediate and without a hint

clockVars == <<maxAttempts, clock, attempt, outcome, wait, lastStart, refused>>

Final == {"delivered", "permanent error", "attempts exhausted", "retry budget exhausted"}

ClockInit ==
    /\ maxAttempts \in AttemptLimits
    /\ clock = 0 /\ attempt = 1 /\ outcome = "attempt" /\ wait = 0
    /\ lastStart = 0 /\ refused = TRUE

-----------------------------------------------------------------------------

\* retryAfter multiplies without a look at the width of a Duration: what is too
\* long wraps, to a negative or to a shorter delay. A date saturates instead.
Duration(seconds) ==
    ((seconds * Second + DurationLimit) % (2 * DurationLimit)) - DurationLimit

\* The delays a destination may have asked for, as the dispatcher is told.
Hints == {Duration(s) : s \in DelaySeconds} \cup Dates

\* A wait that doubles until it reaches the cap, as backoff's loop leaves it.
Doubled[a \in Nat \ {0}] ==
    IF a = 1 THEN BackoffBase
    ELSE IF Doubled[a - 1] < BackoffMax THEN 2 * Doubled[a - 1] ELSE Doubled[a - 1]

Capped(w) == IF w < BackoffMax THEN w ELSE BackoffMax

Backoff(a) == Capped(Doubled[a])

\* A longer Retry-After replaces the backoff, up to its cap. No hint is 0.
Wait(a, hint) == IF hint > Backoff(a) THEN Capped(hint) ELSE Backoff(a)

\* Mutant: the wait is left out of the comparison.
PastBudgetNow(t, w) == t > RetryBudget

\* Mutant: the wait is counted twice.
PastBudgetTwice(t, w) == t + 2 * w > RetryBudget

PastBudget(t, w) == t + w > RetryBudget

-----------------------------------------------------------------------------

\* An attempt answers after d: at the latest, its context ends.
Answer(d) == /\ outcome = "attempt"
             /\ clock' = clock + d
             /\ UNCHANGED <<maxAttempts, attempt, lastStart>>

Delivered(d) == /\ Answer(d)
                /\ outcome' = "delivered"
                /\ UNCHANGED <<wait, refused>>

\* The destination answers with a status that retrying cannot change.
PermanentError(d) == /\ Answer(d)
                     /\ outcome' = "permanent error"
                     /\ UNCHANGED <<wait, refused>>

\* Any other failure, with the Retry-After hint it carries.
Retryable(d, hint) == /\ Answer(d)
                      /\ wait' = Wait(attempt, hint)
                      /\ refused' = (refused /\ d = 0 /\ hint = 0)

AttemptsExhausted(d, hint) == /\ Retryable(d, hint)
                              /\ attempt >= maxAttempts
                              /\ outcome' = "attempts exhausted"

BudgetExhausted(d, hint) == /\ Retryable(d, hint)
                            /\ attempt < maxAttempts /\ PastBudget(clock', wait')
                            /\ outcome' = "retry budget exhausted"

Sleep(d, hint) == /\ Retryable(d, hint)
                  /\ attempt < maxAttempts /\ ~PastBudget(clock', wait')
                  /\ outcome' = "sleep"

WakeUp == /\ outcome = "sleep"
          /\ clock' = clock + wait /\ lastStart' = clock + wait
          /\ attempt' = attempt + 1
          /\ outcome' = "attempt"
          /\ UNCHANGED <<maxAttempts, wait, refused>>

Attempt == \E d \in 0..RequestTimeout :
              \/ Delivered(d) \/ PermanentError(d)
              \/ \E hint \in Hints \cup {0} :
                    AttemptsExhausted(d, hint) \/ BudgetExhausted(d, hint) \/ Sleep(d, hint)

Settled == outcome \in Final /\ UNCHANGED clockVars

ClockNext == Attempt \/ WakeUp \/ Settled

ClockSpec == ClockInit /\ [][ClockNext]_clockVars

-----------------------------------------------------------------------------

\* RetryBudget bounds the time from a batch's first attempt to its last, with
\* whatever waits the destination asks for, those that overflow included, and
\* however long attempts hang: the worker holds its destination's queue for no longer than one attempt more.
SettledInTime == /\ lastStart <= RetryBudget
                 /\ clock <= RetryBudget + RequestTimeout
=============================================================================
