--------------------------- MODULE SupplierTransport ---------------------------
(***************************************************************************)
(* The client every adapter calls suppliers through                        *)
(* (packages/supplier-sdk/src/transport.ts): bounded jittered retries of   *)
(* idempotent requests inside the caller's deadline, and one circuit       *)
(* breaker that all calls of a supplier account share.                     *)
(*                                                                         *)
(* JavaScript runs one callback at a time, so a step of a send goes from   *)
(* one await to the next: Send (admission and first dial), what the inner  *)
(* transport answers, the end of a backoff sleep, and the settlement of    *)
(* the breaker after the retry loop has ended.  A send the breaker refuses *)
(* changes nothing and is not a step.                                      *)
(***************************************************************************)
EXTENDS Integers, FiniteSets

CONSTANTS
    Calls,          \* callers; each has at most one send under way
    Idempotent,     \* those whose requests may be retried (not book, not cancel)
    Threshold,      \* failureThreshold
    Cooldown,       \* cooldownMs
    MaxAttempts,    \* retry.maxAttempts
    BaseDelay,      \* retry.baseDelayMs
    MaxDelay,       \* retry.maxDelayMs
    Budget,         \* the longest deadline a caller sets, from the moment it sends
    Lag,            \* how late the event loop may run a timer that is due
    MaxTime         \* bound: the clock stops here

ASSUME CallsAssumption == Idempotent \subseteq Calls
ASSUME BreakerAssumption == Threshold \in Nat \ {0} /\ Cooldown \in Nat
ASSUME RetryAssumption ==
    /\ MaxAttempts \in Nat \ {0}
    /\ BaseDelay \in Nat
    /\ MaxDelay \in Nat
ASSUME TimeAssumption == Budget \in Nat /\ Lag \in Nat /\ MaxTime \in Nat

VARIABLES
    mode,           \* "live", or "replay": recordings only, no supplier
    now,            \* the clock
    state,          \* CircuitBreaker.#state
    failures,       \* CircuitBreaker.#consecutiveFailures
    openedAt,       \* CircuitBreaker.#openedAt
    probeInFlight,  \* CircuitBreaker.#probeInFlight
    pc,             \* where each caller's send is
    attempt,        \* loop variable of the send
    deadline,       \* ctx.deadline of the send
    wake,           \* end of the send's backoff sleep
    outcome,        \* what its retry loop ended with
    probing,        \* observer: sends under way that took the probe slot
    streak          \* observer: failures settled since the last success, up to
                    \* Threshold

breakerVars == <<state, failures, openedAt, probeInFlight>>
callVars == <<pc, attempt, deadline, wake, outcome>>
vars == <<mode, now, breakerVars, callVars, probing, streak>>

\* "throttled" is a 429, "unavailable" a 502, 503 or 504, "broken" any other
\* status from 500 up, "timeout" every failure of the transport, "miss" a
\* request the replayer has no recording of; "answered" is any other response.
Outcomes == {"answered", "throttled", "unavailable", "broken", "timeout", "miss"}
Retryable == {"throttled", "unavailable", "timeout"}
Failures == {"unavailable", "broken", "timeout"}

InFlight(c) == pc[c] # "idle"
-----------------------------------------------------------------------------
(* The breaker.                                                            *)

CoolingDown == state = "open" /\ now - openedAt < Cooldown

RefusesOnlyOpen == CoolingDown                                       \* mutant

Refuses == CoolingDown \/ (state = "half_open" /\ probeInFlight)

AssertCanCall(c) ==
    /\ ~Refuses
    /\ \/ /\ state = "closed"
          /\ UNCHANGED <<state, probeInFlight, probing>>
       \/ /\ state # "closed"
          /\ state' = "half_open"
          /\ probeInFlight' = TRUE
          /\ probing' = probing \union {c}
    /\ UNCHANGED <<failures, openedAt>>

Trip ==
    /\ state' = "open"
    /\ openedAt' = now
    /\ failures' = 0
    /\ probeInFlight' = FALSE

RecordSuccessKeepsCount ==                                           \* mutant
    /\ state' = "closed"
    /\ probeInFlight' = FALSE
    /\ UNCHANGED <<failures, openedAt>>

RecordSuccess ==
    /\ state' = "closed"
    /\ failures' = 0
    /\ probeInFlight' = FALSE
    /\ UNCHANGED openedAt

Trips == state = "half_open" \/ failures + 1 >= Threshold

RecordFailure ==
    \/ Trips /\ Trip
    \/ /\ ~Trips
       /\ failures' = failures + 1
       /\ UNCHANGED <<state, openedAt, probeInFlight>>

RecordInconclusiveKeepsSlot == UNCHANGED breakerVars                 \* mutant

RecordInconclusive ==
    /\ probeInFlight' = FALSE
    /\ UNCHANGED <<state, failures, openedAt>>
-----------------------------------------------------------------------------
(* A send.                                                                 *)

MaxAttemptsOf(c) == IF c \in Idempotent THEN MaxAttempts ELSE 1

\* Full jitter: floor(random() * ceiling), where random() < 1.
BackoffDelays(n) ==
    LET ceiling == BaseDelay * 2^(n - 1)
    IN  0 .. (IF ceiling < MaxDelay THEN ceiling ELSE MaxDelay) - 1

\* The head of the retry loop: give up when the deadline is spent, else dial.
Attempt(c, n, by) ==
    /\ attempt' = [attempt EXCEPT ![c] = n]
    /\ \/ /\ by - now <= 0
          /\ pc' = [pc EXCEPT ![c] = "settling"]
          /\ outcome' = [outcome EXCEPT ![c] = "timeout"]
       \/ /\ by - now > 0
          /\ pc' = [pc EXCEPT ![c] = "dialed"]
          /\ UNCHANGED outcome

\* The context the adapter passes may have spent part or all of its budget on
\* an earlier call.
Send(c) ==
    /\ pc[c] = "idle"
    /\ AssertCanCall(c)
    /\ \E by \in now .. now + Budget :
          /\ deadline' = [deadline EXCEPT ![c] = by]
          /\ Attempt(c, 1, by)
    /\ UNCHANGED <<mode, now, wake, streak>>

CanAnswer(c, o) ==
    /\ pc[c] = "dialed"
    /\ o = "miss" => mode = "replay"

MayRetry(c, o) == o \in Retryable /\ attempt[c] < MaxAttemptsOf(c)

\* A retryable answer with attempts left and time for the delay.
BackOff(c) ==
    /\ \E o \in Outcomes : CanAnswer(c, o) /\ MayRetry(c, o)
    /\ \E delay \in BackoffDelays(attempt[c]) :
          /\ deadline[c] - now > delay
          /\ wake' = [wake EXCEPT ![c] = now + delay]
    /\ pc' = [pc EXCEPT ![c] = "sleeping"]
    /\ UNCHANGED <<mode, now, breakerVars, attempt, deadline, outcome, probing, streak>>

\* Any other answer ends the loop: the last attempt's, one that is not worth
\* retrying, or one whose delay would outlast the deadline.
EndLoop(c) ==
    /\ \E o \in Outcomes :
          /\ CanAnswer(c, o)
          /\ MayRetry(c, o) =>
                \E delay \in BackoffDelays(attempt[c]) : deadline[c] - now <= delay
          /\ outcome' = [outcome EXCEPT ![c] = o]
    /\ pc' = [pc EXCEPT ![c] = "settling"]
    /\ UNCHANGED <<mode, now, breakerVars, attempt, deadline, wake, probing, streak>>

\* The sleep is over; the clock may have passed the deadline meanwhile.
WakeUp(c) ==
    /\ pc[c] = "sleeping"
    /\ wake[c] <= now
    /\ Attempt(c, attempt[c] + 1, deadline[c])
    /\ wake' = [wake EXCEPT ![c] = 0]
    /\ UNCHANGED <<mode, now, breakerVars, deadline, probing, streak>>

\* What follows the loop: the breaker learns the outcome, the caller gets it,
\* and the locals of the send are gone.
Settle(c) ==
    /\ pc[c] = "settling"
    /\ \/ /\ outcome[c] = "miss"
          /\ RecordInconclusive
          /\ UNCHANGED streak
       \/ /\ outcome[c] \in Failures
          /\ RecordFailure
          /\ streak' = IF streak < Threshold THEN streak + 1 ELSE streak
       \/ /\ outcome[c] \in {"answered", "throttled"}
          /\ RecordSuccess
          /\ streak' = 0
    /\ pc' = [pc EXCEPT ![c] = "idle"]
    /\ attempt' = [attempt EXCEPT ![c] = 0]
    /\ deadline' = [deadline EXCEPT ![c] = 0]
    /\ wake' = [wake EXCEPT ![c] = 0]
    /\ outcome' = [outcome EXCEPT ![c] = "answered"]
    /\ probing' = probing \ {c}
    /\ UNCHANGED <<mode, now>>

\* Timers run at most Lag late: the abort signal of a dialed request is cut
\* from the deadline.  Promise continuations run before the clock moves.
MayLag(c) ==
    /\ pc[c] # "settling"
    /\ pc[c] = "dialed" => now < deadline[c] + Lag
    /\ pc[c] = "sleeping" => now < wake[c] + Lag

Tick ==
    /\ now < MaxTime
    /\ \A c \in Calls : MayLag(c)
    /\ now' = now + 1
    /\ UNCHANGED <<mode, breakerVars, callVars, probing, streak>>
-----------------------------------------------------------------------------
Init ==
    /\ mode \in {"live", "replay"}
    /\ now = 0
    /\ state = "closed"
    /\ failures = 0
    /\ openedAt = 0
    /\ probeInFlight = FALSE
    /\ pc = [c \in Calls |-> "idle"]
    /\ attempt = [c \in Calls |-> 0]
    /\ deadline = [c \in Calls |-> 0]
    /\ wake = [c \in Calls |-> 0]
    /\ outcome = [c \in Calls |-> "answered"]
    /\ probing = {}
    /\ streak = 0

Next ==
    \/ Tick
    \/ \E c \in Calls :
          Send(c) \/ BackOff(c) \/ EndLoop(c) \/ WakeUp(c) \/ Settle(c)

Spec == Init /\ [][Next]_vars
-----------------------------------------------------------------------------
(* Properties.                                                             *)

\* The type invariant; the failure count never reaches the threshold that
\* trips the breaker.
TypeOK ==
    /\ mode \in {"live", "replay"}
    /\ now \in Nat
    /\ state \in {"closed", "open", "half_open"}
    /\ failures \in 0 .. Threshold - 1
    /\ openedAt \in Nat
    /\ probeInFlight \in BOOLEAN
    /\ pc \in [Calls -> {"idle", "dialed", "sleeping", "settling"}]
    /\ attempt \in [Calls -> Nat]
    /\ deadline \in [Calls -> Nat]
    /\ wake \in [Calls -> Nat]
    /\ outcome \in [Calls -> Outcomes]
    /\ probing \subseteq Calls
    /\ streak \in Nat

\* The breaker cannot wedge: a probe slot that is taken belongs to a half-open
\* breaker and to a send still under way, whose settlement will free it, also
\* when that send finds no recording and proves nothing about the supplier.
SlotIsHeld ==
    probeInFlight => state = "half_open" /\ \E c \in probing : InFlight(c)

\* A caller's deadline is at most Budget away when it sends: this call was
\* admitted a cooldown ago or longer.
Outlived(c) == now + Budget >= deadline[c] + Cooldown

\* A live supplier in doubt is asked by one call at a time, also when calls that
\* were admitted before the trip settle late and trip or close the breaker
\* behind the probe's back: a second probe joins only a cooldown after the first
\* was admitted.  Where every call ends within the cooldown there is no second;
\* where a budget is the cooldown, as by default that of a booking is, it joins
\* a first that is past its deadline.  (A miss frees the slot whoever holds it,
\* so that nothing is said of the replayer.)
ProbesApart ==
    mode = "live" => \A c, d \in probing : c = d \/ Outlived(c) \/ Outlived(d)

\* A supplier in doubt has one probe, and is not left without one: whoever
\* took the slot is under way and will give it back, and nobody shares it but
\* with a probe that has outlived the cooldown.
ProbesAreSound == SlotIsHeld /\ ProbesApart

\* A request that is not idempotent - a booking, a cancellation - is never
\* dialed a second time, whatever the first attempt came to.
BookSentOnce == \A c \in Calls \ Idempotent : attempt[c] <= 1

\* While the breaker lets calls through, its count is the run of failures since
\* the last success, in the order the calls settled and however they overlap:
\* it opens after a run of Threshold failures and never before.
CountIsTheStreak == state = "closed" => failures = streak /\ streak < Threshold

\* The caller has its answer by its deadline, but for the lag of the last
\* timer: no retry is scheduled that could not be dialed in time.
AnswersByDeadline == \A c \in Calls : InFlight(c) => now <= deadline[c] + Lag

=============================================================================
