-------------------------------- MODULE Booking --------------------------------
(***************************************************************************)
(* packages/domain/src/booking.ts: the states of a booking item, which     *)
(* transition the domain allows from each, and the normalised cancellation *)
(* policy.  A policy is a sequence of rules; a rule's penalty applies from *)
(* its instant until the next rule takes over.  Instants and amounts are   *)
(* numbers of one currency.                                                *)
(***************************************************************************)
EXTENDS Naturals, Sequences

BookingItemStates ==
    {"quoted", "reserved", "pending_confirmation", "confirmed", "issued",
     "amendment_pending", "completed", "cancelled", "failed"}

BookingItemTransitions ==
    [quoted               |-> {"reserved"},
     reserved             |-> {"pending_confirmation", "confirmed", "failed"},
     pending_confirmation |-> {"confirmed", "failed", "cancelled"},
     confirmed            |-> {"issued", "amendment_pending", "cancelled"},
     issued               |-> {"completed", "amendment_pending", "cancelled"},
     amendment_pending    |-> {"confirmed", "issued"},
     completed            |-> {},
     cancelled            |-> {},
     failed               |-> {}]

CanTransition(from, to) == to \in BookingItemTransitions[from]

------------------------------------------------------------------------------
Rule == [fromUtc : Nat, penalty : Nat]

\* assertValidCancellationPolicy: rules ordered by fromUtc ascending.
ValidPolicy(rules) ==
    \A i \in 2..Len(rules) : rules[i - 1].fromUtc <= rules[i].fromUtc

\* The comparison of the loop turned strict.
LoopExitsStrict(rules, at) ==
    {n \in 0..Len(rules) : n = Len(rules) \/ rules[n + 1].fromUtc >= at}

\* Where the loop of resolvePenaltyAt can stop: past the last rule, or before
\* a rule that is not yet in force.  It stops at the first such place.
LoopExits(rules, at) ==
    {n \in 0..Len(rules) : n = Len(rules) \/ rules[n + 1].fromUtc > at}

RulesPassed(rules, at) ==
    CHOOSE n \in LoopExits(rules, at) : \A m \in LoopExits(rules, at) : n <= m

\* resolvePenaltyAt: the penalty of the last rule passed.  A set of at most
\* one amount, empty where the code returns undefined.
ResolvePenaltyAt(rules, at) ==
    LET passed == RulesPassed(rules, at)
    IN  IF passed = 0 THEN {} ELSE {rules[passed].penalty}

\* penaltyFor (pending.ts) and buildPreview (booking.service.ts): with no rule
\* in force the penalty is zero.
PenaltyFor(rules, at) ==
    LET penalty == ResolvePenaltyAt(rules, at)
    IN  IF penalty = {} THEN 0 ELSE CHOOSE amount \in penalty : TRUE

------------------------------------------------------------------------------
\* The rules in force or past at an instant: the reading of the doc comment.
Started(rules, at) == {i \in 1..Len(rules) : rules[i].fromUtc <= at}

\* For a valid policy the loop finds the latest rule at or before the instant,
\* and none exactly when the instant precedes them all (resolvePenaltyAt).
LatestRuleInForce(rules, at) ==
    IF Started(rules, at) = {}
    THEN ResolvePenaltyAt(rules, at) = {}
    ELSE \E i \in Started(rules, at) :
            /\ \A j \in Started(rules, at) : j <= i
            /\ ResolvePenaltyAt(rules, at) = {rules[i].penalty}

==============================================================================
