------------------------ MODULE BookingLifecycleProofs ------------------------
(***************************************************************************)
(* Theorems about the booking lifecycle, for every number of cancel        *)
(* requests and workers, every policy, price, back-off and bound.          *)
(*                                                                         *)
(* The processes touch the item, its books and its events only through the *)
(* runner (NextIsRunnerStep).  What one runner operation preserves is      *)
(* proved once and carried over to every interleaving.                     *)
(***************************************************************************)
EXTENDS BookingLifecycle, WellFoundedInduction, TLAPS

------------------------------------------------------------------------------
(***************************************************************************)
(* The cancellation policy: resolvePenaltyAt is total and finds the latest *)
(* rule in force, for every policy and every instant.                      *)
(***************************************************************************)
\* A nonempty set of naturals has a least element.
LEMMA LeastElement ==
    ASSUME NEW S, S \subseteq Nat, S # {}
    PROVE  \E n \in S : \A m \in S : n <= m
<1>1. PICK n \in S : \A m \in S : ~(<<m, n>> \in OpToRel(<, Nat))
  BY NatLessThanWellFounded, WFMin
<1>2. ASSUME NEW m \in S PROVE n <= m
  <2>1. m < n => <<m, n>> \in OpToRel(<, Nat)
    BY DEF OpToRel
  <2>2. ~(m < n)
    BY <1>1, <2>1
  <2> QED
    BY <2>2
<1> QED
  BY <1>2

\* Every rule of a policy has a natural instant and amount.
LEMMA RulesAreRules ==
    ASSUME NEW rules \in Seq(Rule), NEW i \in 1..Len(rules)
    PROVE  rules[i].fromUtc \in Nat /\ rules[i].penalty \in Nat
<1>1. rules[i] \in Rule
  OBVIOUS
<1> QED
  BY <1>1 DEF Rule

\* The loop stops somewhere: a least exit exists, at most Len(rules).
LEMMA LeastExit ==
    ASSUME NEW rules \in Seq(Rule), NEW at \in Nat
    PROVE  /\ RulesPassed(rules, at) \in LoopExits(rules, at)
           /\ \A m \in LoopExits(rules, at) : RulesPassed(rules, at) <= m
<1> DEFINE Exits == LoopExits(rules, at)
<1>1. Exits \subseteq Nat /\ Len(rules) \in Exits
  BY DEF LoopExits
<1>2. PICK n \in Exits : \A m \in Exits : n <= m
  BY <1>1, LeastElement
<1> QED
  BY <1>2 DEF RulesPassed

\* The fee previewed or charged is always an amount.
THEOREM PenaltyIsAmount ==
    ASSUME NEW rules \in Seq(Rule), NEW at \in Nat
    PROVE  PenaltyFor(rules, at) \in Nat
<1> DEFINE passed == RulesPassed(rules, at)
<1>1. passed \in 0..Len(rules)
  BY LeastExit DEF LoopExits
<1>2. CASE passed = 0
  BY <1>2 DEF PenaltyFor, ResolvePenaltyAt
<1>3. CASE passed # 0
  <2>1. rules[passed].penalty \in Nat
    BY <1>1, <1>3, RulesAreRules
  <2>2. PenaltyFor(rules, at) = rules[passed].penalty
    BY <1>3 DEF PenaltyFor, ResolvePenaltyAt
  <2> QED
    BY <2>1, <2>2
<1> QED
  BY <1>2, <1>3

\* Rules before the exit have started, and in a valid policy no later one has
\* (resolvePenaltyAt breaks at the first rule that is not in force).
THEOREM LoopFindsLatestRule ==
    ASSUME NEW rules \in Seq(Rule), NEW at \in Nat, ValidPolicy(rules)
    PROVE  LatestRuleInForce(rules, at)
<1> DEFINE passed == RulesPassed(rules, at)
<1>1. /\ passed \in 0..Len(rules)
      /\ passed = Len(rules) \/ rules[passed + 1].fromUtc > at
      /\ \A m \in LoopExits(rules, at) : passed <= m
  BY LeastExit DEF LoopExits
<1>2. passed # 0 => rules[passed].fromUtc <= at
  <2> SUFFICES ASSUME passed # 0, ~(rules[passed].fromUtc <= at)
               PROVE  FALSE
    OBVIOUS
  <2>1. rules[passed].fromUtc > at
    BY <1>1, RulesAreRules
  <2>2. passed - 1 \in LoopExits(rules, at)
    BY <1>1, <2>1 DEF LoopExits
  <2> QED
    BY <2>2, <1>1
<1>3. \A j \in Started(rules, at) : j <= passed
  <2> SUFFICES ASSUME NEW j \in Started(rules, at), j > passed
               PROVE  FALSE
    BY <1>1 DEF Started
  <2>1. /\ passed + 1 \in 1..Len(rules)
        /\ rules[passed + 1].fromUtc > at
        /\ j \in (passed + 1)..Len(rules)
        /\ rules[j].fromUtc <= at
    BY <1>1 DEF Started
  \* The least index after the exit that has started cannot exist.
  <2> DEFINE After == {k \in (passed + 1)..Len(rules) : rules[k].fromUtc <= at}
  <2>2. After \subseteq Nat /\ After # {}
    BY <2>1, <1>1
  <2>3. PICK k \in After : \A m \in After : k <= m
    BY <2>2, LeastElement
  <2>4. k # passed + 1
    BY <2>1, <1>1, RulesAreRules
  <2>5. k - 1 \in (passed + 1)..Len(rules) /\ k \in 2..Len(rules)
    BY <2>4, <1>1
  <2>6. rules[k - 1].fromUtc <= rules[k].fromUtc
    BY <2>5 DEF ValidPolicy
  <2>7. rules[k - 1].fromUtc \in Nat /\ rules[k].fromUtc \in Nat
    BY <2>5, <1>1, RulesAreRules
  <2>8. k - 1 \in After
    BY <2>5, <2>6, <2>7
  <2> QED
    BY <2>3, <2>5, <2>8
<1>4. CASE passed = 0
  <2>1. Started(rules, at) = {}
    BY <1>3, <1>4 DEF Started
  <2> QED
    BY <2>1, <1>4 DEF LatestRuleInForce, ResolvePenaltyAt
<1>5. CASE passed # 0
  <2>1. passed \in Started(rules, at)
    BY <1>1, <1>2, <1>5 DEF Started
  <2>2. ResolvePenaltyAt(rules, at) = {rules[passed].penalty}
    BY <1>5 DEF ResolvePenaltyAt
  <2> QED
    BY <2>1, <2>2, <1>3 DEF LatestRuleInForce
<1> QED
  BY <1>4, <1>5

------------------------------------------------------------------------------
(***************************************************************************)
(* The runner.                                                             *)
(***************************************************************************)
\* The patches the processes hand to a transition.
Patches == {patch \in TransitionPatch : patch.cancellationRequestedAt \in Moment}

\* One operation of the runner, or none, with arguments of the right kind.
RunnerStep ==
    \/ CreateHotelBooking
    \/ \E from \in States, to \in States, patch \in Patches :
         \/ \E penalty \in Penalties : Transition(from, to, patch, penalty)
         \/ Transition(from, to, patch, Null)
    \/ \E at \in Moment \ {Null} : MarkCancellationRequested(at)
    \/ Escalate
    \/ \E attempts \in Nat, at \in Nat : RecordPollAttempt(attempts, at)
    \/ UNCHANGED runnerVars

\* What the runner is asked to do once the booker is through: a transition out
\* of a wait or of a confirmation, which brings a request instant only with
\* the cancellation itself, or an operation that leaves the state alone.
LateStep ==
    \/ \E from \in {"pending_confirmation", "confirmed"}, to \in {"confirmed", "cancelled"},
          patch \in Patches :
         /\ to = "confirmed" => patch.cancellationRequestedAt = Null
         /\ \/ \E penalty \in Penalties : Transition(from, to, patch, penalty)
            \/ Transition(from, to, patch, Null)
    \/ \E at \in Moment \ {Null} : MarkCancellationRequested(at)
    \/ Escalate
    \/ \E attempts \in Nat, at \in Nat : RecordPollAttempt(attempts, at)
    \/ UNCHANGED runnerVars

\* The part of TypeOK that is about the runner's own variables.
RunnerTypeOK ==
    /\ now \in Nat
    /\ item \in Items
    /\ item.cancellationRequestedAt \in Moment
    /\ balance \in [Accounts -> Int]
    /\ events \in Seq(EventTypes)

------------------------------------------------------------------------------
\* A fee is an amount, whenever it is looked up.
LEMMA FeeIsAmount == \A at \in Nat : FeeAt(at) \in Nat
  BY PenaltyIsAmount, PolicyAssumption DEF FeeAt

\* So is every penalty the engine can charge.
LEMMA PenaltiesAreAmounts == Penalties \subseteq Nat
  BY FeeIsAmount, BoundAssumption DEF Penalties

\* Only edges with a template are executed, and they stay inside the states.
LEMMA PostedEdge ==
    ASSUME NEW from, NEW to, <<from, to>> \in PostedEdges
    PROVE  \/ from = "quoted" /\ to = "reserved"
           \/ from = "reserved" /\ to \in {"pending_confirmation", "confirmed", "failed"}
           \/ from = "pending_confirmation" /\ to \in {"confirmed", "failed", "cancelled"}
           \/ from = "confirmed" /\ to = "cancelled"
  BY DEF PostedEdges, ConfirmEdges, PenaltyEdges, MemoEdges

\* The delay before the next poll is a natural number, at most the ceiling.
LEMMA BackoffWithinCap ==
    ASSUME NEW attempts
    PROVE  BackoffDelay(attempts) \in 0..DelayCap
  BY BackoffAssumption DEF BackoffDelay

\* The row a transition writes is a row: each column it sets is typed.
LEMMA AfterTransitionTyped ==
    ASSUME now \in Nat,
           NEW row \in Items, NEW to \in States, NEW patch \in TransitionPatch
    PROVE  AfterTransition(row, to, patch) \in Items
<1> DEFINE
      reference == row.supplierReference \/ patch.supplierReference
      since == OrElse(patch.pendingSince, row.pendingSince)
      requested == OrElse(patch.cancellationRequestedAt, row.cancellationRequestedAt)
      poll == IF to = "pending_confirmation"
              THEN OrElse(patch.nextPollAt, row.nextPollAt) ELSE patch.nextPollAt
      attempts == IF to = "pending_confirmation" \/ patch.nextPollAt # Null
                  THEN 0 ELSE row.pollAttempts
      updated == IF to = "reserved" THEN now ELSE Null
<1>1. since \in Instant /\ requested \in Instant /\ poll \in Instant /\ updated \in Instant
  BY DEF Items, TransitionPatch, Instant, OrElse
<1>2. attempts \in Nat /\ reference \in BOOLEAN
  BY DEF Items, TransitionPatch
<1>3. AfterTransition(row, to, patch) =
        [row EXCEPT !.state = to, !.supplierReference = reference, !.pendingSince = since,
                    !.cancellationRequestedAt = requested, !.nextPollAt = poll,
                    !.pollAttempts = attempts, !.updatedAt = updated]
  BY DEF AfterTransition
<1> HIDE DEF reference, since, requested, poll, attempts, updated
<1> QED
  BY <1>1, <1>2, <1>3 DEF Items

\* Posting adds up: balances stay integers.
LEMMA PlusTyped ==
    ASSUME NEW lines \in [Accounts -> Int], NEW more \in [Accounts -> Int]
    PROVE  Plus(lines, more) \in [Accounts -> Int]
  BY DEF Plus

\* A transition leaves a row, books and events of the right type.
LEMMA TransitionTyped ==
    ASSUME RunnerTypeOK,
           NEW from \in States, NEW to \in States, NEW patch \in Patches,
           NEW penalty,
           <<from, to>> \in PenaltyEdges => penalty \in Int,
           Transition(from, to, patch, penalty)
    PROVE  /\ item' \in Items
           /\ item'.cancellationRequestedAt \in Moment
           /\ balance' \in [Accounts -> Int]
           /\ events' \in Seq(EventTypes)
<1>1. <<from, to>> \in PostedEdges
  BY DEF Transition
<1>2. item' \in Items
  BY AfterTransitionTyped DEF Transition, RunnerTypeOK, Patches
<1>2a. item'.cancellationRequestedAt \in Moment
  BY DEF Transition, AfterTransition, RunnerTypeOK, Patches, Items, OrElse
<1>3. balance' \in [Accounts -> Int]
  <2>1. Posting(<<from, to>>, [sell |-> Sell, net |-> Net, penalty |-> penalty])
            \in [Accounts -> Int]
    BY <1>1, PostedEdge, AmountAssumption
    DEF Posting, ConfirmEdges, PenaltyEdges, CancelConfirmedLines, ConfirmLines, PenaltyLines,
        NoLines, Reversed, Plus, Accounts
  <2>2. balance \in [Accounts -> Int]
    BY DEF RunnerTypeOK
  <2> QED
    BY <2>1, <2>2, PlusTyped DEF Transition
<1>4. events' \in Seq(EventTypes)
  <2>1. EventOf(to) \in EventTypes
    BY <1>1, PostedEdge DEF EventOf, EventTypes
  <2> QED
    BY <2>1 DEF Transition, Emit, RunnerTypeOK
<1> QED
  BY <1>2, <1>2a, <1>3, <1>4

\* Every runner step keeps the runner's variables typed.
LEMMA RunnerStepTyped ==
    ASSUME RunnerTypeOK, RunnerStep
    PROVE  /\ item' \in Items
           /\ item'.cancellationRequestedAt \in Moment
           /\ balance' \in [Accounts -> Int]
           /\ events' \in Seq(EventTypes)
<1>1. CASE CreateHotelBooking
  <2>1. item' = [state |-> "quoted", supplierReference |-> FALSE, pendingSince |-> Null,
                 cancellationRequestedAt |-> Null, nextPollAt |-> Null, pollAttempts |-> 0,
                 escalated |-> FALSE, createdAt |-> now, updatedAt |-> now]
    BY <1>1 DEF CreateHotelBooking, NoItem
  <2>2. item' \in Items
    BY <2>1 DEF RunnerTypeOK, Items, Instant, States, BookingItemStates
  <2>3. "booking.created" \in EventTypes
    BY DEF EventTypes
  <2>4. item'.cancellationRequestedAt \in Moment
    BY <2>1 DEF Moment
  <2> QED
    BY <1>1, <2>2, <2>3, <2>4 DEF CreateHotelBooking, Emit, RunnerTypeOK
<1>2. ASSUME NEW from \in States, NEW to \in States, NEW patch \in Patches,
             \/ \E penalty \in Penalties : Transition(from, to, patch, penalty)
             \/ Transition(from, to, patch, Null)
      PROVE  /\ item' \in Items
             /\ item'.cancellationRequestedAt \in Moment
             /\ balance' \in [Accounts -> Int]
             /\ events' \in Seq(EventTypes)
  <2>1. Transition(from, to, patch, Null) => <<from, to>> \notin PenaltyEdges
    BY DEF Transition
  <2> QED
    BY <1>2, <2>1, TransitionTyped, PenaltiesAreAmounts
<1>3. ASSUME NEW at \in Moment \ {Null}, MarkCancellationRequested(at)
      PROVE  /\ item' \in Items
             /\ item'.cancellationRequestedAt \in Moment
             /\ balance' \in [Accounts -> Int]
             /\ events' \in Seq(EventTypes)
  <2>1. at \in Nat
    BY BoundAssumption DEF Moment
  <2>2. item' \in Items
    BY <1>3, <2>1 DEF RunnerTypeOK, MarkCancellationRequested, Items, Instant
  <2>3. "booking_item.cancellation_requested" \in EventTypes
    BY DEF EventTypes
  <2> QED
    BY <1>3, <2>2, <2>3 DEF MarkCancellationRequested, Emit, RunnerTypeOK, Items
<1>4. CASE Escalate
  <2>1. item' \in Items
    BY <1>4 DEF RunnerTypeOK, Escalate, Items, runnerVars
  <2>2. "booking_item.escalated" \in EventTypes
    BY DEF EventTypes
  <2> QED
    BY <1>4, <2>1, <2>2, SMTT(30) DEF Escalate, Emit, RunnerTypeOK, runnerVars, Items
<1>5. ASSUME NEW attempts \in Nat, NEW at \in Nat, RecordPollAttempt(attempts, at)
      PROVE  /\ item' \in Items
             /\ item'.cancellationRequestedAt \in Moment
             /\ balance' \in [Accounts -> Int]
             /\ events' \in Seq(EventTypes)
  <2>1. item' = item \/ item' = [item EXCEPT !.pollAttempts = attempts, !.nextPollAt = at]
    BY <1>5 DEF RecordPollAttempt
  <2>2. item' \in Items
    BY <2>1 DEF RunnerTypeOK, Items, Instant
  <2> QED
    BY <1>5, <2>2 DEF RecordPollAttempt, RunnerTypeOK, Items
<1>6. CASE UNCHANGED runnerVars
  BY <1>6 DEF RunnerTypeOK, runnerVars
<1> QED
  BY <1>1, <1>2, <1>3, <1>4, <1>5, <1>6 DEF RunnerStep

------------------------------------------------------------------------------
\* The fee of an instant of the run is one of the penalties.
LEMMA FeeIsPenalty == \A at \in 0..MaxTime : FeeAt(at) \in Penalties
  BY DEF Penalties

\* Nothing but a patch that sets it brings a request instant.
LEMMA NoPatchIsPatch ==
    NoPatch \in TransitionPatch /\ NoPatch \in Patches /\ NoPatch.cancellationRequestedAt = Null
  BY DEF NoPatch, TransitionPatch, Instant, Patches, Moment

\* The requests to cancel, the pollers and the voucher delivery ask the runner
\* for late steps only.
LEMMA CancelIsLateStep ==
    ASSUME TypeOK, NEW c \in Cancellers, Cancel(c)
    PROVE  LateStep
<1>1. cancels[c] \in CancelStates /\ cancels[c].at \in Moment
  BY DEF TypeOK
<1>2. CASE CancelTransition(c)
  <2> DEFINE from == cancels[c].from
             patch == [NoPatch EXCEPT !.cancellationRequestedAt = cancels[c].at]
             penalty == FeeAt(cancels[c].at)
  <2>1. cancels[c].at \in 0..MaxTime
    BY <1>1, <1>2 DEF TypeOK, CancelTransition, AtWork, Moment
  <2>2. penalty \in Penalties
    BY <2>1, FeeIsPenalty
  <2>3. patch \in Patches
    <3>1. cancels[c].at \in Instant
      BY <2>1, BoundAssumption DEF Instant
    <3> QED
      BY <1>1, <3>1, NoPatchIsPatch DEF TransitionPatch, Patches
  <2>4. Transition(from, "cancelled", patch, penalty)
    BY <1>2 DEF CancelTransition
  <2> HIDE DEF from, patch, penalty
  <2>5. from \in {"pending_confirmation", "confirmed"}
    BY <2>4, PostedEdge DEF Transition
  <2> QED
    BY <2>2, <2>3, <2>4, <2>5 DEF LateStep
<1>3. CASE CancelMark(c)
  <2>1. cancels[c].at \in Moment \ {Null}
    BY <1>1, <1>3 DEF TypeOK, CancelMark, AtWork
  <2> QED
    BY <1>3, <2>1 DEF CancelMark, LateStep
<1> QED
  BY <1>2, <1>3
  DEF Cancel, CancelAnswer, CancelCall, SupplierHandlesCancel, CancelReread, CancelConflict,
      TransitionConflicts, CancelDefer, CancelCrash, LateStep

LEMMA PollIsLateStep ==
    ASSUME TypeOK, NEW w \in Workers, Poll(w)
    PROVE  LateStep
<1>1. polls[w].snap \in Items /\ polls[w].snap.cancellationRequestedAt \in Moment
  BY DEF TypeOK, Polls
<1>2. now \in 0..MaxTime
  BY DEF TypeOK
<1>3. CASE PollReservation(w)
  BY <1>3 DEF PollReservation, LateStep
<1>4. CASE PollConfirm(w)
  <2> DEFINE patch == [NoPatch EXCEPT
            !.supplierReference = TRUE,
            !.nextPollAt = IF polls[w].snap.cancellationRequestedAt = Null
                           THEN Null ELSE now]
  <2>1. patch \in Patches /\ patch.cancellationRequestedAt = Null
    <3> DEFINE poll == IF polls[w].snap.cancellationRequestedAt = Null THEN Null ELSE now
    <3>1. poll \in Instant
      BY <1>2, BoundAssumption DEF Instant
    <3>2. patch = [NoPatch EXCEPT !.supplierReference = TRUE, !.nextPollAt = poll]
      OBVIOUS
    <3> HIDE DEF poll, patch
    <3> QED
      BY <3>1, <3>2, NoPatchIsPatch DEF TransitionPatch, Patches
  <2>2. \/ Transition("pending_confirmation", "confirmed", patch, Null)
        \/ UNCHANGED runnerVars
    BY <1>4 DEF PollConfirm, TransitionOrSkip
  <2> QED
    BY <2>1, <2>2 DEF LateStep
<1>5. CASE PollCancelPending(w)
  <2> DEFINE requestedAt == polls[w].snap.cancellationRequestedAt
             penalty == IF requestedAt = Null THEN 0 ELSE FeeAt(requestedAt)
  <2>1. penalty \in Penalties
    BY <1>1, FeeIsPenalty DEF Moment, Penalties
  <2>2. \/ Transition("pending_confirmation", "cancelled", NoPatch, penalty)
        \/ UNCHANGED runnerVars
    BY <1>5 DEF PollCancelPending, TransitionOrSkip
  <2> QED
    BY <2>1, <2>2, NoPatchIsPatch DEF LateStep
<1>6. CASE PollCancelConfirmed(w)
  <2> DEFINE at == OrElse(polls[w].snap.cancellationRequestedAt, now)
  <2>1. at \in 0..MaxTime
    BY <1>1, <1>2 DEF OrElse, Moment
  <2>2. FeeAt(at) \in Penalties
    BY <2>1, FeeIsPenalty
  <2>3. \/ Transition("confirmed", "cancelled", NoPatch, FeeAt(at))
        \/ UNCHANGED runnerVars
    BY <1>6 DEF PollCancelConfirmed, TransitionOrSkip
  <2> QED
    BY <2>2, <2>3, NoPatchIsPatch DEF LateStep
<1>7. CASE PollDefer(w)
  <2> DEFINE row == polls[w].snap
  <2>1. row.pollAttempts + 1 \in Nat
    BY <1>1 DEF Items
  <2>2. now + BackoffDelay(row.pollAttempts) \in Nat
    BY <1>2, BackoffWithinCap, BackoffAssumption, BoundAssumption
  <2> QED
    BY <1>7, <2>1, <2>2 DEF PollDefer, DeferOrEscalate, LateStep
<1> QED
  BY <1>3, <1>4, <1>5, <1>6, <1>7
  DEF Poll, PollStep, PollLoad, PollRetrieve, PollCrash, LateStep

LEMMA VoucherIsLateStep == VoucherGivesUp => LateStep
  BY DEF VoucherGivesUp, LateStep

LEMMA LateStepIsRunnerStep == LateStep => RunnerStep
<1>1. {"pending_confirmation", "confirmed", "cancelled"} \subseteq States
  BY DEF States, BookingItemStates
<1> QED
  BY <1>1 DEF LateStep, RunnerStep

\* The processes reach the item, its books and its events through the runner
\* alone, and only with arguments it is meant for.
LEMMA NextIsRunnerStep ==
    ASSUME TypeOK, [Next]_vars
    PROVE  RunnerStep
<1>1. NoPatch \in TransitionPatch /\ NoPatch \in Patches
  BY NoPatchIsPatch
<1>2. ASSUME NEW from \in States, NEW to \in States, NEW patch \in Patches,
             NEW penalty \in Penalties \union {Null}, Transition(from, to, patch, penalty)
      PROVE  RunnerStep
  BY <1>2 DEF RunnerStep
<1>3. CASE UNCHANGED vars
  BY <1>3 DEF vars, runnerVars, RunnerStep
<1>4. CASE Tick
  BY <1>4 DEF Tick, RunnerStep
<1>5. CASE Supplier
  BY <1>5 DEF Supplier, SupplierBooks, SupplierDecides, SupplierSettlesCancel, RunnerStep
<1>6. CASE Book
  <2>1. CASE BookCreate
    BY <2>1 DEF BookCreate, RunnerStep
  <2>2. CASE BookReserve
    BY <1>1, <1>2, <2>2 DEF BookReserve, States, BookingItemStates
  <2>3. CASE BookSettle
    <3>1. PendingPatch \in Patches
      <4>1. now \in Instant /\ now + BaseDelay \in Instant
        BY BackoffAssumption, BoundAssumption DEF TypeOK, Instant
      <4> DEFINE first == now + BaseDelay
      <4> HIDE DEF first
      <4>2. first \in Instant
        BY <4>1 DEF first
      <4> QED
        BY <1>1, <4>1, <4>2 DEF PendingPatch, TransitionPatch, first, Patches
    <3>2. ReferencePatch \in Patches
      BY DEF ReferencePatch, NoPatch, TransitionPatch, Instant, Patches, Moment
    <3>3. /\ "reserved" \in States /\ "confirmed" \in States
          /\ "pending_confirmation" \in States /\ "failed" \in States
      BY DEF States, BookingItemStates
    <3>4. booker.answer \in {"confirmed", "pending", "cancelled", "error"}
      BY <2>3 DEF BookSettle, TypeOK, Bookers, Statuses
    <3>5. \/ Transition("reserved", "confirmed", ReferencePatch, Null)
          \/ Transition("reserved", "pending_confirmation", PendingPatch, Null)
          \/ Transition("reserved", "failed", ReferencePatch, Null)
          \/ Transition("reserved", "failed", NoPatch, Null)
      BY <2>3, <3>4 DEF BookSettle
    <3> QED
      BY <1>1, <1>2, <3>1, <3>2, <3>3, <3>5
  <2> QED
    BY <1>6, <2>1, <2>2, <2>3
    DEF Book, BookWithoutAdapter, BookCall, BookTimeout, BookCrash, RunnerStep
<1>7. ASSUME NEW c \in Cancellers, Cancel(c)
      PROVE  RunnerStep
  BY <1>7, CancelIsLateStep, LateStepIsRunnerStep
<1>8. ASSUME NEW w \in Workers, Poll(w)
      PROVE  RunnerStep
  BY <1>8, PollIsLateStep, LateStepIsRunnerStep
<1>9. CASE VoucherGivesUp
  BY <1>9, VoucherIsLateStep, LateStepIsRunnerStep
<1> QED
  BY <1>3, <1>4, <1>5, <1>6, <1>7, <1>8, <1>9 DEF Next

------------------------------------------------------------------------------
\* The states and answers of the handlers stay what they are said to be.
ProcessTypeOK ==
    /\ supplier \in Suppliers
    /\ booker \in Bookers
    /\ booker.pc = "answered" => booker.answer # "none"
    /\ cancels \in [Cancellers -> CancelStates]
    /\ \A c \in Cancellers :
          /\ cancels[c].at \in Moment
          /\ cancels[c].pc \in AtWork => cancels[c].at # Null
    /\ polls \in [Workers -> Polls]
    /\ \A w \in Workers : polls[w].snap.cancellationRequestedAt \in Moment
    /\ crashes \in Nat

\* The supplier answers with statuses it has.
LEMMA SupplierTyped ==
    ASSUME TypeOK, Supplier
    PROVE  ProcessTypeOK'
<1>1. CASE SupplierBooks
  <2>1. PICK status \in Statuses \union {"none"} :
            /\ supplier' = [supplier EXCEPT !.status = status, !.booking = FALSE]
            /\ booker' \in
                 IF booker.pc = "calling"
                 THEN {[pc |-> "answered", answer |-> answer] :
                           answer \in IF status = "none" THEN {"error"} ELSE {status, "error"}}
                 ELSE {booker}
    BY <1>1 DEF SupplierBooks
  <2>2. supplier' \in Suppliers
    BY <2>1 DEF TypeOK, Suppliers
  <2>3. booker' \in Bookers /\ (booker'.pc = "answered" => booker'.answer # "none")
    BY <2>1 DEF TypeOK, Bookers, Statuses
  <2> QED
    BY <1>1, <2>2, <2>3 DEF TypeOK, ProcessTypeOK, SupplierBooks
<1>2. CASE SupplierDecides \/ SupplierSettlesCancel
  <2>1. supplier' \in Suppliers
    BY <1>2 DEF TypeOK, Suppliers, Statuses, SupplierDecides, SupplierSettlesCancel
  <2> QED
    BY <1>2, <2>1 DEF TypeOK, ProcessTypeOK, SupplierDecides, SupplierSettlesCancel
<1> QED
  BY <1>1, <1>2 DEF Supplier

\* bookHotel moves through its own states.
LEMMA BookTyped ==
    ASSUME TypeOK, Book
    PROVE  ProcessTypeOK'
<1>1. booker \in Bookers /\ supplier \in Suppliers
  BY DEF TypeOK
<1>2. /\ booker' \in Bookers
      /\ booker'.pc = "answered" => booker'.answer # "none"
      /\ supplier' \in Suppliers
      /\ UNCHANGED <<cancels, polls>>
      /\ crashes' \in Nat
  <2>1. CASE BookCreate
    BY <1>1, <2>1 DEF BookCreate, TypeOK, Bookers
  <2>2. CASE BookReserve
    BY <1>1, <2>2 DEF BookReserve, TypeOK, Bookers
  <2>3. CASE BookWithoutAdapter
    BY <1>1, <2>3 DEF BookWithoutAdapter, TypeOK, Bookers
  <2>4. CASE BookCall
    BY <1>1, <2>4 DEF BookCall, TypeOK, Bookers, Suppliers
  <2>5. CASE BookTimeout
    BY <1>1, <2>5 DEF BookTimeout, TypeOK, Bookers
  <2>6. CASE BookSettle
    BY <1>1, <2>6 DEF BookSettle, TypeOK, Bookers
  <2>7. CASE BookCrash
    <3>1. booker' \in Bookers /\ booker'.pc = "done"
      BY <1>1, <2>7 DEF BookCrash, Bookers
    <3>2. crashes' \in Nat
      BY <2>7 DEF BookCrash, TypeOK
    <3> QED
      BY <1>1, <2>7, <3>1, <3>2 DEF BookCrash
  <2> QED
    BY <2>1, <2>2, <2>3, <2>4, <2>5, <2>6, <2>7 DEF Book
<1> QED
  BY <1>2 DEF TypeOK, ProcessTypeOK

\* A handler of cancelBooking moves through its own states, and remembers the
\* instant of its request as long as it works on it.
LEMMA CancelTyped ==
    ASSUME TypeOK, NEW c \in Cancellers, Cancel(c)
    PROVE  ProcessTypeOK'
<1>1. cancels[c] \in CancelStates /\ cancels[c].at \in Moment
  BY DEF TypeOK
<1>2. ASSUME NEW next \in CancelStates, next.at \in Moment,
             next.pc \in AtWork => next.at # Null,
             cancels' = [cancels EXCEPT ![c] = next],
             supplier' \in Suppliers, crashes' \in Nat, UNCHANGED <<booker, polls>>
      PROVE  ProcessTypeOK'
  BY <1>2 DEF TypeOK, ProcessTypeOK
<1>3. now \in Moment \ {Null} /\ now \in Instant
  BY NullAssumption, BoundAssumption DEF TypeOK, Moment, Instant
<1>4. supplier' \in Suppliers /\ crashes' \in Nat /\ UNCHANGED <<booker, polls>>
  <2>1. CASE SupplierHandlesCancel(c)
    BY <2>1 DEF SupplierHandlesCancel, TypeOK, Suppliers, Statuses
  <2>2. CASE CancelCrash(c)
    BY <2>2 DEF CancelCrash, TypeOK
  <2>3. CASE ~SupplierHandlesCancel(c) /\ ~CancelCrash(c)
    BY <2>3
    DEF Cancel, CancelAnswer, CancelCall, CancelReread, CancelTransition, CancelConflict,
        CancelDefer, CancelMark, TypeOK
  <2> QED
    BY <2>1, <2>2, <2>3
<1>5. CASE CancelAnswer(c)
  <2>1. OrElse(item.cancellationRequestedAt, now) \in Moment \cap Instant
    BY <1>3 DEF OrElse, TypeOK, Items
  <2> QED
    <3>1. item.cancellationRequestedAt \in Moment \cap Instant
      BY DEF TypeOK, Items
    <3>2. \E pc \in {"told_cancelled", "told_pending"}, at \in Moment \cap Instant :
             cancels' = [cancels EXCEPT ![c] = [IdleCancel EXCEPT !.pc = pc, !.at = at]]
      BY <1>5, <2>1, <3>1 DEF CancelAnswer
    <3>3. IdleCancel \in CancelStates
      BY DEF IdleCancel, CancelStates, Instant, States
    <3> QED
      BY <1>2, <1>4, <3>2, <3>3 DEF CancelStates, AtWork
<1>6. CASE CancelCall(c)
  BY <1>2, <1>3, <1>4, <1>6 DEF CancelCall, IdleCancel, CancelStates, States
<1>7. CASE SupplierHandlesCancel(c)
  BY <1>1, <1>2, <1>4, <1>7 DEF SupplierHandlesCancel, CancelStates, AtWork, TypeOK
<1>8. CASE CancelReread(c)
  BY <1>1, <1>2, <1>4, <1>8 DEF CancelReread, CancelStates, AtWork, TypeOK, Items
<1>9. CASE CancelTransition(c)
  BY <1>1, <1>2, <1>4, <1>9 DEF CancelTransition, CancelStates, AtWork
<1>10. CASE CancelConflict(c)
  BY <1>1, <1>2, <1>4, <1>10 DEF CancelConflict, CancelStates, AtWork, TypeOK
<1>11. CASE CancelDefer(c)
  BY <1>1, <1>2, <1>4, <1>11 DEF CancelDefer, CancelStates, AtWork, TypeOK
<1>12. CASE CancelMark(c)
  BY <1>1, <1>2, <1>4, <1>12 DEF CancelMark, CancelStates, AtWork
<1>13. CASE CancelCrash(c)
  BY <1>1, <1>2, <1>4, <1>13 DEF CancelCrash, CancelStates, AtWork
<1> QED
  BY <1>5, <1>6, <1>7, <1>8, <1>9, <1>10, <1>11, <1>12, <1>13 DEF Cancel

\* A poller keeps a row as the sweep query returned it, and a report.
LEMMA PollTyped ==
    ASSUME TypeOK, NEW w \in Workers, Poll(w)
    PROVE  ProcessTypeOK'
<1>1. polls[w] \in Polls /\ polls[w].snap.cancellationRequestedAt \in Moment
  BY DEF TypeOK
<1>2. ASSUME NEW next \in Polls, next.snap.cancellationRequestedAt \in Moment,
             polls' = [polls EXCEPT ![w] = next],
             crashes' \in Nat, UNCHANGED <<supplier, booker, cancels>>
      PROVE  ProcessTypeOK'
  BY <1>2 DEF TypeOK, ProcessTypeOK
<1>3. crashes' \in Nat /\ UNCHANGED <<supplier, booker, cancels>>
  BY DEF Poll, PollStep, PollLoad, PollReservation, PollRetrieve, PollConfirm,
         PollCancelPending, PollCancelConfirmed, PollDefer, PollCrash, TypeOK
<1>4. IdlePoll \in Polls /\ IdlePoll.snap.cancellationRequestedAt \in Moment
  BY DEF IdlePoll, NoItem, Polls, Items, Instant, States, Moment
<1>5. CASE PollLoad(w)
  BY <1>2, <1>3, <1>4, <1>5 DEF PollLoad, IdlePoll, Polls, TypeOK
<1>6. CASE PollRetrieve(w)
  <2>1. Reports \subseteq Statuses \union {"none", "error"}
    BY DEF Reports, TypeOK, Suppliers, Statuses
  <2> QED
    <3>1. PICK report \in Statuses \union {"none", "error"} :
              polls' = [polls EXCEPT ![w].pc = "reported", ![w].report = report]
      BY <1>6, <2>1 DEF PollRetrieve
    <3> DEFINE next == [polls[w] EXCEPT !.pc = "reported", !.report = report]
    <3>2. next \in Polls /\ next.snap = polls[w].snap
      BY <1>1 DEF Polls
    <3>3. polls' = [polls EXCEPT ![w] = next]
      BY <1>1, <3>1 DEF TypeOK, Polls
    <3> HIDE DEF next
    <3> QED
      BY <1>1, <1>2, <1>3, <3>2, <3>3
<1>7. CASE polls' = [polls EXCEPT ![w] = IdlePoll]
  BY <1>2, <1>3, <1>4, <1>7
<1> QED
  BY <1>5, <1>6, <1>7
  DEF Poll, PollStep, PollReservation, PollConfirm, PollCancelPending, PollCancelConfirmed,
      PollDefer, PollCrash

\* Every step of every process keeps every variable typed.
LEMMA TypeInductive == TypeOK /\ [Next]_vars => TypeOK'
<1> SUFFICES ASSUME TypeOK, [Next]_vars
             PROVE  TypeOK'
  OBVIOUS
<1>1. RunnerTypeOK
  BY BoundAssumption DEF TypeOK, RunnerTypeOK
<1>2. /\ item' \in Items
      /\ item'.cancellationRequestedAt \in Moment
      /\ balance' \in [Accounts -> Int]
      /\ events' \in Seq(EventTypes)
  BY <1>1, NextIsRunnerStep, RunnerStepTyped
<1>3. now' \in 0..MaxTime
  <2>1. now \in 0..MaxTime /\ (Tick => now' \in 0..MaxTime)
    BY BoundAssumption DEF Tick, TypeOK
  <2>2. ~Tick => now' = now
    BY DEF Next, vars, Supplier, SupplierBooks, SupplierDecides, SupplierSettlesCancel,
           Book, BookCreate, BookReserve, BookWithoutAdapter, BookCall, BookTimeout,
           BookSettle, BookCrash, Cancel, CancelAnswer, CancelCall, SupplierHandlesCancel,
           CancelReread, CancelTransition, CancelConflict, CancelDefer, CancelMark, CancelCrash,
           Poll, PollStep, PollLoad, PollReservation, PollRetrieve, PollConfirm,
           PollCancelPending, PollCancelConfirmed, PollDefer, PollCrash, VoucherGivesUp
  <2> QED
    BY <2>1, <2>2
<1>4. ProcessTypeOK'
  <2>1. CASE Tick \/ VoucherGivesUp
    BY <2>1 DEF Tick, VoucherGivesUp, processVars, TypeOK, ProcessTypeOK
  <2>2. CASE UNCHANGED vars
    BY <2>2 DEF vars, TypeOK, ProcessTypeOK
  <2> QED
    BY <2>1, <2>2, SupplierTyped, BookTyped, CancelTyped, PollTyped DEF Next
<1> QED
  BY <1>2, <1>3, <1>4 DEF TypeOK, ProcessTypeOK

\* The initial state is typed.
LEMMA InitTyped == Init => TypeOK
<1> SUFFICES ASSUME Init
             PROVE  TypeOK
  OBVIOUS
<1>1. NoItem \in Items /\ NoItem.cancellationRequestedAt \in Moment
  BY DEF NoItem, Items, Instant, States, Moment
<1>2. IdleCancel \in CancelStates /\ IdleCancel.at \in Moment /\ IdleCancel.pc = "idle"
  BY DEF IdleCancel, CancelStates, Instant, States, Moment
<1>3. IdlePoll \in Polls /\ IdlePoll.snap = NoItem
  BY <1>1 DEF IdlePoll, Polls
<1>4. now \in 0..MaxTime
  BY BoundAssumption DEF Init
<1>5. item \in Items /\ item.cancellationRequestedAt \in Moment
  BY <1>1 DEF Init, RunnerInit
<1>6. balance \in [Accounts -> Int] /\ events \in Seq(EventTypes)
  BY DEF Init, RunnerInit, NoLines
<1>7. supplier \in Suppliers /\ booker \in Bookers /\ booker.pc = "idle" /\ crashes \in Nat
  BY DEF Init, Suppliers, Bookers
<1>8. /\ cancels \in [Cancellers -> CancelStates]
      /\ \A c \in Cancellers :
            cancels[c].at \in Moment /\ (cancels[c].pc \in AtWork => cancels[c].at # Null)
  BY <1>2 DEF Init, AtWork
<1>9. /\ polls \in [Workers -> Polls]
      /\ \A w \in Workers : polls[w].snap.cancellationRequestedAt \in Moment
  BY <1>1, <1>3 DEF Init
<1> QED
  BY <1>4, <1>5, <1>6, <1>7, <1>8, <1>9 DEF TypeOK

\* Type correctness: whatever the processes do, rows, books, events and the
\* handlers' own states have their types, and a handler that works on a
\* cancellation knows the instant of its request (booking.service.ts).
THEOREM TypeCorrect == Spec => []TypeOK
<1>1. Init => TypeOK
  BY InitTyped
<1>2. TypeOK /\ [Next]_vars => TypeOK'
  BY TypeInductive
<1> QED
  BY <1>1, <1>2, PTL DEF Spec

------------------------------------------------------------------------------
\* The arithmetic of the posting templates: confirming recognises the sale,
\* cancelling takes exactly that back and leaves the penalty.
LEMMA PostingArithmetic ==
    ASSUME NEW penalty
    PROVE  LET amounts == [sell |-> Sell, net |-> Net, penalty |-> penalty] IN
           /\ Plus(Promise!Nothing, NoLines) = Promise!Nothing
           /\ Plus(Promise!Nothing, ConfirmLines(amounts)) = Promise!Sale
           /\ penalty \in Int =>
                /\ Plus(Promise!Nothing, PenaltyLines(amounts)) = Promise!Penalty(penalty)
                /\ Plus(Promise!Sale, CancelConfirmedLines(amounts)) = Promise!Penalty(penalty)
<1> DEFINE amounts == [sell |-> Sell, net |-> Net, penalty |-> penalty]
<1>1. amounts.sell = Sell /\ amounts.net = Net /\ amounts.penalty = penalty
  OBVIOUS
<1> HIDE DEF amounts
<1>2. Plus(Promise!Nothing, NoLines) = Promise!Nothing
  BY DEF Plus, NoLines, Accounts, Promise!Nothing, Promise!Books
<1>3. Plus(Promise!Nothing, ConfirmLines(amounts)) = Promise!Sale
  BY <1>1, AmountAssumption
  DEF Plus, ConfirmLines, Accounts, Promise!Nothing, Promise!Sale, Promise!Books
<1>4. ASSUME penalty \in Int
      PROVE  Plus(Promise!Nothing, PenaltyLines(amounts)) = Promise!Penalty(penalty)
  BY <1>1, <1>4
  DEF Plus, PenaltyLines, Accounts, Promise!Nothing, Promise!Penalty, Promise!Books
<1>5. ASSUME penalty \in Int
      PROVE  Plus(Promise!Sale, CancelConfirmedLines(amounts)) = Promise!Penalty(penalty)
  BY <1>1, <1>5, AmountAssumption
  DEF Plus, Reversed, CancelConfirmedLines, ConfirmLines, PenaltyLines, Accounts,
      Promise!Sale, Promise!Penalty, Promise!Books
<1> QED
  BY <1>2, <1>3, <1>4, <1>5 DEF amounts

\* One transition moves the books as its edge demands.
LEMMA TransitionBooks ==
    ASSUME NEW from \in States, NEW to \in States, NEW patch \in Patches,
           NEW penalty \in Penalties \union {Null},
           RunnerTypeOK, LedgerMatchesState,
           Transition(from, to, patch, penalty)
    PROVE  /\ item'.state = to
           /\ LedgerMatchesState'
           /\ [Promise!Next]_(Promise!vars)
<1> DEFINE amounts == [sell |-> Sell, net |-> Net, penalty |-> penalty]
<1>1. /\ <<from, to>> \in PostedEdges
      /\ item.state = from
      /\ <<from, to>> \in PenaltyEdges => penalty \in Penalties
      /\ balance' = Plus(balance, Posting(<<from, to>>, amounts))
  BY DEF Transition
<1>2. item'.state = to
  BY DEF Transition, AfterTransition, RunnerTypeOK, Items
<1>3. penalty \in Penalties => penalty \in Int
  BY PenaltiesAreAmounts
<1> HIDE DEF amounts
<1>4. CASE from \in {"quoted", "reserved", "pending_confirmation"} /\ to = "confirmed"
  <2>1. balance = Promise!Nothing
    BY <1>1, <1>4 DEF LedgerMatchesState
  <2>2. balance' = Promise!Sale
    BY <1>1, <1>4, <2>1, PostedEdge, PostingArithmetic DEF Posting, ConfirmEdges, amounts
  <2> QED
    BY <1>1, <1>2, <1>4, <2>2
    DEF LedgerMatchesState, Phase, Promise!Next, Promise!Confirm
<1>5. CASE from = "pending_confirmation" /\ to = "cancelled"
  <2>1. balance = Promise!Nothing
    BY <1>1, <1>5 DEF LedgerMatchesState
  <2>2. penalty \in Penalties /\ balance' = Promise!Penalty(penalty)
    BY <1>1, <1>3, <1>5, <2>1, PostingArithmetic
    DEF Posting, ConfirmEdges, PenaltyEdges, amounts
  <2> QED
    BY <1>1, <1>2, <1>5, <2>2
    DEF LedgerMatchesState, Phase, Promise!Next, Promise!Cancel
<1>6. CASE from = "confirmed" /\ to = "cancelled"
  <2>1. balance = Promise!Sale
    BY <1>1, <1>6 DEF LedgerMatchesState
  <2>2. penalty \in Penalties /\ balance' = Promise!Penalty(penalty)
    BY <1>1, <1>3, <1>6, <2>1, PostingArithmetic
    DEF Posting, ConfirmEdges, PenaltyEdges, amounts
  <2> QED
    BY <1>1, <1>2, <1>6, <2>2
    DEF LedgerMatchesState, Phase, Promise!Next, Promise!Cancel
<1>7. CASE /\ from \in {"quoted", "reserved", "pending_confirmation"}
           /\ to \in {"reserved", "pending_confirmation", "failed"}
  <2>1. balance = Promise!Nothing
    BY <1>1, <1>7 DEF LedgerMatchesState
  <2>2. balance' = Promise!Nothing
    BY <1>1, <1>7, <2>1, PostingArithmetic DEF Posting, ConfirmEdges, amounts
  <2> QED
    BY <1>1, <1>2, <1>7, <2>1, <2>2
    DEF LedgerMatchesState, Phase, Promise!vars, Promise!Next, Promise!Fail
<1> QED
  BY <1>1, <1>4, <1>5, <1>6, <1>7, PostedEdge

\* Every other operation of the runner leaves the books alone.
LEMMA RunnerStepBooks ==
    ASSUME RunnerTypeOK, LedgerMatchesState, RunnerStep
    PROVE  LedgerMatchesState' /\ [Promise!Next]_(Promise!vars)
<1>1. CASE CreateHotelBooking
  BY <1>1
  DEF CreateHotelBooking, NoItem, LedgerMatchesState, Phase, Promise!Next, Promise!Open
<1>2. ASSUME NEW from \in States, NEW to \in States, NEW patch \in Patches,
             \/ \E penalty \in Penalties : Transition(from, to, patch, penalty)
             \/ Transition(from, to, patch, Null)
      PROVE  LedgerMatchesState' /\ [Promise!Next]_(Promise!vars)
  BY <1>2, TransitionBooks
<1>3. ASSUME item'.state = item.state, balance' = balance
      PROVE  LedgerMatchesState' /\ [Promise!Next]_(Promise!vars)
  BY <1>3 DEF LedgerMatchesState, Phase, Promise!vars
<1>4. ASSUME NEW at, MarkCancellationRequested(at)
      PROVE  item'.state = item.state /\ balance' = balance
  BY <1>4 DEF MarkCancellationRequested, RunnerTypeOK, Items
<1>5. CASE Escalate
  BY <1>3, <1>5 DEF Escalate, RunnerTypeOK, Items, runnerVars
<1>6. ASSUME NEW attempts, NEW at, RecordPollAttempt(attempts, at)
      PROVE  item'.state = item.state /\ balance' = balance
  BY <1>6 DEF RecordPollAttempt, RunnerTypeOK, Items
<1>7. CASE UNCHANGED runnerVars
  BY <1>3, <1>7 DEF runnerVars
<1> QED
  BY <1>1, <1>2, <1>3, <1>4, <1>5, <1>6, <1>7 DEF RunnerStep

\* The ledger says what the state says, in every interleaving: LedgerMatchesState
\* is inductive relative to the types, since only runner steps touch the books
\* (transition and postTransitionEntries, runner.ts and ledger/service.ts).
THEOREM LedgerCorrect == Spec => []LedgerMatchesState
<1>1. Init => LedgerMatchesState
  BY DEF Init, RunnerInit, NoItem, NoLines, Accounts, LedgerMatchesState, Promise!Nothing,
         Promise!Books
<1>2. TypeOK /\ LedgerMatchesState /\ [Next]_vars => LedgerMatchesState'
  <2> SUFFICES ASSUME TypeOK, LedgerMatchesState, [Next]_vars
               PROVE  LedgerMatchesState'
    OBVIOUS
  <2>1. RunnerTypeOK
    BY BoundAssumption DEF TypeOK, RunnerTypeOK
  <2> QED
    BY <2>1, NextIsRunnerStep, RunnerStepBooks
<1> QED
  BY <1>1, <1>2, TypeCorrect, PTL DEF Spec

\* The engine implements the promise it makes to finance: the initial state
\* maps to the initial state, and every step of every process opens, confirms,
\* fails or cancels the booking by the book, or leaves phase and books alone
\* (runner.ts).
THEOREM KeepsPromise == Spec => PromiseKept
<1>1. Init => Promise!Init
  BY DEF Init, RunnerInit, NoItem, NoLines, Accounts, Phase, Promise!Init, Promise!Nothing,
         Promise!Books
<1>2. TypeOK /\ LedgerMatchesState /\ [Next]_vars => [Promise!Next]_(Promise!vars)
  <2> SUFFICES ASSUME TypeOK, LedgerMatchesState, [Next]_vars
               PROVE  [Promise!Next]_(Promise!vars)
    OBVIOUS
  <2>1. RunnerTypeOK
    BY BoundAssumption DEF TypeOK, RunnerTypeOK
  <2> QED
    BY <2>1, NextIsRunnerStep, RunnerStepBooks
<1> QED
  BY <1>1, <1>2, TypeCorrect, LedgerCorrect, PTL DEF Spec, PromiseKept, Promise!Spec

------------------------------------------------------------------------------
(***************************************************************************)
(* Cancellation.  What a handler was told, what a poller loaded and what   *)
(* the supplier knows stay true while the others move the item, because    *)
(* an item that has left the booker only moves forward:                    *)
(* pending_confirmation, confirmed, cancelled.                             *)
(***************************************************************************)
Held == {"pending_confirmation", "confirmed", "cancelled"}

Rank(state) == CASE state = "cancelled" -> 2 [] state = "confirmed" -> 1 [] OTHER -> 0

\* No step takes an item back, nor forgets or replaces a request to cancel it
\* before the cancellation itself.
Forward ==
    /\ item.state \in Held =>
          item'.state \in Held /\ Rank(item.state) <= Rank(item'.state)
    /\ item.cancellationRequestedAt # Null =>
          /\ item'.cancellationRequestedAt # Null
          /\ \/ item'.state = "cancelled"
             \/ item'.cancellationRequestedAt = item.cancellationRequestedAt

\* Until bookHotel acts on the answer the item is its own, and a request that
\* is still on its way belongs to an item that waits for it or was given up.
BookerSettled ==
    /\ item.cancellationRequestedAt # Null => item.state \in Held
    /\ booker.pc \in {"reserved", "calling", "answered"} => item.state = "reserved"
    /\ supplier.booking => item.state \in {"reserved", "failed"}
    /\ booker.pc = "answered" /\ booker.answer # "error" => ~supplier.booking
    /\ booker.pc = "answered" /\ booker.answer = "confirmed" => supplier.status = "confirmed"

\* Every conflict a settlement meets is a step forward of the item.
CancelSettled(c) ==
    /\ cancels[c].pc # "idle" => item.state \in Held
    /\ cancels[c].pc = "told_cancelled" => item.state = "cancelled"
    /\ cancels[c].pc = "told_pending" =>
          item.state = "cancelled" \/ item.cancellationRequestedAt # Null
    /\ cancels[c].tries <= 2
    /\ cancels[c].pc \in {"idle", "calling"} => cancels[c].tries = 0
    /\ cancels[c].pc = "settling" => cancels[c].tries <= Rank(item.state)
    /\ cancels[c].pc = "transitioning" =>
          /\ cancels[c].from \in {"pending_confirmation", "confirmed"}
          /\ cancels[c].tries <= Rank(cancels[c].from)
          /\ Rank(cancels[c].from) <= Rank(item.state)

\* What a poller loaded was due; the request to cancel that it knows is the
\* item's, unless the item has been cancelled since.
PollSettled(w) ==
    /\ polls[w].pc # "idle" =>
          /\ \/ polls[w].snap.state \in {"quoted", "reserved", "pending_confirmation"}
             \/ /\ polls[w].snap.state = "confirmed"
                /\ polls[w].snap.cancellationRequestedAt # Null
          /\ polls[w].snap.state \in Held => item.state \in Held
          /\ polls[w].snap.cancellationRequestedAt # Null =>
                \/ item.state = "cancelled"
                \/ item.cancellationRequestedAt = polls[w].snap.cancellationRequestedAt
    /\ polls[w].pc = "reported" => polls[w].snap.state \in Held

\* Some poller has heard that the reservation is confirmed.
ToldConfirmed == \E w \in Workers : polls[w].pc = "reported" /\ polls[w].report = "confirmed"

Responsible == {"settling", "transitioning", "deferring", "marking", "error"}

Owned ==
    \/ item.state = "cancelled"
    \/ item.cancellationRequestedAt # Null
    \/ \E c \in Cancellers : cancels[c].pc \in Responsible

\* A cancellation at the supplier came from a handler, or was no news.
SupplierSettled ==
    /\ item.state = "confirmed" \/ ToldConfirmed => supplier.status \in {"confirmed", "cancelled"}
    /\ supplier.cancelling => item.state \in Held /\ Owned
    /\ supplier.status = "cancelled" /\ (item.state = "confirmed" \/ ToldConfirmed) => Owned

Settled ==
    /\ BookerSettled
    /\ \A c \in Cancellers : CancelSettled(c)
    /\ \A w \in Workers : PollSettled(w)
    /\ SupplierSettled

------------------------------------------------------------------------------
\* A late step moves an item forward, and only one that waits or is confirmed.
LEMMA LateStepItem ==
    ASSUME RunnerTypeOK, LateStep
    PROVE  /\ Forward
           /\ item.state \notin {"pending_confirmation", "confirmed"} => item'.state = item.state
           /\ item'.cancellationRequestedAt # Null =>
                 item.cancellationRequestedAt # Null \/ item.state \in Held
<1>1. ASSUME NEW from \in {"pending_confirmation", "confirmed"},
             NEW to \in {"confirmed", "cancelled"}, NEW patch \in Patches, NEW penalty,
             to = "confirmed" => patch.cancellationRequestedAt = Null,
             Transition(from, to, patch, penalty)
      PROVE  /\ Forward
             /\ item.state \in {"pending_confirmation", "confirmed"}
  <2>1. item.state = from /\ <<from, to>> \in PostedEdges
    BY <1>1 DEF Transition
  <2>2. from = "confirmed" => to = "cancelled"
    BY <2>1, PostedEdge
  <2>3. item'.state = to
    BY <1>1 DEF Transition, AfterTransition, RunnerTypeOK, Items
  <2>4. item'.cancellationRequestedAt =
          OrElse(patch.cancellationRequestedAt, item.cancellationRequestedAt)
    BY <1>1 DEF Transition, AfterTransition, RunnerTypeOK, Items
  <2> QED
    BY <1>1, <2>1, <2>2, <2>3, <2>4 DEF Forward, Held, Rank, OrElse
<1>2. ASSUME item'.state = item.state,
             \/ item'.cancellationRequestedAt = item.cancellationRequestedAt
             \/ AwaitsNoCancellation
      PROVE  /\ Forward
             /\ \/ item'.cancellationRequestedAt = item.cancellationRequestedAt
                \/ item.state \in Held
  BY <1>2 DEF Forward, Held, Rank, AwaitsNoCancellation
<1>3. ASSUME NEW at \in Moment \ {Null}, MarkCancellationRequested(at)
      PROVE  item'.state = item.state /\ AwaitsNoCancellation
  BY <1>3 DEF MarkCancellationRequested, AwaitsNoCancellation, RunnerTypeOK, Items
<1>4. CASE Escalate
  <2>1. /\ item'.state = item.state
        /\ item'.cancellationRequestedAt = item.cancellationRequestedAt
    BY <1>4 DEF Escalate, runnerVars, RunnerTypeOK, Items
  <2> QED
    BY <1>2, <2>1
<1>5. ASSUME NEW attempts \in Nat, NEW at \in Nat, RecordPollAttempt(attempts, at)
      PROVE  /\ item'.state = item.state
             /\ item'.cancellationRequestedAt = item.cancellationRequestedAt
  BY <1>5 DEF RecordPollAttempt, RunnerTypeOK, Items
<1>6. CASE UNCHANGED runnerVars
  BY <1>2, <1>6 DEF runnerVars
<1> QED
  BY <1>1, <1>2, <1>3, <1>4, <1>5, <1>6 DEF LateStep, Held

\* bookHotel never touches an item it has let go.
LEMMA BookItem ==
    ASSUME TypeOK, BookerSettled, Book
    PROVE  /\ item.state \in Held => item' = item
           /\ item.cancellationRequestedAt = Null => item'.cancellationRequestedAt = Null
<1>1. ASSUME NEW from \in {"quoted", "reserved"}, NEW to, NEW patch, NEW penalty,
             Transition(from, to, patch, penalty)
      PROVE  /\ item.state \notin Held
             /\ patch.cancellationRequestedAt = Null =>
                   item'.cancellationRequestedAt = item.cancellationRequestedAt
  BY <1>1 DEF Transition, AfterTransition, OrElse, Held, TypeOK, Items
<1>2. CASE BookCreate
  <2>1. item.state = "absent" /\ item'.cancellationRequestedAt = Null
    BY <1>2 DEF BookCreate, CreateHotelBooking, NoItem
  <2> QED
    BY <2>1 DEF Held
<1>3. CASE BookReserve
  BY <1>1, <1>3, NoPatchIsPatch DEF BookReserve
<1>4. CASE BookSettle
  <2>1. booker.answer \in {"confirmed", "pending", "cancelled", "error"}
    BY <1>4 DEF BookSettle, TypeOK, Bookers, Statuses
  <2>2. /\ PendingPatch.cancellationRequestedAt = Null
        /\ ReferencePatch.cancellationRequestedAt = Null
    BY DEF PendingPatch, ReferencePatch, NoPatch
  <2> QED
    BY <1>1, <1>4, <2>1, <2>2, NoPatchIsPatch DEF BookSettle
<1> QED
  BY <1>2, <1>3, <1>4
  DEF Book, BookWithoutAdapter, BookCall, BookTimeout, BookCrash, runnerVars

\* Every step moves the item forward, if at all; and only bookHotel touches one
\* that neither waits nor is confirmed.
LEMMA StepForward ==
    ASSUME TypeOK, BookerSettled, [Next]_vars
    PROVE  /\ Forward
           /\ item'.cancellationRequestedAt # Null => item'.state \in Held
           /\ ~Book /\ item.state \notin {"pending_confirmation", "confirmed"} =>
                 item'.state = item.state
<1>1. RunnerTypeOK
  BY BoundAssumption DEF TypeOK, RunnerTypeOK
<1>2. CASE LateStep
  BY <1>1, <1>2, LateStepItem DEF Forward, BookerSettled
<1>3. CASE Book
  <2>1. Forward
    BY <1>3, BookItem DEF Forward, BookerSettled, Held, Rank
  <2>2. item'.cancellationRequestedAt # Null => item'.state \in Held
    BY <1>3, BookItem DEF BookerSettled
  <2> QED
    BY <1>3, <2>1, <2>2
<1>4. CASE UNCHANGED runnerVars
  BY <1>2, <1>4 DEF LateStep
<1> QED
  BY <1>2, <1>3, <1>4, CancelIsLateStep, PollIsLateStep, VoucherIsLateStep
  DEF Next, vars, runnerVars, Tick, Supplier, SupplierBooks, SupplierDecides,
      SupplierSettlesCancel

\* What a handler knows survives every step of the others.
LEMMA CancelKept ==
    ASSUME TypeOK, Forward, NEW c \in Cancellers, CancelSettled(c), cancels'[c] = cancels[c]
    PROVE  CancelSettled(c)'
<1>1. cancels[c].tries \in Nat
  BY DEF TypeOK, CancelStates
<1>2. \A state : Rank(state) \in 0..2 /\ (Rank(state) = 2 <=> state = "cancelled")
  BY DEF Rank
<1>3. /\ item.state \in Held => item'.state \in Held /\ Rank(item.state) <= Rank(item'.state)
      /\ item.state = "cancelled" => item'.state = "cancelled"
  BY <1>2 DEF Forward, Held
<1>4. Rank(item.state) \in Nat /\ Rank(item'.state) \in Nat /\ Rank(cancels[c].from) \in Nat
  BY <1>2
<1> QED
  BY <1>1, <1>3, <1>4 DEF CancelSettled, Forward

\* So does what a poller knows.
LEMMA PollKept ==
    ASSUME TypeOK, Forward, NEW w \in Workers, PollSettled(w), polls'[w] = polls[w]
    PROVE  PollSettled(w)'
<1>1. item.state = "cancelled" => item'.state = "cancelled"
  BY DEF Forward, Held, Rank
<1> QED
  BY <1>1 DEF PollSettled, Forward

\* And a cancellation that somebody answers for stays so while the handlers do
\* not change hands.
LEMMA OwnedKept ==
    ASSUME Forward, Owned,
           \A c \in Cancellers : cancels[c].pc \in Responsible => cancels'[c].pc \in Responsible
    PROVE  Owned'
<1>1. item.state = "cancelled" => item'.state = "cancelled"
  BY DEF Forward, Held, Rank
<1> QED
  BY <1>1 DEF Owned, Forward

------------------------------------------------------------------------------
\* The supplier books, decides and settles in its own time.
LEMMA SupplierKeepsSettled ==
    ASSUME TypeOK, Settled, Supplier
    PROVE  Settled'
<1>1. /\ supplier \in Suppliers /\ booker \in Bookers
      /\ item' = item /\ cancels' = cancels /\ polls' = polls
  BY DEF TypeOK, Supplier, SupplierBooks, SupplierDecides, SupplierSettlesCancel, runnerVars
<1>2. Forward
  BY <1>1 DEF Forward, Rank
<1>3. /\ \A c \in Cancellers : CancelSettled(c)'
      /\ \A w \in Workers : PollSettled(w)'
  BY <1>1, <1>2, CancelKept, PollKept DEF Settled
<1>4. (Owned' <=> Owned) /\ (ToldConfirmed' <=> ToldConfirmed)
  BY <1>1 DEF Owned, ToldConfirmed
<1>5. ToldConfirmed => item.state \in Held
  BY DEF ToldConfirmed, Settled, PollSettled
<1>6. CASE SupplierBooks
  <2>1. item.state \in {"reserved", "failed"} /\ ~ToldConfirmed /\ ~supplier.cancelling
    BY <1>5, <1>6 DEF SupplierBooks, Settled, BookerSettled, SupplierSettled, Held
  <2>2. PICK status \in Statuses \union {"none"} :
            /\ supplier' = [supplier EXCEPT !.status = status, !.booking = FALSE]
            /\ booker' \in
                 IF booker.pc = "calling"
                 THEN {[pc |-> "answered", answer |-> answer] :
                           answer \in IF status = "none" THEN {"error"} ELSE {status, "error"}}
                 ELSE {booker}
    BY <1>6 DEF SupplierBooks
  <2>3. supplier'.status = status /\ ~supplier'.booking /\ ~supplier'.cancelling
    BY <1>1, <2>1, <2>2 DEF Suppliers
  <2>4. CASE booker.pc = "calling"
    <3>1. booker'.pc = "answered" /\ booker'.answer \in {status, "error"}
      BY <2>2, <2>4
    <3>2. item.state = "reserved"
      BY <2>4 DEF Settled, BookerSettled
    <3>3. BookerSettled'
      BY <1>1, <2>3, <3>1, <3>2 DEF BookerSettled, Settled
    <3> QED
      BY <1>1, <1>3, <1>4, <2>1, <2>3, <3>3 DEF Settled, SupplierSettled
  <2>5. CASE booker.pc # "calling"
    <3>1. booker' = booker
      BY <2>2, <2>5
    <3>2. ~(booker.pc = "answered" /\ booker.answer # "error")
      BY <1>6 DEF SupplierBooks, Settled, BookerSettled
    <3>3. BookerSettled'
      BY <1>1, <2>3, <3>1, <3>2 DEF BookerSettled, Settled
    <3> QED
      BY <1>1, <1>3, <1>4, <2>1, <2>3, <3>3 DEF Settled, SupplierSettled
  <2> QED
    BY <2>4, <2>5
<1>7. CASE SupplierDecides
  <2>1. PICK status \in {"confirmed", "cancelled"} :
            supplier' = [supplier EXCEPT !.status = status,
                                         !.cancelling = @ /\ status = "confirmed"]
    BY <1>7 DEF SupplierDecides
  <2>2. /\ supplier'.status = status /\ supplier'.booking = supplier.booking
        /\ supplier'.cancelling => supplier.cancelling
    BY <1>1, <2>1 DEF Suppliers
  <2>3. supplier.status = "pending" /\ booker' = booker
    BY <1>7 DEF SupplierDecides
  <2>4. item.state # "confirmed" /\ ~ToldConfirmed
    BY <2>3 DEF Settled, SupplierSettled
  <2> QED
    BY <1>1, <1>3, <1>4, <2>2, <2>3, <2>4 DEF Settled, SupplierSettled, BookerSettled
<1>8. CASE SupplierSettlesCancel
  <2>1. /\ supplier.cancelling /\ booker' = booker
        /\ supplier'.status = "cancelled" /\ ~supplier'.cancelling
        /\ supplier'.booking = supplier.booking
    BY <1>1, <1>8 DEF SupplierSettlesCancel, Suppliers
  <2>2. Owned /\ item.state \in Held
    BY <2>1 DEF Settled, SupplierSettled
  <2>3. BookerSettled'
    BY <1>1, <2>1, <2>2 DEF Settled, BookerSettled, Held
  <2> QED
    BY <1>1, <1>3, <1>4, <2>1, <2>2, <2>3 DEF Settled, SupplierSettled
<1> QED
  BY <1>6, <1>7, <1>8 DEF Supplier

\* bookHotel keeps its item to itself until the supplier's answer is acted on.
LEMMA BookKeepsSettled ==
    ASSUME TypeOK, Settled, Book
    PROVE  Settled'
<1>1. /\ supplier \in Suppliers /\ booker \in Bookers /\ item \in Items
      /\ cancels' = cancels /\ polls' = polls
  BY DEF TypeOK, Book, BookCreate, BookReserve, BookWithoutAdapter, BookCall, BookTimeout,
         BookSettle, BookCrash
<1>2. /\ Forward
      /\ item'.cancellationRequestedAt # Null => item'.state \in Held
  BY StepForward DEF Settled, Next
<1>3. /\ \A c \in Cancellers : CancelSettled(c)'
      /\ \A w \in Workers : PollSettled(w)'
  BY <1>1, <1>2, CancelKept, PollKept DEF Settled
<1>4. /\ Owned => Owned'
      /\ ToldConfirmed' <=> ToldConfirmed
  BY <1>1, <1>2, OwnedKept DEF ToldConfirmed
<1>5. ToldConfirmed => item.state \in Held
  BY DEF ToldConfirmed, Settled, PollSettled
<1>6. /\ supplier'.status = supplier.status
      /\ supplier'.cancelling = supplier.cancelling
      /\ supplier'.booking => supplier.booking \/ BookCall
  BY <1>1
  DEF Book, BookCreate, BookReserve, BookWithoutAdapter, BookCall, BookTimeout, BookSettle,
      BookCrash, Suppliers
\* The supplier's part, as long as the item is not confirmed by this step.
<1>7. ASSUME item'.state = "confirmed" => item.state = "confirmed"
      PROVE  SupplierSettled'
  <2>1. item.state \in Held => item'.state \in Held
    BY <1>2 DEF Forward
  <2> QED
    BY <1>4, <1>6, <1>7, <2>1 DEF Settled, SupplierSettled
<1>8. ASSUME NEW from, NEW to, NEW patch, Transition(from, to, patch, Null)
      PROVE  item.state = from /\ item'.state = to
  BY <1>1, <1>8 DEF Transition, AfterTransition, Items
<1>9. CASE BookCreate
  <2>1. item.state = "absent" /\ item'.state = "quoted"
    BY <1>9 DEF BookCreate, CreateHotelBooking, NoItem
  <2>2. booker'.pc = "created" /\ supplier' = supplier
    BY <1>1, <1>9 DEF BookCreate, Bookers
  <2>3. BookerSettled'
    BY <1>2, <2>1, <2>2 DEF Settled, BookerSettled
  <2> QED
    BY <1>3, <1>7, <2>1, <2>3 DEF Settled
<1>10. CASE BookReserve
  <2>1. item.state = "quoted" /\ item'.state = "reserved"
    BY <1>8, <1>10 DEF BookReserve
  <2>2. booker'.pc = "reserved" /\ supplier' = supplier
    BY <1>1, <1>10 DEF BookReserve, Bookers
  <2>3. BookerSettled'
    BY <1>2, <2>1, <2>2 DEF Settled, BookerSettled
  <2> QED
    BY <1>3, <1>7, <2>1, <2>3 DEF Settled
<1>11. CASE BookWithoutAdapter \/ BookCall \/ BookTimeout \/ BookCrash
  <2>1. item' = item
    BY <1>11 DEF BookWithoutAdapter, BookCall, BookTimeout, BookCrash, runnerVars
  <2>2. \/ booker'.pc = "done"
        \/ booker.pc = "reserved" /\ booker'.pc = "calling"
        \/ booker.pc = "calling" /\ booker'.pc = "answered" /\ booker'.answer = "error"
    BY <1>1, <1>11 DEF BookWithoutAdapter, BookCall, BookTimeout, BookCrash, Bookers
  <2>3. supplier'.booking => supplier.booking \/ booker.pc = "reserved"
    BY <1>6 DEF BookCall
  <2>4. BookerSettled'
    BY <1>2, <2>1, <2>2, <2>3 DEF Settled, BookerSettled
  <2> QED
    BY <1>3, <1>7, <2>1, <2>4 DEF Settled
<1>12. CASE BookSettle
  <2>1. booker.pc = "answered" /\ booker'.pc = "done" /\ supplier' = supplier
    BY <1>1, <1>12 DEF BookSettle, Bookers
  <2>2. booker.answer \in {"confirmed", "pending", "cancelled", "error"}
    BY <1>1, <1>12 DEF BookSettle, TypeOK, Bookers, Statuses
  <2>3. /\ item.state = "reserved"
        /\ item'.state \in {"confirmed", "pending_confirmation", "failed"}
        /\ item'.state = "confirmed" => booker.answer = "confirmed"
        /\ item'.state # "failed" => booker.answer # "error"
    <3>1. \/ Transition("reserved", "confirmed", ReferencePatch, Null)
             /\ booker.answer = "confirmed"
          \/ Transition("reserved", "pending_confirmation", PendingPatch, Null)
             /\ booker.answer = "pending"
          \/ Transition("reserved", "failed", ReferencePatch, Null)
          \/ Transition("reserved", "failed", NoPatch, Null)
      BY <1>12, <2>2 DEF BookSettle
    <3> QED
      BY <1>8, <3>1
  <2>4. BookerSettled'
    BY <1>2, <2>1, <2>3 DEF Settled, BookerSettled
  <2>5. CASE item'.state = "confirmed"
    <3>1. supplier'.status = "confirmed"
      BY <2>1, <2>3, <2>5 DEF Settled, BookerSettled
    <3>2. ~supplier'.cancelling
      BY <2>1, <2>3 DEF Settled, SupplierSettled, Held
    <3> QED
      BY <1>3, <2>4, <3>1, <3>2 DEF Settled, SupplierSettled
  <2> QED
    BY <1>3, <1>7, <2>4, <2>5 DEF Settled
<1> QED
  BY <1>9, <1>10, <1>11, <1>12 DEF Book

\* A cancelBooking request answers for what it does at the supplier.
LEMMA CancelKeepsSettled ==
    ASSUME TypeOK, Settled, NEW c \in Cancellers, Cancel(c)
    PROVE  Settled'
<1>1. /\ supplier \in Suppliers /\ item \in Items
      /\ cancels \in [Cancellers -> CancelStates]
      /\ cancels[c] \in CancelStates
  BY DEF TypeOK
<1>2. booker' = booker /\ polls' = polls
  BY DEF Cancel, CancelAnswer, CancelCall, SupplierHandlesCancel, CancelReread,
         CancelTransition, CancelConflict, CancelDefer, CancelMark, CancelCrash
<1>3. /\ Forward
      /\ item'.cancellationRequestedAt # Null => item'.state \in Held
      /\ item.state \notin {"pending_confirmation", "confirmed"} => item'.state = item.state
  <2>1. LateStep /\ [Next]_vars /\ RunnerTypeOK
    BY CancelIsLateStep, BoundAssumption DEF Next, TypeOK, RunnerTypeOK
  <2> QED
    BY <2>1, LateStepItem, StepForward DEF Settled
<1>4. \A d \in Cancellers \ {c} : cancels'[d] = cancels[d]
  BY <1>1 DEF Cancel, CancelAnswer, CancelCall, SupplierHandlesCancel, CancelReread,
         CancelTransition, CancelConflict, CancelDefer, CancelMark, CancelCrash
<1>5. \A d \in Cancellers \ {c} : CancelSettled(d)'
  BY <1>3, <1>4, CancelKept DEF Settled
<1>6. \A w \in Workers : PollSettled(w)'
  BY <1>2, <1>3, PollKept DEF Settled
<1>7. ToldConfirmed' <=> ToldConfirmed
  BY <1>2 DEF ToldConfirmed
<1>8. CancelSettled(c)
  BY DEF Settled
<1>9. Rank(item.state) \in 0..2 /\ Rank(item'.state) \in 0..2 /\ cancels[c].tries \in Nat
  BY <1>1 DEF Rank, CancelStates
\* A step within the api leaves the supplier alone and the cancellation owned.
<1>10. ASSUME supplier' = supplier, CancelSettled(c)',
              item'.state = "confirmed" => item.state = "confirmed",
              cancels[c].pc \in Responsible => cancels'[c].pc \in Responsible \/ Owned'
       PROVE  Settled'
  <2>1. BookerSettled'
    BY <1>2, <1>3, <1>10 DEF Settled, BookerSettled, Held
  <2>2. Owned => Owned'
    BY <1>3, <1>4, <1>10, OwnedKept
  <2>3. item.state \in Held => item'.state \in Held
    BY <1>3 DEF Forward
  <2>4. SupplierSettled'
    BY <1>7, <1>10, <2>2, <2>3 DEF Settled, SupplierSettled
  <2> QED
    BY <1>4, <1>5, <1>6, <1>10, <2>1, <2>4 DEF Settled
<1>11. CASE CancelAnswer(c)
  <2>1. /\ item' = item /\ supplier' = supplier
        /\ cancels[c].pc = "idle" /\ cancels'[c].tries = 0
        /\ \/ item.state = "cancelled" /\ cancels'[c].pc = "told_cancelled"
           \/ /\ item.state \in {"confirmed", "pending_confirmation"}
              /\ item.cancellationRequestedAt # Null
              /\ cancels'[c].pc = "told_pending"
    BY <1>1, <1>11, ZenonT(60) DEF CancelAnswer, IdleCancel, runnerVars
  <2>2. CancelSettled(c)'
    BY <2>1 DEF CancelSettled, Held
  <2> QED
    BY <1>10, <2>1, <2>2 DEF Responsible
<1>12. CASE CancelCall(c)
  <2>1. /\ item' = item /\ supplier' = supplier
        /\ cancels[c].pc = "idle" /\ cancels'[c].tries = 0 /\ cancels'[c].pc = "calling"
        /\ item.state \in {"confirmed", "pending_confirmation"}
    BY <1>1, <1>12 DEF CancelCall, IdleCancel, runnerVars, AwaitsNoCancellation
  <2>2. CancelSettled(c)'
    BY <2>1 DEF CancelSettled, Held
  <2> QED
    BY <1>10, <2>1, <2>2 DEF Responsible
<1>13. CASE SupplierHandlesCancel(c)
  <2>1. /\ item' = item /\ cancels[c].pc = "calling"
        /\ cancels'[c].tries = cancels[c].tries
        /\ cancels'[c].pc \in {"error", "deferring", "settling"}
        /\ supplier'.booking = supplier.booking
        /\ supplier'.status \in {supplier.status, "cancelled"}
    <3>1. /\ item' = item /\ cancels[c].pc = "calling"
          /\ \E pc \in {"error", "deferring", "settling"} :
                cancels' = [cancels EXCEPT ![c].pc = pc]
      BY <1>13 DEF SupplierHandlesCancel, runnerVars
    <3>2. \/ supplier' = supplier
          \/ supplier' = [supplier EXCEPT !.cancelling = TRUE]
          \/ supplier' = [supplier EXCEPT !.status = "cancelled", !.cancelling = FALSE]
      BY <1>13 DEF SupplierHandlesCancel
    <3>3. /\ supplier'.booking = supplier.booking
          /\ supplier'.status \in {supplier.status, "cancelled"}
      BY <1>1, <3>2 DEF Suppliers
    <3> QED
      BY <1>1, <3>1, <3>3 DEF CancelStates
  <2>2. item.state \in Held /\ cancels'[c].tries = 0
    BY <1>8, <2>1 DEF CancelSettled
  <2>3. CancelSettled(c)'
    BY <1>9, <2>1, <2>2 DEF CancelSettled
  <2>4. Owned'
    BY <2>1 DEF Owned, Responsible
  <2>5. BookerSettled'
    BY <1>2, <2>1, <2>2 DEF Settled, BookerSettled, Held
  <2>6. SupplierSettled'
    BY <1>7, <2>1, <2>2, <2>4 DEF Settled, SupplierSettled
  <2> QED
    BY <1>4, <1>5, <1>6, <2>3, <2>5, <2>6 DEF Settled
<1>14. CASE CancelReread(c)
  <2>1. /\ item' = item /\ supplier' = supplier /\ cancels[c].pc = "settling"
        /\ cancels'[c].tries = cancels[c].tries
        /\ \/ item.state = "cancelled" /\ cancels'[c].pc = "told_cancelled"
           \/ /\ item.state # "cancelled" /\ cancels'[c].pc = "transitioning"
              /\ cancels'[c].from = item.state
    BY <1>1, <1>14 DEF CancelReread, CancelStates, runnerVars
  <2>2. /\ item.state \in Held /\ cancels[c].tries <= 2
        /\ cancels[c].tries <= Rank(item.state)
    BY <1>8, <2>1 DEF CancelSettled
  <2>3. CancelSettled(c)'
    BY <1>9, <2>1, <2>2 DEF CancelSettled, Held
  <2>4. cancels'[c].pc \in Responsible \/ Owned'
    BY <2>1 DEF Owned, Responsible
  <2> QED
    BY <1>10, <2>1, <2>3, <2>4
<1>15. CASE CancelTransition(c)
  <2>1. /\ supplier' = supplier /\ cancels[c].pc = "transitioning"
        /\ cancels'[c].tries = cancels[c].tries /\ cancels'[c].pc = "told_cancelled"
        /\ item'.state = "cancelled"
    BY <1>1, <1>15 DEF CancelTransition, CancelStates, Transition, AfterTransition, Items
  <2>2. CancelSettled(c)'
    BY <1>8, <2>1 DEF CancelSettled, Held
  <2> QED
    BY <1>10, <2>1, <2>2 DEF Owned
<1>16. CASE CancelConflict(c)
  <2>1. /\ item' = item /\ supplier' = supplier /\ cancels[c].pc = "transitioning"
        /\ cancels'[c].tries = cancels[c].tries + 1 /\ cancels'[c].pc = "settling"
        /\ item.state # cancels[c].from
    BY <1>1, <1>16 DEF CancelConflict, TransitionConflicts, CancelStates, runnerVars
  <2>2. /\ item.state \in Held /\ cancels[c].from \in {"pending_confirmation", "confirmed"}
        /\ cancels[c].tries <= Rank(cancels[c].from)
        /\ Rank(cancels[c].from) <= Rank(item.state)
    BY <1>8, <2>1 DEF CancelSettled
  <2>3. cancels'[c].tries <= Rank(item.state)
    BY <1>9, <2>1, <2>2 DEF Rank, Held
  <2>4. CancelSettled(c)'
    BY <1>9, <2>1, <2>2, <2>3 DEF CancelSettled
  <2> QED
    BY <1>10, <2>1, <2>4 DEF Responsible
<1>17. CASE CancelDefer(c)
  <2>1. /\ item' = item /\ supplier' = supplier /\ cancels[c].pc = "deferring"
        /\ cancels'[c].tries = cancels[c].tries
        /\ \/ item.state = "cancelled" /\ cancels'[c].pc = "told_cancelled"
           \/ cancels'[c].pc = "marking"
           \/ /\ item.state # "cancelled" /\ ~AwaitsNoCancellation
              /\ cancels'[c].pc = "told_pending"
    BY <1>1, <1>17 DEF CancelDefer, CancelStates, runnerVars, AwaitsNoCancellation
  <2>2. item.state \in Held /\ cancels[c].tries <= 2
    BY <1>8, <2>1 DEF CancelSettled
  <2>3. \/ item.state = "cancelled" \/ item.cancellationRequestedAt # Null
        \/ cancels'[c].pc = "marking"
    BY <2>1, <2>2 DEF AwaitsNoCancellation, Held
  <2>4. CancelSettled(c)'
    BY <2>1, <2>2, <2>3 DEF CancelSettled
  <2>5. cancels'[c].pc \in Responsible \/ Owned'
    BY <2>1, <2>3 DEF Owned, Responsible
  <2> QED
    BY <1>10, <2>1, <2>4, <2>5
<1>18. CASE CancelMark(c)
  <2>1. /\ supplier' = supplier /\ cancels[c].pc = "marking"
        /\ cancels'[c].tries = cancels[c].tries /\ cancels'[c].pc = "told_pending"
        /\ cancels[c].at # Null
    BY <1>1, <1>18 DEF CancelMark, CancelStates, TypeOK, AtWork
  <2>2. item.state \in Held /\ cancels[c].tries <= 2
    BY <1>8, <2>1 DEF CancelSettled
  <2>3. /\ item'.state = item.state
        /\ item'.state = "cancelled" \/ item'.cancellationRequestedAt # Null
    BY <1>1, <1>18, <2>1, <2>2
    DEF CancelMark, MarkCancellationRequested, AwaitsNoCancellation, Held, Items, runnerVars
  <2>4. CancelSettled(c)'
    BY <2>1, <2>2, <2>3 DEF CancelSettled
  <2> QED
    BY <1>10, <2>1, <2>3, <2>4 DEF Owned
<1>19. CASE CancelCrash(c)
  <2>1. /\ item' = item /\ supplier' = supplier /\ cancels[c].pc \in AtWork
        /\ cancels'[c].tries = cancels[c].tries /\ cancels'[c].pc = "error"
    BY <1>1, <1>19 DEF CancelCrash, CancelStates, runnerVars
  <2>2. CancelSettled(c)'
    BY <1>8, <2>1 DEF CancelSettled, AtWork
  <2> QED
    BY <1>10, <2>1, <2>2 DEF Responsible
<1> QED
  BY <1>11, <1>12, <1>13, <1>14, <1>15, <1>16, <1>17, <1>18, <1>19 DEF Cancel

\* A poller acts on what it loaded and heard.
LEMMA PollKeepsSettled ==
    ASSUME TypeOK, Settled, NEW w \in Workers, Poll(w)
    PROVE  Settled'
<1>1. /\ item \in Items /\ polls \in [Workers -> Polls] /\ polls[w] \in Polls
      /\ supplier' = supplier /\ booker' = booker /\ cancels' = cancels
  BY DEF TypeOK, Poll, PollStep, PollLoad, PollReservation, PollRetrieve, PollConfirm,
         PollCancelPending, PollCancelConfirmed, PollDefer, PollCrash
<1>2. /\ Forward
      /\ item'.cancellationRequestedAt # Null => item'.state \in Held
      /\ item.state \notin {"pending_confirmation", "confirmed"} => item'.state = item.state
  <2>1. LateStep /\ [Next]_vars /\ RunnerTypeOK
    BY PollIsLateStep, BoundAssumption DEF Next, TypeOK, RunnerTypeOK
  <2> QED
    BY <2>1, LateStepItem, StepForward DEF Settled
<1>3. \A v \in Workers \ {w} : polls'[v] = polls[v]
  BY <1>1 DEF Poll, PollStep, PollLoad, PollReservation, PollRetrieve, PollConfirm,
         PollCancelPending, PollCancelConfirmed, PollDefer, PollCrash
<1>4. \A v \in Workers \ {w} : PollSettled(v)'
  BY <1>2, <1>3, PollKept DEF Settled
<1>5. \A c \in Cancellers : CancelSettled(c)'
  BY <1>1, <1>2, CancelKept DEF Settled
<1>6. BookerSettled'
  BY <1>1, <1>2 DEF Settled, BookerSettled, Held
<1>7. Owned => Owned'
  BY <1>1, <1>2, OwnedKept
<1>8. item.state \in Held => item'.state \in Held
  BY <1>2 DEF Forward
<1>9. PollSettled(w)
  BY DEF Settled
\* A poller that confirms the item has heard so; nobody else hears it.
<1>10. ASSUME PollSettled(w)',
              item'.state = "confirmed" => item.state = "confirmed" \/ ToldConfirmed,
              ToldConfirmed' => ToldConfirmed \/ supplier.status = "confirmed"
       PROVE  Settled'
  <2>1. SupplierSettled'
    BY <1>1, <1>7, <1>8, <1>10 DEF Settled, SupplierSettled
  <2> QED
    BY <1>4, <1>5, <1>6, <1>10, <2>1 DEF Settled
<1>11. CASE PollLoad(w)
  <2>1. item' = item /\ Due /\ polls'[w] = [IdlePoll EXCEPT !.pc = "loaded", !.snap = item]
    BY <1>1, <1>11 DEF PollLoad, runnerVars
  <2>2. polls'[w].pc = "loaded" /\ polls'[w].snap = item
    BY <2>1 DEF IdlePoll
  <2>3. PollSettled(w)'
    BY <2>1, <2>2 DEF PollSettled, Due, WaitDue, ReservationStuck
  <2>4. ToldConfirmed' => ToldConfirmed
    BY <1>3, <2>2 DEF ToldConfirmed
  <2> QED
    BY <1>10, <2>1, <2>3, <2>4
<1>12. CASE PollRetrieve(w)
  <2>1. /\ item' = item /\ polls[w].pc = "loaded"
        /\ WaitKindOf(polls[w].snap) # "reservation"
        /\ polls'[w].pc = "reported" /\ polls'[w].snap = polls[w].snap
        /\ polls'[w].report \in Reports
    <3>1. PICK report \in Reports :
              polls' = [polls EXCEPT ![w].pc = "reported", ![w].report = report]
      BY <1>12 DEF PollRetrieve
    <3>2. item' = item /\ polls[w].pc = "loaded" /\ WaitKindOf(polls[w].snap) # "reservation"
      BY <1>12 DEF PollRetrieve, runnerVars
    <3> QED
      BY <1>1, <3>1, <3>2 DEF Polls
  <2>2. polls[w].snap.state \in {"pending_confirmation", "confirmed"}
    BY <1>9, <2>1 DEF PollSettled, WaitKindOf
  <2>3. PollSettled(w)'
    BY <1>9, <2>1, <2>2 DEF PollSettled, Held
  <2>4. ToldConfirmed' => ToldConfirmed \/ supplier.status = "confirmed"
    BY <1>3, <2>1 DEF ToldConfirmed, Reports
  <2> QED
    BY <1>10, <2>1, <2>3, <2>4
<1>13. CASE polls' = [polls EXCEPT ![w] = IdlePoll]
  <2>1. polls'[w].pc = "idle"
    BY <1>1, <1>13 DEF IdlePoll
  <2>2. PollSettled(w)' /\ (ToldConfirmed' => ToldConfirmed)
    BY <1>3, <2>1 DEF PollSettled, ToldConfirmed
  <2>3. item'.state = "confirmed" => item.state = "confirmed" \/ ToldConfirmed
    <3>1. CASE PollConfirm(w)
      BY <3>1 DEF PollConfirm, Reported, ToldConfirmed
    <3>2. CASE ~PollConfirm(w)
      <4>1. \/ item'.state = item.state
            \/ item'.state = "cancelled"
        BY <1>1, <1>13, <3>2, <2>1
        DEF Poll, PollStep, PollLoad, PollReservation, PollRetrieve, PollCancelPending,
            PollCancelConfirmed, PollDefer, PollCrash, DeferOrEscalate, Escalate,
            RecordPollAttempt, TransitionOrSkip, Transition, AfterTransition, runnerVars, Items
      <4> QED
        BY <4>1
    <3> QED
      BY <3>1, <3>2
  <2> QED
    BY <1>10, <2>2, <2>3
<1> QED
  BY <1>11, <1>12, <1>13
  DEF Poll, PollStep, PollReservation, PollConfirm, PollCancelPending, PollCancelConfirmed,
      PollDefer, PollCrash

\* Time passes, or the voucher delivery takes the item to the manual queue.
LEMMA OthersKeepSettled ==
    ASSUME TypeOK, Settled, Tick \/ VoucherGivesUp \/ UNCHANGED vars
    PROVE  Settled'
<1>1. UNCHANGED <<supplier, booker, cancels, polls>>
  BY DEF Tick, VoucherGivesUp, processVars, vars
<1>2. item'.state = item.state
  BY DEF Tick, VoucherGivesUp, Escalate, runnerVars, vars, TypeOK, Items
<1>3. Forward /\ (item'.cancellationRequestedAt # Null => item'.state \in Held)
  BY StepForward DEF Settled, Next
<1>4. /\ \A c \in Cancellers : CancelSettled(c)'
      /\ \A w \in Workers : PollSettled(w)'
  BY <1>1, <1>3, CancelKept, PollKept DEF Settled
<1>5. BookerSettled'
  BY <1>1, <1>2, <1>3 DEF Settled, BookerSettled
<1>6. (Owned => Owned') /\ (ToldConfirmed' <=> ToldConfirmed)
  BY <1>1, <1>3, OwnedKept DEF ToldConfirmed
<1>7. SupplierSettled'
  BY <1>1, <1>2, <1>6 DEF Settled, SupplierSettled
<1> QED
  BY <1>4, <1>5, <1>7 DEF Settled

\* Settled is the inductive invariant behind the cancellation's promises.
LEMMA AlwaysSettled == Spec => []Settled
<1>1. Init => Settled
  <2> SUFFICES ASSUME Init
               PROVE  Settled
    OBVIOUS
  <2>1. \A c \in Cancellers : cancels[c].pc = "idle" /\ cancels[c].tries = 0
    BY DEF Init, IdleCancel
  <2>2. \A w \in Workers : polls[w].pc = "idle"
    BY DEF Init, IdlePoll
  <2>3. /\ item.state = "absent" /\ item.cancellationRequestedAt = Null /\ booker.pc = "idle"
        /\ ~supplier.booking /\ ~supplier.cancelling /\ supplier.status = "none"
    BY DEF Init, RunnerInit, NoItem
  <2> QED
    BY <2>1, <2>2, <2>3
    DEF Settled, BookerSettled, CancelSettled, PollSettled, SupplierSettled, ToldConfirmed
<1>2. TypeOK /\ Settled /\ [Next]_vars => Settled'
  BY SupplierKeepsSettled, BookKeepsSettled, CancelKeepsSettled, PollKeepsSettled,
     OthersKeepSettled
  DEF Next
<1> QED
  BY <1>1, <1>2, TypeCorrect, PTL DEF Spec

\* No cancelBooking request is answered with something that is not or will not
\* stay so: told "cancelled" the item is cancelled, told "pending" its request
\* is recorded or settled, and the attempts never run out, because every
\* conflict is a step forward of an item that has two to take
\* (settleSupplierCancelled, booking.service.ts).
THEOREM CancelAnswersTrue == Spec => []CancelAnswerIsTrue
<1>1. TypeOK /\ Settled => CancelAnswerIsTrue
  <2> SUFFICES ASSUME TypeOK, Settled, NEW c \in Cancellers
               PROVE  /\ cancels[c].tries < 3
                      /\ cancels[c].pc = "told_cancelled" => item.state = "cancelled"
                      /\ cancels[c].pc = "told_pending" =>
                            item.state = "cancelled" \/ item.cancellationRequestedAt # Null
    BY DEF CancelAnswerIsTrue
  <2>1. CancelSettled(c) /\ cancels[c].tries \in Nat
    BY DEF Settled, TypeOK, CancelStates
  <2> QED
    BY <2>1 DEF CancelSettled
<1> QED
  BY <1>1, TypeCorrect, AlwaysSettled, PTL

\* Revenue never stands for a booking that the supplier has cancelled without a
\* handler, a recorded request or a reported error to account for it
\* (cancelBooking, booking.service.ts).
THEOREM DivergenceOwned == Spec => []DivergenceHasAnOwner
<1>1. Settled => DivergenceHasAnOwner
  BY DEF Settled, SupplierSettled, DivergenceHasAnOwner, Owned, Responsible
<1> QED
  BY <1>1, AlwaysSettled, PTL

\* The books after the cancellation of a confirmed booking.
LEMMA CancelledBooks ==
    ASSUME NEW patch, NEW penalty \in Penalties, LedgerMatchesState,
           Transition("confirmed", "cancelled", patch, penalty)
    PROVE  balance' = Promise!Penalty(penalty)
<1>1. item.state = "confirmed" /\ balance = Promise!Sale /\ penalty \in Int
  BY PenaltiesAreAmounts DEF Transition, LedgerMatchesState
<1> DEFINE amounts == [sell |-> Sell, net |-> Net, penalty |-> penalty]
<1>2. balance' = Plus(balance, Posting(<<"confirmed", "cancelled">>, amounts))
  BY DEF Transition
<1>3. Plus(Promise!Sale, CancelConfirmedLines(amounts)) = Promise!Penalty(penalty)
  BY <1>1, PostingArithmetic
<1> HIDE DEF amounts
<1> QED
  BY <1>1, <1>2, <1>3 DEF Posting, ConfirmEdges, PenaltyEdges

\* However late the supplier settles the cancellation of a confirmed booking, the
\* fee charged is the one in force when it was requested: a handler carries the
\* instant itself, and a poller's copy of it cannot be stale, as a recorded
\* request is replaced only by the cancellation (settleCancellationWait).
THEOREM RequestedPenaltyCharged == Spec => ConfirmedPenaltyIsTheRequested
<1>1. ASSUME TypeOK, Settled, LedgerMatchesState, [Next]_vars,
             item.state = "confirmed", item'.state = "cancelled"
      PROVE  balance' = Promise!Penalty(FeeAt(item'.cancellationRequestedAt))
  <2>1. item \in Items /\ item' # item
    BY <1>1 DEF TypeOK
  <2>2. ~Book
    BY <1>1, <2>1, BookItem DEF Settled, Held
  <2>3. ASSUME NEW c \in Cancellers, Cancel(c)
        PROVE  balance' = Promise!Penalty(FeeAt(item'.cancellationRequestedAt))
    <3>1. CancelTransition(c)
      BY <1>1, <2>1, <2>3
      DEF Cancel, CancelAnswer, CancelCall, SupplierHandlesCancel, CancelReread, CancelConflict,
          TransitionConflicts, CancelDefer, CancelMark, CancelCrash, MarkCancellationRequested,
          runnerVars, Items
    <3>2. cancels[c].at \in 0..MaxTime /\ cancels[c].at # Null
      BY <1>1, <3>1 DEF TypeOK, CancelTransition, AtWork, Moment
    <3> DEFINE patch == [NoPatch EXCEPT !.cancellationRequestedAt = cancels[c].at]
    <3>3. /\ Transition(cancels[c].from, "cancelled", patch, FeeAt(cancels[c].at))
          /\ cancels[c].from = "confirmed"
      BY <1>1, <3>1 DEF CancelTransition, Transition
    <3>4. patch.cancellationRequestedAt = cancels[c].at
      BY DEF NoPatch
    <3> HIDE DEF patch
    <3>5. item'.cancellationRequestedAt = cancels[c].at
      BY <2>1, <3>2, <3>3, <3>4 DEF Transition, AfterTransition, OrElse, Items
    <3> QED
      BY <1>1, <3>2, <3>3, <3>5, FeeIsPenalty, CancelledBooks
  <2>4. ASSUME NEW w \in Workers, Poll(w)
        PROVE  balance' = Promise!Penalty(FeeAt(item'.cancellationRequestedAt))
    <3>1. PollCancelConfirmed(w)
      BY <1>1, <2>1, <2>4
      DEF Poll, PollStep, PollLoad, PollReservation, PollRetrieve, PollConfirm,
          PollCancelPending, PollDefer, PollCrash, DeferOrEscalate, Escalate,
          RecordPollAttempt, TransitionOrSkip, Transition, runnerVars, Items
    <3> DEFINE at == polls[w].snap.cancellationRequestedAt
    <3>2. polls[w].pc = "reported" /\ WaitKindOf(polls[w].snap) = "cancellation"
      BY <3>1 DEF PollCancelConfirmed, Reported
    <3>3. at # Null /\ item.cancellationRequestedAt = at
      BY <1>1, <3>2 DEF Settled, PollSettled, WaitKindOf
    <3>4. FeeAt(at) \in Penalties
      BY <1>1, <3>3, FeeIsPenalty DEF TypeOK, Moment
    <3>5. Transition("confirmed", "cancelled", NoPatch, FeeAt(at))
      BY <1>1, <3>1, <3>3 DEF PollCancelConfirmed, TransitionOrSkip, OrElse
    <3>6. item'.cancellationRequestedAt = at
      BY <2>1, <3>3, <3>5, NoPatchIsPatch DEF Transition, AfterTransition, OrElse, Items
    <3> HIDE DEF at
    <3> QED
      BY <1>1, <3>4, <3>5, <3>6, CancelledBooks
  <2> QED
    BY <1>1, <2>1, <2>2, <2>3, <2>4
    DEF Next, Tick, Supplier, SupplierBooks, SupplierDecides, SupplierSettlesCancel,
        VoucherGivesUp, Escalate, runnerVars, vars, Items
<1>2. TypeOK /\ Settled /\ LedgerMatchesState /\ [Next]_vars =>
        [item.state = "confirmed" /\ item'.state = "cancelled" =>
            balance' = Promise!Penalty(FeeAt(item'.cancellationRequestedAt))]_vars
  BY <1>1
<1> QED
  BY <1>2, TypeCorrect, AlwaysSettled, LedgerCorrect, PTL DEF Spec, ConfirmedPenaltyIsTheRequested

==============================================================================
