--------------------------- MODULE BookingLifecycle ---------------------------
(***************************************************************************)
(* One hotel booking from creation to settlement, and the processes that   *)
(* move it through the runner:                                             *)
(*   - the api's bookHotel handler (booker),                               *)
(*   - the api's cancelBooking handlers (Cancellers), one per request,     *)
(*   - the pollers of the worker processes (Workers),                      *)
(*   - the voucher delivery, which may escalate a confirmed item,          *)
(*   - the supplier (external), which decides a pending booking and        *)
(*     settles an accepted cancellation whenever it likes.                 *)
(* A handler is cut where the code awaits: every database transaction and  *)
(* every supplier hop is a step, and what a process read before an await   *)
(* stays in its local state until it is used.                              *)
(***************************************************************************)
EXTENDS BookingRunner

CONSTANTS
    Cancellers,     \* concurrent cancelBooking requests
    Workers,        \* worker processes running the pending sweep
    Rules,          \* the item's policy snapshot
    BaseDelay, Factor, DelayCap, MaxPendingAge,  \* PendingBackoffPolicy
    MaxTime,        \* bound: the clock stops here
    ApiHorizon,     \* bound: api handlers take no step after this instant
    MaxCrashes      \* bound: process crashes in one behaviour

ASSUME BackoffAssumption ==
    /\ BaseDelay \in Nat /\ DelayCap \in Nat /\ MaxPendingAge \in Nat
ASSUME BoundAssumption ==
    /\ MaxTime \in Nat /\ ApiHorizon \in Nat /\ MaxCrashes \in Nat
ASSUME PolicyAssumption ==
    /\ Rules \in Seq(Rule)
    /\ ValidPolicy(Rules)

VARIABLES
    supplier,   \* the reservation at the supplier, and the call in flight
    booker,     \* the bookHotel handler
    cancels,    \* the cancelBooking handlers
    polls,      \* the pollers: what each loaded and was told
    crashes     \* crashes so far

processVars == <<supplier, booker, cancels, polls, crashes>>
vars == <<now, item, balance, events, supplier, booker, cancels, polls, crashes>>

Statuses == {"confirmed", "pending", "cancelled"}

\* The fee in force at an instant, from the stored policy.
FeeAt(at) == PenaltyFor(Rules, at)

------------------------------------------------------------------------------
(***************************************************************************)
(* Shape of the local states.                                              *)
(***************************************************************************)
Suppliers ==
    [status     : Statuses \union {"none"},
     cancelling : BOOLEAN,      \* a cancellation accepted and not settled
     booking    : BOOLEAN]      \* a book request travels to the supplier

Bookers ==
    [pc     : {"idle", "created", "reserved", "calling", "answered", "done"},
     answer : Statuses \union {"none", "error"}]

\* `at` is the instant of the request, whose fee was previewed; `from` is
\* the state a settlement attempt read, `tries` the conflicts it has met.
CancelStates ==
    [pc    : {"idle", "calling", "settling", "transitioning", "deferring", "marking",
              "told_cancelled", "told_pending", "error"},
     at    : Instant,
     from  : States,
     tries : Nat]

Polls ==
    [pc     : {"idle", "loaded", "reported"},
     snap   : Items,
     report : Statuses \union {"none", "error"}]

IdleCancel == [pc |-> "idle", at |-> Null, from |-> "absent", tries |-> 0]
IdlePoll == [pc |-> "idle", snap |-> NoItem, report |-> "none"]

\* An instant of the run, or none.
Moment == (0..MaxTime) \union {Null}

AtWork == {"calling", "settling", "transitioning", "deferring", "marking"}

TypeOK ==
    /\ now \in 0..MaxTime
    /\ item \in Items
    /\ item.cancellationRequestedAt \in Moment
    /\ balance \in [Accounts -> Int]
    /\ events \in Seq(EventTypes)
    /\ supplier \in Suppliers
    /\ booker \in Bookers
    /\ booker.pc = "answered" => booker.answer # "none"
    /\ cancels \in [Cancellers -> CancelStates]
    /\ \A c \in Cancellers :
          /\ cancels[c].at \in Moment
          /\ cancels[c].pc \in AtWork => cancels[c].at # Null
    /\ polls \in [Workers -> Polls]
    /\ \A w \in Workers : polls[w].snap.cancellationRequestedAt \in Moment
    /\ crashes \in Nat

Init ==
    /\ now = 0
    /\ RunnerInit
    /\ supplier = [status |-> "none", cancelling |-> FALSE, booking |-> FALSE]
    /\ booker = [pc |-> "idle", answer |-> "none"]
    /\ cancels = [c \in Cancellers |-> IdleCancel]
    /\ polls = [w \in Workers |-> IdlePoll]
    /\ crashes = 0

ApiRuns == now <= ApiHorizon

------------------------------------------------------------------------------
(***************************************************************************)
(* External: the clock and the supplier.                                   *)
(***************************************************************************)
\* Nothing depends on the time before the booking: the clock starts with it.
Tick ==
    /\ now < MaxTime
    /\ booker.pc # "idle"
    /\ now' = now + 1
    /\ UNCHANGED <<runnerVars, processVars>>

\* The book request arrives: the supplier opens a reservation or refuses.
\* The handler, if it still waits, gets the answer or loses it.
SupplierBooks ==
    /\ supplier.booking
    /\ \E status \in Statuses \union {"none"} :
         /\ supplier' = [supplier EXCEPT !.status = status, !.booking = FALSE]
         /\ booker' \in
              IF booker.pc = "calling"
              THEN {[pc |-> "answered", answer |-> answer] :
                        answer \in IF status = "none" THEN {"error"} ELSE {status, "error"}}
              ELSE {booker}
    /\ UNCHANGED <<now, runnerVars, cancels, polls, crashes>>

\* A pending reservation is confirmed or refused; an accepted cancellation
\* takes effect.  Both happen in the supplier's own time, or never.
SupplierDecides ==
    /\ supplier.status = "pending"
    /\ \E status \in {"confirmed", "cancelled"} :
         supplier' = [supplier EXCEPT
                         !.status = status,
                         !.cancelling = @ /\ status = "confirmed"]
    /\ UNCHANGED <<now, runnerVars, booker, cancels, polls, crashes>>

SupplierSettlesCancel ==
    /\ supplier.cancelling
    /\ supplier' = [supplier EXCEPT !.status = "cancelled", !.cancelling = FALSE]
    /\ UNCHANGED <<now, runnerVars, booker, cancels, polls, crashes>>

\* What retrieve() may report: a cancellation in progress reads as pending,
\* or still as the status it will replace.
Reports ==
    {supplier.status, "error"} \union (IF supplier.cancelling THEN {"pending"} ELSE {})

------------------------------------------------------------------------------
(***************************************************************************)
(* bookHotel.  The offer gate and the client-reference replay come before  *)
(* the first step and are not part of this module.                         *)
(***************************************************************************)
BookCreate ==
    /\ ApiRuns
    /\ booker.pc = "idle"
    /\ CreateHotelBooking
    /\ booker' = [booker EXCEPT !.pc = "created"]
    /\ UNCHANGED <<now, supplier, cancels, polls, crashes>>

BookReserve ==
    /\ ApiRuns
    /\ booker.pc = "created"
    /\ Transition("quoted", "reserved", NoPatch, Null)
    /\ booker' = [booker EXCEPT !.pc = "reserved"]
    /\ UNCHANGED <<now, supplier, cancels, polls, crashes>>

\* hotelAdapterFor throws outside the try: the handler ends, the item stays.
BookWithoutAdapter ==
    /\ ApiRuns
    /\ booker.pc = "reserved"
    /\ booker' = [booker EXCEPT !.pc = "done"]
    /\ UNCHANGED <<now, runnerVars, supplier, cancels, polls, crashes>>

BookCall ==
    /\ ApiRuns
    /\ booker.pc = "reserved"
    /\ supplier' = [supplier EXCEPT !.booking = TRUE]
    /\ booker' = [booker EXCEPT !.pc = "calling"]
    /\ UNCHANGED <<now, runnerVars, cancels, polls, crashes>>

\* The supplier deadline passes first; the request is not recalled.
BookTimeout ==
    /\ ApiRuns
    /\ booker.pc = "calling"
    /\ booker' = [pc |-> "answered", answer |-> "error"]
    /\ UNCHANGED <<now, runnerVars, supplier, cancels, polls, crashes>>

\* What the handler stores with the supplier's answer: the reference, and the
\* wait that a pending answer begins.
PendingPatch ==
    [NoPatch EXCEPT !.supplierReference = TRUE,
                    !.pendingSince = now,
                    !.nextPollAt = now + BaseDelay]

ReferencePatch == [NoPatch EXCEPT !.supplierReference = TRUE]

\* The answer is acted on: confirmed, pending, voided by the supplier, or
\* failed (failAfterReserve, which knows no supplier reference).
BookSettle ==
    /\ ApiRuns
    /\ booker.pc = "answered"
    /\ CASE booker.answer = "confirmed" ->
              Transition("reserved", "confirmed", ReferencePatch, Null)
         [] booker.answer = "pending" ->
              Transition("reserved", "pending_confirmation", PendingPatch, Null)
         [] booker.answer = "cancelled" ->
              Transition("reserved", "failed", ReferencePatch, Null)
         [] booker.answer = "error" ->
              Transition("reserved", "failed", NoPatch, Null)
    /\ booker' = [booker EXCEPT !.pc = "done"]
    /\ UNCHANGED <<now, supplier, cancels, polls, crashes>>

BookCrash ==
    /\ booker.pc \notin {"idle", "done"}
    /\ crashes < MaxCrashes
    /\ crashes' = crashes + 1
    /\ booker' = [booker EXCEPT !.pc = "done"]
    /\ UNCHANGED <<now, runnerVars, supplier, cancels, polls>>

------------------------------------------------------------------------------
(***************************************************************************)
(* cancelBooking.                                                          *)
(***************************************************************************)
\* Requests answered from the loaded row alone: a booking already cancelled,
\* or one whose cancellation is already in flight.
CancelAnswer(c) ==
    /\ ApiRuns
    /\ cancels[c].pc = "idle"
    /\ \/ /\ item.state = "cancelled"
          /\ cancels' = [cancels EXCEPT ![c] =
                [IdleCancel EXCEPT !.pc = "told_cancelled",
                                   !.at = OrElse(item.cancellationRequestedAt, now)]]
       \/ /\ item.state \in {"confirmed", "pending_confirmation"}
          /\ item.supplierReference
          /\ item.cancellationRequestedAt # Null
          /\ cancels' = [cancels EXCEPT ![c] =
                [IdleCancel EXCEPT !.pc = "told_pending",
                                   !.at = item.cancellationRequestedAt]]
    /\ UNCHANGED <<now, runnerVars, supplier, booker, polls, crashes>>

\* Otherwise the fee of this instant is previewed and the supplier called.
CancelCall(c) ==
    /\ ApiRuns
    /\ cancels[c].pc = "idle"
    /\ AwaitsNoCancellation
    /\ item.supplierReference
    /\ cancels' = [cancels EXCEPT ![c] =
          [IdleCancel EXCEPT !.pc = "calling", !.at = now]]
    /\ UNCHANGED <<now, runnerVars, supplier, booker, polls, crashes>>

\* The supplier refuses, accepts to settle later, or cancels at once; the
\* answer to the last two may be lost (the handler then throws).
SupplierHandlesCancel(c) ==
    /\ cancels[c].pc = "calling"
    /\ \/ /\ UNCHANGED supplier
          /\ cancels' = [cancels EXCEPT ![c].pc = "error"]
       \/ /\ supplier.status \in {"pending", "confirmed"}
          /\ supplier' = [supplier EXCEPT !.cancelling = TRUE]
          /\ \E pc \in {"deferring", "error"} : cancels' = [cancels EXCEPT ![c].pc = pc]
       \/ /\ supplier' = [supplier EXCEPT !.status = "cancelled", !.cancelling = FALSE]
          /\ \E pc \in {"settling", "error"} : cancels' = [cancels EXCEPT ![c].pc = pc]
    /\ UNCHANGED <<now, runnerVars, booker, polls, crashes>>

\* settleSupplierCancelled: read the fresh state ...
CancelReread(c) ==
    /\ ApiRuns
    /\ cancels[c].pc = "settling"
    /\ cancels' = [cancels EXCEPT ![c] =
          IF item.state = "cancelled"
          THEN [@ EXCEPT !.pc = "told_cancelled"]
          ELSE [@ EXCEPT !.pc = "transitioning", !.from = item.state]]
    /\ UNCHANGED <<now, runnerVars, supplier, booker, polls, crashes>>

\* ... and transition from it; on a conflict try again.
CancelTransition(c) ==
    /\ ApiRuns
    /\ cancels[c].pc = "transitioning"
    /\ Transition(cancels[c].from, "cancelled",
                  [NoPatch EXCEPT !.cancellationRequestedAt = cancels[c].at],
                  FeeAt(cancels[c].at))
    /\ cancels' = [cancels EXCEPT ![c].pc = "told_cancelled"]
    /\ UNCHANGED <<now, supplier, booker, polls, crashes>>

\* Taking the conflict for a settlement by somebody else.
CancelConflictTrusted(c) ==
    /\ ApiRuns
    /\ cancels[c].pc = "transitioning"
    /\ TransitionConflicts(cancels[c].from)
    /\ cancels' = [cancels EXCEPT ![c].pc = "told_cancelled"]
    /\ UNCHANGED <<now, supplier, booker, polls, crashes>>

CancelConflict(c) ==
    /\ ApiRuns
    /\ cancels[c].pc = "transitioning"
    /\ TransitionConflicts(cancels[c].from)
    /\ cancels' = [cancels EXCEPT ![c].pc = "settling", ![c].tries = @ + 1]
    /\ UNCHANGED <<now, supplier, booker, polls, crashes>>

\* The asynchronous branch: read the fresh row, then record the intent.
CancelDefer(c) ==
    /\ ApiRuns
    /\ cancels[c].pc = "deferring"
    /\ cancels' = [cancels EXCEPT ![c].pc =
          CASE item.state = "cancelled" -> "told_cancelled"
            [] AwaitsNoCancellation -> "marking"
            [] OTHER -> "told_pending"]
    /\ UNCHANGED <<now, runnerVars, supplier, booker, polls, crashes>>

\* Marking that does not survive a move of the item since it was loaded.
CancelMarkConfirmedOnly(c) ==
    /\ ApiRuns
    /\ cancels[c].pc = "marking"
    /\ IF item.state = "confirmed" /\ item.cancellationRequestedAt = Null
       THEN MarkCancellationRequested(cancels[c].at)
       ELSE UNCHANGED runnerVars
    /\ cancels' = [cancels EXCEPT ![c].pc = "told_pending"]
    /\ UNCHANGED <<now, supplier, booker, polls, crashes>>

\* A conflict is swallowed: somebody else recorded or settled the wait.
CancelMark(c) ==
    /\ ApiRuns
    /\ cancels[c].pc = "marking"
    /\ IF AwaitsNoCancellation
       THEN MarkCancellationRequested(cancels[c].at)
       ELSE UNCHANGED runnerVars
    /\ cancels' = [cancels EXCEPT ![c].pc = "told_pending"]
    /\ UNCHANGED <<now, supplier, booker, polls, crashes>>

CancelCrash(c) ==
    /\ cancels[c].pc \in AtWork
    /\ crashes < MaxCrashes
    /\ crashes' = crashes + 1
    /\ cancels' = [cancels EXCEPT ![c].pc = "error"]
    /\ UNCHANGED <<now, runnerVars, supplier, booker, polls>>

------------------------------------------------------------------------------
(***************************************************************************)
(* The pending-confirmation poller.  Everything it decides after the sweep *)
(* query it decides from the row that query returned.                      *)
(***************************************************************************)
\* duePendingItems.
WaitDue ==
    /\ \/ item.state = "pending_confirmation"
       \/ item.state = "confirmed" /\ item.cancellationRequestedAt # Null
    /\ IF item.nextPollAt = Null THEN TRUE ELSE item.nextPollAt <= now

ReservationStuck ==
    /\ item.state \in {"quoted", "reserved"}
    /\ item.updatedAt + MaxPendingAge <= now

\* Only timed polls are due: a row whose next_poll_at is null is skipped.
DueWithTimer ==
    /\ ~item.escalated
    /\ \/ WaitDue /\ item.nextPollAt # Null
       \/ ReservationStuck

DueWaitsOnly == ~item.escalated /\ WaitDue

Due ==
    /\ ~item.escalated
    /\ WaitDue \/ ReservationStuck

WaitKindOf(row) ==
    CASE row.state \in {"quoted", "reserved"} -> "reservation"
      [] row.state = "pending_confirmation"   -> "confirmation"
      [] OTHER                                -> "cancellation"

WaitStartOf(row) ==
    OrElse(IF WaitKindOf(row) = "confirmation"
           THEN row.pendingSince ELSE row.cancellationRequestedAt,
           row.createdAt)

\* min(cap, base * factor ^ attempts), an integer here as in the code.
BackoffDelay(attempts) ==
    LET delay == BaseDelay * Factor ^ attempts
    IN  IF delay \in 0..DelayCap THEN delay ELSE DelayCap

PollLoad(w) ==
    /\ polls[w].pc = "idle"
    /\ Due
    /\ polls' = [polls EXCEPT ![w] = [IdlePoll EXCEPT !.pc = "loaded", !.snap = item]]
    /\ UNCHANGED <<now, runnerVars, supplier, booker, cancels, crashes>>

\* A stranded quoted or reserved item goes to the manual queue unasked.
PollReservation(w) ==
    /\ polls[w].pc = "loaded"
    /\ WaitKindOf(polls[w].snap) = "reservation"
    /\ Escalate
    /\ polls' = [polls EXCEPT ![w] = IdlePoll]
    /\ UNCHANGED <<now, supplier, booker, cancels, crashes>>

PollRetrieve(w) ==
    /\ polls[w].pc = "loaded"
    /\ WaitKindOf(polls[w].snap) # "reservation"
    /\ \E report \in Reports :
         polls' = [polls EXCEPT ![w].pc = "reported", ![w].report = report]
    /\ UNCHANGED <<now, runnerVars, supplier, booker, cancels, crashes>>

\* A transition the poller asks for; a conflict is benign and skipped.
TransitionOrSkip(from, to, patch, penalty) ==
    IF item.state = from
    THEN Transition(from, to, patch, penalty)
    ELSE UNCHANGED runnerVars

Reported(w, kind, report) ==
    /\ polls[w].pc = "reported"
    /\ WaitKindOf(polls[w].snap) = kind
    /\ polls[w].report = report

\* settleConfirmationWait: a cancellation known to the snapshot re-arms the
\* poll, so that it survives the confirmation.
PollConfirm(w) ==
    /\ Reported(w, "confirmation", "confirmed")
    /\ TransitionOrSkip("pending_confirmation", "confirmed",
          [NoPatch EXCEPT
              !.supplierReference = TRUE,
              !.nextPollAt = IF polls[w].snap.cancellationRequestedAt = Null
                             THEN Null ELSE now],
          Null)
    /\ polls' = [polls EXCEPT ![w] = IdlePoll]
    /\ UNCHANGED <<now, supplier, booker, cancels, crashes>>

\* Nothing is owed for a booking the supplier killed, unless the snapshot
\* says the buyer had asked: then the fee of that instant.
PollCancelPending(w) ==
    /\ Reported(w, "confirmation", "cancelled")
    /\ LET requestedAt == polls[w].snap.cancellationRequestedAt IN
         TransitionOrSkip("pending_confirmation", "cancelled", NoPatch,
             IF requestedAt = Null THEN 0 ELSE FeeAt(requestedAt))
    /\ polls' = [polls EXCEPT ![w] = IdlePoll]
    /\ UNCHANGED <<now, supplier, booker, cancels, crashes>>

\* The fee of the settlement's own instant.
PollCancelConfirmedLate(w) ==
    /\ Reported(w, "cancellation", "cancelled")
    /\ TransitionOrSkip("confirmed", "cancelled", NoPatch, FeeAt(now))
    /\ polls' = [polls EXCEPT ![w] = IdlePoll]
    /\ UNCHANGED <<now, supplier, booker, cancels, crashes>>

\* settleCancellationWait.
PollCancelConfirmed(w) ==
    /\ Reported(w, "cancellation", "cancelled")
    /\ TransitionOrSkip("confirmed", "cancelled", NoPatch,
          FeeAt(OrElse(polls[w].snap.cancellationRequestedAt, now)))
    /\ polls' = [polls EXCEPT ![w] = IdlePoll]
    /\ UNCHANGED <<now, supplier, booker, cancels, crashes>>

\* deferOrEscalate, on the row the sweep loaded.
DeferOrEscalate(row) ==
    IF now - WaitStartOf(row) > MaxPendingAge
    THEN Escalate
    ELSE RecordPollAttempt(row.pollAttempts + 1, now + BackoffDelay(row.pollAttempts))

PollDefer(w) ==
    /\ polls[w].pc = "reported"
    /\ \/ polls[w].report \in {"pending", "error"}
       \/ Reported(w, "cancellation", "confirmed")
    /\ DeferOrEscalate(polls[w].snap)
    /\ polls' = [polls EXCEPT ![w] = IdlePoll]
    /\ UNCHANGED <<now, supplier, booker, cancels, crashes>>

PollCrash(w) ==
    /\ polls[w].pc # "idle"
    /\ crashes < MaxCrashes
    /\ crashes' = crashes + 1
    /\ polls' = [polls EXCEPT ![w] = IdlePoll]
    /\ UNCHANGED <<now, runnerVars, supplier, booker, cancels>>

------------------------------------------------------------------------------
\* Voucher delivery gives up on the item's confirmation: it has no recipient,
\* or its last attempt failed (VoucherDelivery has the sweep).  The escalation
\* does not look at the item, whose state may have moved on.
VoucherGivesUp ==
    /\ \E i \in DOMAIN events : events[i] = "booking_item.confirmed"
    /\ Escalate
    /\ UNCHANGED <<now, processVars>>

------------------------------------------------------------------------------
Supplier == SupplierBooks \/ SupplierDecides \/ SupplierSettlesCancel

Book ==
    \/ BookCreate \/ BookReserve \/ BookWithoutAdapter \/ BookCall
    \/ BookTimeout \/ BookSettle \/ BookCrash

Cancel(c) ==
    \/ CancelAnswer(c) \/ CancelCall(c) \/ SupplierHandlesCancel(c)
    \/ CancelReread(c) \/ CancelTransition(c) \/ CancelConflict(c)
    \/ CancelDefer(c) \/ CancelMark(c) \/ CancelCrash(c)

\* A sweep in progress, without the crash that ends it.
PollStep(w) ==
    \/ PollLoad(w) \/ PollReservation(w) \/ PollRetrieve(w)
    \/ PollConfirm(w) \/ PollCancelPending(w) \/ PollCancelConfirmed(w) \/ PollDefer(w)

Poll(w) == PollStep(w) \/ PollCrash(w)

Next ==
    \/ Tick
    \/ Supplier
    \/ Book
    \/ \E c \in Cancellers : Cancel(c)
    \/ \E w \in Workers : Poll(w)
    \/ VoucherGivesUp

Spec == Init /\ [][Next]_vars

\* The sweep is a repeatable job of every worker process and time passes;
\* nothing is assumed of the supplier or of the callers of the api.
Fairness == WF_vars(Tick) /\ \A w \in Workers : WF_vars(PollStep(w))

FairSpec == Spec /\ Fairness

------------------------------------------------------------------------------
(***************************************************************************)
(* Properties.                                                             *)
(***************************************************************************)
Phase(state) ==
    CASE state = "absent" -> "none"
      [] state \in {"quoted", "reserved", "pending_confirmation"} -> "open"
      [] OTHER -> state

Penalties == {FeeAt(at) : at \in 0..MaxTime} \union {0}

Promise == INSTANCE BookingPromise
    WITH phase <- Phase(item.state), books <- balance

\* Whatever the processes do to one another, the item keeps the promise made
\* to finance: every step opens, confirms, fails or cancels it by the book, or
\* is invisible there (transition and postTransitionEntries, runner.ts).
PromiseKept == Promise!Spec

\* The ledger says what the state says: the sale while confirmed, one penalty
\* once cancelled, nothing before and nothing on failure - the reversal posted
\* on confirmed -> cancelled takes back exactly what confirming recognised
\* (ledger/templates.ts).
LedgerMatchesState ==
    /\ item.state = "confirmed" => balance = Promise!Sale
    /\ item.state = "cancelled" =>
         \E penalty \in Penalties : balance = Promise!Penalty(penalty)
    /\ item.state \notin {"confirmed", "cancelled"} => balance = Promise!Nothing

\* A buyer told "cancelled" has a cancelled booking, and one told that the
\* cancellation is pending has it recorded or settled, however the worker and
\* other cancel requests moved the item meanwhile (cancelBooking); and none is
\* told that its cancellation could not be settled, as the three attempts of
\* settleSupplierCancelled always suffice.
CancelAnswerIsTrue ==
    \A c \in Cancellers :
        /\ cancels[c].tries < 3
        /\ cancels[c].pc = "told_cancelled" => item.state = "cancelled"
        /\ cancels[c].pc = "told_pending" =>
              item.state = "cancelled" \/ item.cancellationRequestedAt # Null

\* Revenue never stands for a booking the supplier has cancelled without
\* someone to act on it: a handler on its way to settle or record, a recorded
\* cancellation (for the poller, or for the manual queue if the item was put
\* there before), or a handler that died or lost the supplier's answer and
\* reported an error (cancelBooking).
DivergenceHasAnOwner ==
    item.state = "confirmed" /\ supplier.status = "cancelled" =>
        \/ item.cancellationRequestedAt # Null
        \/ \E c \in Cancellers :
              cancels[c].pc \in {"settling", "transitioning", "deferring", "marking", "error"}

\* Cancelling a confirmed booking charges the fee in force when the
\* cancellation was requested, however late the supplier settles it
\* (settleCancellationWait, settleSupplierCancelled).
ConfirmedPenaltyIsTheRequested ==
    [][item.state = "confirmed" /\ item'.state = "cancelled" =>
          balance' = Promise!Penalty(FeeAt(item'.cancellationRequestedAt))]_vars

\* Every wait ends: a pending confirmation or a recorded cancellation is
\* eventually settled or handed to the manual queue (deferOrEscalate), also on
\* an item that the voucher delivery has taken away from the poller (escalate).
Waiting ==
    \/ item.state = "pending_confirmation"
    \/ item.state = "confirmed" /\ item.cancellationRequestedAt # Null

WaitsEnd == Waiting ~> (~Waiting \/ item.escalated)

\* An item stranded before the supplier answered - a crash or an error around
\* create, reserve or book - eventually moves on or reaches the manual queue
\* (duePendingItems).
StrandedItemsSurface ==
    item.state \in {"quoted", "reserved"} ~>
        (item.state \notin {"quoted", "reserved"} \/ item.escalated)

------------------------------------------------------------------------------
(***************************************************************************)
(* Claims of the code's comments that its behaviour refutes.               *)
(***************************************************************************)
\* Migration 0004: "Penalty postings use the policy resolved AT THIS instant -
\* the fee quoted to the buyer when cancellation was requested."
PenaltyIsTheRequested ==
    item.state = "cancelled" /\ item.cancellationRequestedAt # Null =>
        balance = Promise!Penalty(FeeAt(item.cancellationRequestedAt))

==============================================================================
