---------------------------- MODULE BookingRunner ----------------------------
(***************************************************************************)
(* The BookingTransitionRunner of packages/booking-engine/src/runner.ts:   *)
(* one operator per database transaction it offers.  A transaction reads   *)
(* and writes one booking_item row, posts the ledger and inserts the       *)
(* outbox event together or not at all, and its guarded UPDATE is the      *)
(* arbiter between concurrent callers, so each is one atomic action.       *)
(*                                                                         *)
(* The module has no next-state relation of its own: the processes that    *)
(* call the runner, and the order they do it in, are in BookingLifecycle.  *)
(***************************************************************************)
EXTENDS Booking, Ledger

CONSTANTS
    Null,       \* SQL null and TypeScript undefined
    Sell,       \* booking_item.sell_amount
    Net         \* booking_item.net_amount

ASSUME NullAssumption == Null \notin Int
ASSUME AmountAssumption == Sell \in Int /\ Net \in Int

VARIABLES
    now,        \* the clock every process reads
    item,       \* the booking_item row
    balance,    \* sum of the item's journal_entry rows, per account
    events      \* booking_event rows of the item, in commit order

runnerVars == <<item, balance, events>>

\* "absent" is the row that does not exist yet; it is no state of the code.
States == BookingItemStates \union {"absent"}

Instant == Nat \union {Null}

\* updatedAt is kept only while the item is quoted or reserved: in no other
\* state does the code read it.
Items ==
    [state                   : States,
     supplierReference       : BOOLEAN,
     pendingSince            : Instant,
     cancellationRequestedAt : Instant,
     nextPollAt              : Instant,
     pollAttempts            : Nat,
     escalated               : BOOLEAN,
     createdAt               : Instant,
     updatedAt               : Instant]

NoItem ==
    [state                   |-> "absent",
     supplierReference       |-> FALSE,
     pendingSince            |-> Null,
     cancellationRequestedAt |-> Null,
     nextPollAt              |-> Null,
     pollAttempts            |-> 0,
     escalated               |-> FALSE,
     createdAt               |-> Null,
     updatedAt               |-> Null]

\* The columns a transition may set with the state.
TransitionPatch ==
    [supplierReference       : BOOLEAN,
     pendingSince            : Instant,
     nextPollAt              : Instant,
     cancellationRequestedAt : Instant]

NoPatch ==
    [supplierReference       |-> FALSE,
     pendingSince            |-> Null,
     nextPollAt              |-> Null,
     cancellationRequestedAt |-> Null]

RunnerInit ==
    /\ item = NoItem
    /\ balance = NoLines
    /\ events = <<>>

OrElse(value, default) == IF value = Null THEN default ELSE value

EventTypes ==
    {"booking.created", "booking_item.reserved", "booking_item.pending_confirmation",
     "booking_item.confirmed", "booking_item.cancelled", "booking_item.failed",
     "booking_item.cancellation_requested", "booking_item.escalated"}

Emit(type) == events' = Append(events, type)

------------------------------------------------------------------------------
\* createHotelBooking, for a client reference nobody has used.
CreateHotelBooking ==
    /\ item.state = "absent"
    /\ item' = [NoItem EXCEPT !.state = "quoted", !.createdAt = now, !.updatedAt = now]
    /\ Emit("booking.created")
    /\ UNCHANGED balance

\* The guarded UPDATE of transition().  Entering pending_confirmation, or
\* arming any wait, starts the backoff afresh; leaving one clears the poll.
AfterTransition(row, to, patch) ==
    [row EXCEPT
        !.state = to,
        !.supplierReference = @ \/ patch.supplierReference,
        !.pendingSince = OrElse(patch.pendingSince, @),
        !.cancellationRequestedAt = OrElse(patch.cancellationRequestedAt, @),
        !.nextPollAt = IF to = "pending_confirmation"
                       THEN OrElse(patch.nextPollAt, @) ELSE patch.nextPollAt,
        !.pollAttempts = IF to = "pending_confirmation" \/ patch.nextPollAt # Null
                         THEN 0 ELSE @,
        !.updatedAt = IF to = "reserved" THEN now ELSE Null]

EventOf(to) ==
    CASE to = "reserved"             -> "booking_item.reserved"
      [] to = "pending_confirmation" -> "booking_item.pending_confirmation"
      [] to = "confirmed"            -> "booking_item.confirmed"
      [] to = "cancelled"            -> "booking_item.cancelled"
      [] to = "failed"               -> "booking_item.failed"

\* The row is not checked again when it is written.
TransitionUnguarded(from, to, patch, penalty) ==
    LET edge == <<from, to>> IN
    /\ CanTransition(from, to)
    /\ edge \in PostedEdges
    /\ edge \in PenaltyEdges => penalty # Null
    /\ item' = AfterTransition(item, to, patch)
    /\ balance' = Plus(balance, Posting(edge, [sell |-> Sell, net |-> Net, penalty |-> penalty]))
    /\ Emit(EventOf(to))

\* transition(): legality and template are asserted before any write, a
\* penalty edge insists on a resolved penalty.  The caller's expectedFrom
\* is the guard on the row.
Transition(from, to, patch, penalty) ==
    LET edge == <<from, to>> IN
    /\ CanTransition(from, to)
    /\ edge \in PostedEdges
    /\ item.state = from
    /\ edge \in PenaltyEdges => penalty # Null
    /\ item' = AfterTransition(item, to, patch)
    /\ balance' = Plus(balance, Posting(edge, [sell |-> Sell, net |-> Net, penalty |-> penalty]))
    /\ Emit(EventOf(to))

\* TransitionConflictError: the row is not where the caller believed.
TransitionConflicts(from) ==
    /\ item.state # from
    /\ UNCHANGED runnerVars

\* markCancellationRequested, and the row its WHERE clause accepts.
AwaitsNoCancellation ==
    /\ item.state \in {"confirmed", "pending_confirmation"}
    /\ item.cancellationRequestedAt = Null

MarkCancellationRequested(requestedAt) ==
    /\ AwaitsNoCancellation
    /\ item' = [item EXCEPT
                   !.cancellationRequestedAt = requestedAt,
                   !.nextPollAt = requestedAt,
                   !.pollAttempts = 0]
    /\ Emit("booking_item.cancellation_requested")
    /\ UNCHANGED balance

\* escalate: set once; escalating again is a no-op.
Escalate ==
    IF item.escalated
    THEN UNCHANGED runnerVars
    ELSE /\ item' = [item EXCEPT !.escalated = TRUE]
         /\ Emit("booking_item.escalated")
         /\ UNCHANGED balance

\* recordPollAttempt: the WHERE clause looks at escalated_at only.
RecordPollAttempt(attempts, nextPollAt) ==
    /\ item' = IF item.escalated THEN item
               ELSE [item EXCEPT !.pollAttempts = attempts, !.nextPollAt = nextPollAt]
    /\ UNCHANGED <<balance, events>>

==============================================================================
