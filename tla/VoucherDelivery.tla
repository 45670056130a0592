---------------------------- MODULE VoucherDelivery ----------------------------
(***************************************************************************)
(* The voucher delivery consumer (packages/documents/src/delivery.ts): a   *)
(* repeated sweep claims the booking_item.confirmed events that have no    *)
(* document_delivery row, then renders and mails the voucher of every row  *)
(* that is due, with a backoff after a failure and escalation of the item  *)
(* after the last one.  Sweeps of several worker processes may race, and a *)
(* process may die between any two of its statements.                      *)
(*                                                                         *)
(* One step is one statement against the tenant database or one side       *)
(* effect (mail, escalation).  Batches are larger than the backlog, and    *)
(* the rows of a batch are taken in any order.                             *)
(***************************************************************************)
EXTENDS Integers, FiniteSets

CONSTANTS
    Confirmations,  \* booking_event rows of type booking_item.confirmed
    Unaddressed,    \* those whose booking item carries no holder email
    Mailers,        \* worker processes that sweep this tenant
    MaxAttempts,    \* attempts before the delivery is terminal
    BackoffBase,    \* delay before the first retry, doubled for each further one
    NoEvent,        \* no event in hand
    MaxCrashes,     \* bound: deaths of a worker, or database errors, in a behaviour
    MaxLostReplies  \* bound: mails that are sent but reported as failed

ASSUME ConfirmationsAssumption ==
    Unaddressed \subseteq Confirmations /\ NoEvent \notin Confirmations
ASSUME AttemptsAssumption == MaxAttempts \in Nat \ {0}
ASSUME BackoffAssumption == BackoffBase \in Nat
ASSUME DeliveryBoundAssumption == MaxCrashes \in Nat /\ MaxLostReplies \in Nat

VARIABLES
    confirmed,      \* events committed by the booking runner
    delivery,       \* the document_delivery row of each event
    sweep,          \* the pass under way in each worker
    escalated,      \* events whose item is in the manual-intervention queue
    mails,          \* mails sent for each event (two stand for more)
    crashes,
    lostReplies

deliveryVars == <<confirmed, delivery, sweep, escalated, mails, crashes, lostReplies>>

\* wait counts the ticks left until next_attempt_at.
Rows ==
    [state : {"none", "pending", "sent", "failed"}, attempts : Nat, wait : Int]

NoRow == [state |-> "none", attempts |-> 0, wait |-> 0]

\* todo is the batch still to be processed, snapshot the attempts each of its
\* rows had when the batch was selected, event the row in hand.
Sweeps ==
    [pc       : {"idle", "claiming", "surfacing", "claimed", "delivering", "mailed",
                 "erred", "escalating"},
     todo     : SUBSET Confirmations,
     event    : Confirmations \union {NoEvent},
     snapshot : [Confirmations -> Nat]]

NoSweep ==
    [pc |-> "idle", todo |-> {}, event |-> NoEvent, snapshot |-> [e \in Confirmations |-> 0]]

\* The pass takes e from its batch, and holds on to it or not.
Hold(w, e, pc) ==
    sweep' = [sweep EXCEPT ![w].pc = pc, ![w].event = e, ![w].todo = @ \ {e}]

Drop(w, e, pc) ==
    sweep' = [sweep EXCEPT ![w].pc = pc, ![w].event = NoEvent, ![w].todo = @ \ {e}]
-----------------------------------------------------------------------------
(* The booking runner commits the confirmation of an item and its event.   *)

Confirm(e) ==
    /\ e \notin confirmed
    /\ confirmed' = confirmed \union {e}
    /\ UNCHANGED <<delivery, sweep, escalated, mails, crashes, lostReplies>>
-----------------------------------------------------------------------------
(* claimNewEvents                                                          *)

ClaimLoad(w) ==
    /\ sweep[w].pc = "idle"
    /\ sweep' = [sweep EXCEPT
          ![w].pc = "claiming",
          ![w].todo = {e \in confirmed : delivery[e].state = "none"}]
    /\ UNCHANGED <<confirmed, delivery, escalated, mails, crashes, lostReplies>>

\* The unique key on the event lets one of two racing inserts through; the
\* loser goes on to its next event.
ClaimInsert(w) ==
    /\ sweep[w].pc = "claiming"
    /\ \E e \in sweep[w].todo :
          \/ /\ delivery[e].state # "none"
             /\ Drop(w, e, "claiming")
             /\ UNCHANGED delivery
          \/ /\ delivery[e].state = "none" /\ e \in Unaddressed
             /\ delivery' = [delivery EXCEPT ![e].state = "failed"]
             /\ Hold(w, e, "surfacing")
          \/ /\ delivery[e].state = "none" /\ e \notin Unaddressed
             /\ delivery' = [delivery EXCEPT ![e].state = "pending"]
             /\ Drop(w, e, "claiming")
    /\ UNCHANGED <<confirmed, escalated, mails, crashes, lostReplies>>

ClaimSurfaceForgotten(w) ==                                          \* mutant
    /\ sweep[w].pc = "surfacing"
    /\ Drop(w, sweep[w].event, "claiming")
    /\ UNCHANGED <<confirmed, delivery, escalated, mails, crashes, lostReplies>>

\* runner.escalate: a no-op when the item is in the queue already.
ClaimSurface(w) ==
    /\ sweep[w].pc = "surfacing"
    /\ escalated' = escalated \union {sweep[w].event}
    /\ Drop(w, sweep[w].event, "claiming")
    /\ UNCHANGED <<confirmed, delivery, mails, crashes, lostReplies>>

ClaimEnd(w) ==
    /\ sweep[w].pc = "claiming" /\ sweep[w].todo = {}
    /\ Drop(w, NoEvent, "claimed")
    /\ UNCHANGED <<confirmed, delivery, escalated, mails, crashes, lostReplies>>
-----------------------------------------------------------------------------
(* processDue                                                              *)

IsDue(e) == delivery[e].state = "pending" /\ delivery[e].wait = 0

DueLoad(w) ==
    /\ sweep[w].pc = "claimed"
    /\ sweep' = [sweep EXCEPT
          ![w].pc = "delivering",
          ![w].todo = {e \in Confirmations : IsDue(e)},
          ![w].snapshot = [e \in Confirmations |-> IF IsDue(e) THEN delivery[e].attempts ELSE 0]]
    /\ UNCHANGED <<confirmed, delivery, escalated, mails, crashes, lostReplies>>

\* Render the voucher and mail it.  Rendering fails while the booking's data or
\* its state does not allow a voucher; a mail may go out and be reported lost.
Deliver(w) ==
    /\ sweep[w].pc = "delivering"
    /\ \E e \in sweep[w].todo :
          \/ /\ Hold(w, e, "erred")
             /\ UNCHANGED <<mails, lostReplies>>
          \/ /\ mails' = [mails EXCEPT ![e] = IF @ < 2 THEN @ + 1 ELSE @]
             /\ \/ Hold(w, e, "mailed") /\ UNCHANGED lostReplies
                \/ /\ lostReplies < MaxLostReplies
                   /\ lostReplies' = lostReplies + 1
                   /\ Hold(w, e, "erred")
    /\ UNCHANGED <<confirmed, delivery, escalated, crashes>>

\* The guarded UPDATE, and the error handler it shares with the mail.
SettleSent(w) ==
    /\ sweep[w].pc = "mailed"
    /\ LET e == sweep[w].event
       IN  \/ /\ delivery' = [delivery EXCEPT ![e].state =
                                 IF @ = "pending" THEN "sent" ELSE @]
              /\ Drop(w, sweep[w].event, "delivering")
              /\ UNCHANGED crashes
           \/ /\ crashes < MaxCrashes
              /\ crashes' = crashes + 1
              /\ Hold(w, e, "erred")
              /\ UNCHANGED delivery
    /\ UNCHANGED <<confirmed, escalated, mails, lostReplies>>

\* WHERE state = 'pending': a row that a racing sweep settled is left alone.
Failed(row, attempts) ==
    IF row.state = "pending"
    THEN [row EXCEPT !.state = "failed", !.attempts = attempts, !.wait = 0]
    ELSE row

RetriedUncounted(row, attempts) ==                                   \* mutant
    IF row.state = "pending"
    THEN [row EXCEPT !.wait = BackoffBase * 2^(attempts - 1)]
    ELSE row

Retried(row, attempts) ==
    IF row.state = "pending"
    THEN [row EXCEPT !.attempts = attempts, !.wait = BackoffBase * 2^(attempts - 1)]
    ELSE row

IsTerminal(attempts) == attempts >= MaxAttempts

\* The attempts are counted from the snapshot, not from the row.
SettleError(w) ==
    /\ sweep[w].pc = "erred"
    /\ LET e == sweep[w].event
           attempts == sweep[w].snapshot[e] + 1
       IN  \/ /\ IsTerminal(attempts)
              /\ delivery' = [delivery EXCEPT ![e] = Failed(@, attempts)]
              /\ Hold(w, e, "escalating")
           \/ /\ ~IsTerminal(attempts)
              /\ delivery' = [delivery EXCEPT ![e] = Retried(@, attempts)]
              /\ Drop(w, sweep[w].event, "delivering")
    /\ UNCHANGED <<confirmed, escalated, mails, crashes, lostReplies>>

\* The escalation does not ask whether the UPDATE matched a row.
Escalate(w) ==
    /\ sweep[w].pc = "escalating"
    /\ escalated' = escalated \union {sweep[w].event}
    /\ Drop(w, sweep[w].event, "delivering")
    /\ UNCHANGED <<confirmed, delivery, mails, crashes, lostReplies>>

PassEnd(w) ==
    /\ sweep[w].pc = "delivering" /\ sweep[w].todo = {}
    /\ sweep' = [sweep EXCEPT ![w] = NoSweep]
    /\ UNCHANGED <<confirmed, delivery, escalated, mails, crashes, lostReplies>>

\* The process dies, or a statement outside the error handler throws: the pass
\* is over, and the job scheduler starts another.
Crash(w) ==
    /\ sweep[w].pc # "idle"
    /\ crashes < MaxCrashes
    /\ crashes' = crashes + 1
    /\ sweep' = [sweep EXCEPT ![w] = NoSweep]
    /\ UNCHANGED <<confirmed, delivery, escalated, mails, lostReplies>>

WaitTick ==
    /\ \E e \in Confirmations : delivery[e].wait > 0
    /\ delivery' = [e \in Confirmations |->
          [delivery[e] EXCEPT !.wait = IF @ > 0 THEN @ - 1 ELSE 0]]
    /\ UNCHANGED <<confirmed, sweep, escalated, mails, crashes, lostReplies>>
-----------------------------------------------------------------------------
DeliveryInit ==
    /\ confirmed = {}
    /\ delivery = [e \in Confirmations |-> NoRow]
    /\ sweep = [w \in Mailers |-> NoSweep]
    /\ escalated = {}
    /\ mails = [e \in Confirmations |-> 0]
    /\ crashes = 0
    /\ lostReplies = 0

\* A pass that goes on to its end.
PassStep(w) ==
    \/ ClaimLoad(w) \/ ClaimInsert(w) \/ ClaimSurface(w) \/ ClaimEnd(w)
    \/ DueLoad(w) \/ Deliver(w) \/ SettleSent(w) \/ SettleError(w) \/ Escalate(w)
    \/ PassEnd(w)

DeliveryNext ==
    \/ \E e \in Confirmations : Confirm(e)
    \/ \E w \in Mailers : PassStep(w) \/ Crash(w)
    \/ WaitTick

DeliverySpec == DeliveryInit /\ [][DeliveryNext]_deliveryVars
-----------------------------------------------------------------------------
(* Properties.                                                             *)

\* The type invariant: in particular a pass has a row in hand exactly where
\* its next statement is about one.
DeliveryTypeOK ==
    /\ confirmed \subseteq Confirmations
    /\ delivery \in [Confirmations -> Rows]
    /\ sweep \in [Mailers -> Sweeps]
    /\ \A w \in Mailers :
          sweep[w].pc \in {"surfacing", "mailed", "erred", "escalating"}
             <=> sweep[w].event # NoEvent
    /\ escalated \subseteq Confirmations
    /\ mails \in [Confirmations -> 0 .. 2]
    /\ crashes \in 0 .. MaxCrashes
    /\ lostReplies \in 0 .. MaxLostReplies

\* A row says "sent" only if the voucher was mailed, whichever of the racing
\* passes did it and whatever became of the others.
SentMeansMailed ==
    \A e \in Confirmations : delivery[e].state = "sent" => mails[e] > 0

\* A settled delivery is never reopened, retried or turned around by a pass
\* that selected the row while it was still pending.
SettledForGood ==
    [][\A e \in Confirmations :
          delivery[e].state \in {"sent", "failed"} =>
             delivery'[e].state = delivery[e].state
             /\ delivery'[e].attempts = delivery[e].attempts]_deliveryVars

\* "Silence is not an option" (delivery.ts:114-116): while no process dies, a
\* failed delivery is in the manual-intervention queue or the pass that failed
\* it is about to put it there.
FailureSurfaces ==
    crashes = 0 =>
       \A e \in Confirmations : delivery[e].state = "failed" =>
          \/ e \in escalated
          \/ \E w \in Mailers : sweep[w].pc \in {"surfacing", "escalating"} /\ sweep[w].event = e

\* Every confirmation ends in a mail or in a terminal row, although racing
\* passes overwrite each other's attempt counts and any of them may die.
DeliveryEnds ==
    \A e \in Confirmations : e \in confirmed ~> delivery[e].state \in {"sent", "failed"}

=============================================================================
