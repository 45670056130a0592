---------------------------- MODULE BookingPromise ----------------------------
(***************************************************************************)
(* What the booking engine promises finance about one booking item, free   *)
(* of polling, retries and races: the item is opened once, is confirmed,   *)
(* fails or is cancelled, and the books show the sale exactly while it is  *)
(* confirmed and exactly the penalty once it is cancelled.                 *)
(***************************************************************************)
EXTENDS Integers

CONSTANTS
    Sell, Net,      \* what a confirmed sale is worth
    Penalties       \* what a cancellation may cost

VARIABLES
    phase,          \* "none", "open", "confirmed", "cancelled" or "failed"
    books           \* balance of each ledger account

vars == <<phase, books>>

Books(receivable, payable) ==
    [agency_receivable |-> receivable,
     sales             |-> -receivable,
     cost_of_sales     |-> payable,
     supplier_payable  |-> -payable]

Nothing == Books(0, 0)
Sale == Books(Sell, Net)
Penalty(amount) == Books(amount, amount)

Init == phase = "none" /\ books = Nothing

Open == phase = "none" /\ phase' = "open" /\ UNCHANGED books

Confirm == phase = "open" /\ phase' = "confirmed" /\ books' = Sale

Fail == phase = "open" /\ phase' = "failed" /\ UNCHANGED books

Cancel(penalty) ==
    /\ phase \in {"open", "confirmed"}
    /\ phase' = "cancelled"
    /\ books' = Penalty(penalty)

Next == Open \/ Confirm \/ Fail \/ \E penalty \in Penalties : Cancel(penalty)

Spec == Init /\ [][Next]_vars

==============================================================================
