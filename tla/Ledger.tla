-------------------------------- MODULE Ledger --------------------------------
(***************************************************************************)
(* The posting templates of packages/booking-engine/src/ledger: what every *)
(* executable transition edge adds to the four ledger accounts.  A posting *)
(* is a function from accounts to signed amounts, debits positive and      *)
(* credits negative, which is how journal_entry stores them.  Currency is  *)
(* left out: an item is single-currency, so its accounts are too.          *)
(***************************************************************************)
EXTENDS Integers

Accounts == {"agency_receivable", "sales", "cost_of_sales", "supplier_payable"}

\* Amounts offered to a template: the item's sell and net, and the penalty.
NoLines == [account \in Accounts |-> 0]

ConfirmLines(amounts) ==
    [agency_receivable |-> amounts.sell,
     sales             |-> -amounts.sell,
     cost_of_sales     |-> amounts.net,
     supplier_payable  |-> -amounts.net]

PenaltyLines(amounts) ==
    [agency_receivable |-> amounts.penalty,
     sales             |-> -amounts.penalty,
     cost_of_sales     |-> amounts.penalty,
     supplier_payable  |-> -amounts.penalty]

Reversed(lines) == [account \in Accounts |-> -lines[account]]

Plus(lines, more) == [account \in Accounts |-> lines[account] + more[account]]

\* The edges that have a template: the only ones the runner executes.
ConfirmEdges == {<<"reserved", "confirmed">>, <<"pending_confirmation", "confirmed">>}
PenaltyEdges == {<<"confirmed", "cancelled">>, <<"pending_confirmation", "cancelled">>}
MemoEdges ==
    {<<"quoted", "reserved">>, <<"reserved", "pending_confirmation">>,
     <<"reserved", "failed">>, <<"pending_confirmation", "failed">>}
PostedEdges == ConfirmEdges \union PenaltyEdges \union MemoEdges

CancelConfirmedLinesNoReversal(amounts) == PenaltyLines(amounts)

CancelConfirmedLines(amounts) ==
    Plus(Reversed(ConfirmLines(amounts)), PenaltyLines(amounts))

\* POSTING_TEMPLATES applied to the amounts of one transition.
Posting(edge, amounts) ==
    CASE edge \in ConfirmEdges -> ConfirmLines(amounts)
      [] edge = <<"confirmed", "cancelled">> -> CancelConfirmedLines(amounts)
      [] edge = <<"pending_confirmation", "cancelled">> -> PenaltyLines(amounts)
      [] OTHER -> NoLines

=============================================================================
