----------------------------- MODULE MCDocuments -----------------------------
(***************************************************************************)
(* One booking, callers of its agency and of another, two languages.       *)
(***************************************************************************)
EXTENDS Documents, TLC

CONSTANT ours

Owner == [b \in Bookings |-> ours]

CallSymmetry == Permutations(Calls)
=============================================================================
