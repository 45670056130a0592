------------------------- MODULE MCBookingLifecycle -------------------------
EXTENDS BookingLifecycle, TLC

\* Free at first, then a fee, then a higher one.
MCRules ==
    <<[fromUtc |-> 1, penalty |-> 2], [fromUtc |-> 2, penalty |-> 7]>>

Symmetry == Permutations(Cancellers) \union Permutations(Workers)
=============================================================================
