-------------------------------- MODULE Money --------------------------------
(***************************************************************************)
(* Integer arithmetic of packages/domain/src/money.ts: amounts are whole   *)
(* minor units, a scalar is the ratio of integers its decimal form         *)
(* denotes.  What throws in the code is what Safe refuses; the modules     *)
(* that compute with amounts test it where the code does.                  *)
(***************************************************************************)
EXTENDS Integers, FiniteSets, Sequences, Functions

CONSTANT MaxSafeInteger     \* Number.MAX_SAFE_INTEGER

ASSUME MaxSafeAssumption == MaxSafeInteger \in Nat

\* isValidAmount, safeResult.
Safe(amount) == amount \in (-MaxSafeInteger)..MaxSafeInteger

Magnitude(n) == IF n < 0 THEN -n ELSE n

WithSignOf(n, magnitude) == IF n < 0 THEN -magnitude ELSE magnitude

\* The tie of a division falls towards zero.
DivideRoundHalfDown(n, d) ==
    WithSignOf(n, (Magnitude(n) \div d) + (IF 2 * (Magnitude(n) % d) > d THEN 1 ELSE 0))

DivideRoundHalfAwayFromZero(n, d) ==
    WithSignOf(n, (Magnitude(n) \div d) + (IF 2 * (Magnitude(n) % d) >= d THEN 1 ELSE 0))

MultiplyByScalar(amount, numerator, denominator) ==
    DivideRoundHalfAwayFromZero(amount * numerator, denominator)

\* The whole units of part i, and what the division leaves of it.
FloorShare(amount, weights, i) == (Magnitude(amount) * weights[i]) \div SumFunction(weights)
Remainder(amount, weights, i) == (Magnitude(amount) * weights[i]) % SumFunction(weights)

Leftover(amount, weights) ==
    Magnitude(amount) - SumFunction([i \in DOMAIN weights |-> FloorShare(amount, weights, i)])

\* The parts served before part i: larger remainder, then lower index.
ServedBefore(amount, weights, i) ==
    {j \in DOMAIN weights :
        LET mine   == Remainder(amount, weights, i)
            theirs == Remainder(amount, weights, j)
        IN  theirs > mine \/ (theirs = mine /\ j < i)}

\* Every part rounded on its own, as if each were a percentage of the amount.
AllocateRounded(amount, weights) ==
    [i \in DOMAIN weights |-> MultiplyByScalar(amount, weights[i], SumFunction(weights))]

\* Largest remainder: one leftover unit each to the first parts in line.
Allocate(amount, weights) ==
    [i \in DOMAIN weights |->
        WithSignOf(amount,
            FloorShare(amount, weights, i)
                + (IF Cardinality(ServedBefore(amount, weights, i)) < Leftover(amount, weights)
                   THEN 1 ELSE 0))]

==============================================================================
