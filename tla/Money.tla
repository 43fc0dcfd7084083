-------------------------------- MODULE Money --------------------------------
(***************************************************************************)
(* The integer money kernel (packages/core/src/money.ts): every amount is  *)
(* a whole number of minor units inside the range of a `Minor`, and every  *)
(* division says how it rounds.                                            *)
(***************************************************************************)
EXTENDS Integers, FiniteSets, Functions

CONSTANTS
    Null,        \* JavaScript's null
    MaxMinor     \* MAX_MINOR

ASSUME MaxMinorAssumption == MaxMinor \in Nat \ {0}

BpsUnit == 10000

\* A fractional or otherwise unusable number is any value outside the range.
validMinor(value) == value \in -MaxMinor .. MaxMinor

Magnitude(n) == IF n < 0 THEN -n ELSE n

divRoundHalfAwayFromZero(numerator, denominator) ==
    LET abs     == Magnitude(numerator)
        whole   == abs \div denominator
        rounded == IF (abs % denominator) * 2 >= denominator THEN whole + 1 ELSE whole
    IN  IF numerator < 0 THEN -rounded ELSE rounded

mulBps(value, bps) == divRoundHalfAwayFromZero(value * bps, BpsUnit)

\* The cap wins when a caller supplies min > max.
clampMinor(value, min, max) ==
    LET raised == IF min # Null /\ value < min THEN min ELSE value
    IN  IF max # Null /\ raised > max THEN max ELSE raised

\* The VAT is the residual, so that net and VAT always add up to the gross.
splitVatInclusive(gross, vatRateBps) ==
    LET net == divRoundHalfAwayFromZero(gross * BpsUnit, BpsUnit + vatRateBps)
    IN  [net |-> net, vat |-> gross - net]

(***************************************************************************)
(* The largest-remainder allocator.  `weights` maps bucket keys, which are *)
(* totally ordered and hence integers here, to weights.  A negative weight *)
(* counts as zero and all-zero weights as equal ones; the units that       *)
(* rounding down leaves over go to the largest remainder first, then to    *)
(* the largest weight, then to the smallest key.  The caller never passes  *)
(* an amount with no bucket to put it in.                                  *)
(***************************************************************************)
Unweighted(weights) == \A k \in DOMAIN weights : weights[k] <= 0

\* The units left over, dealt by remainder, weight and key.
dealtByRemainder(base, remainder, weight, shortfall) ==
    LET Before(j, k) == \/ remainder[j] > remainder[k]
                        \/ remainder[j] = remainder[k] /\ weight[j] > weight[k]
                        \/ remainder[j] = remainder[k] /\ weight[j] = weight[k] /\ j < k
    IN  [k \in DOMAIN base |->
            IF Cardinality({j \in DOMAIN base : Before(j, k)}) < shortfall THEN base[k] + 1 ELSE base[k]]

roundedDown(amount, weight, den) ==
    LET base == [k \in DOMAIN weight |-> (amount * weight[k]) \div den]
    IN  dealtByRemainder(base, [k \in DOMAIN weight |-> (amount * weight[k]) % den], weight,
                         amount - SumFunction(base))

allocateMinor(total, weights) ==
    LET even   == Unweighted(weights)
        weight == [k \in DOMAIN weights |-> IF even THEN 1 ELSE IF weights[k] > 0 THEN weights[k] ELSE 0]
        share  == roundedDown(Magnitude(total), weight, SumFunction(weight))
    IN  [k \in DOMAIN weights |-> IF total < 0 THEN -share[k] ELSE share[k]]
===============================================================================
