-------------------------- MODULE ConcentratedMath --------------------------
(***************************************************************************)
(* backend/src/shared/amm-math/concentrated.math.ts: square roots of       *)
(* prices as fixed-point numbers, the amounts that liquidity stands for    *)
(* between two of them, and one step of a swap.  Q96 is 2^96 in the code   *)
(* and a small power of two here; FEE_BASE is 10 000.                      *)
(***************************************************************************)
EXTENDS Integers

CONSTANTS Q96, FEE_BASE

ASSUME ConcentratedAssumption == Q96 \in Nat \ {0} /\ FEE_BASE \in Nat \ {0}

MulDiv(a, b, denominator) == (a * b) \div denominator

MulDivRoundingUp(a, b, denominator) == (a * b + denominator - 1) \div denominator

Low(p, r) == IF p > r THEN r ELSE p
High(p, r) == IF p > r THEN p ELSE r

\* The amount of token 0 between two prices; a price of 0 divides by zero.
GetAmount0Delta(p, r, liquidity, roundUp) ==
    LET numerator == liquidity * (High(p, r) - Low(p, r))
    IN  IF roundUp THEN MulDivRoundingUp(numerator, Q96, High(p, r) * Low(p, r))
                   ELSE MulDiv(numerator, Q96, High(p, r) * Low(p, r))

\* The amount of token 1 between two prices.
GetAmount1Delta(p, r, liquidity, roundUp) ==
    IF roundUp THEN MulDivRoundingUp(liquidity, High(p, r) - Low(p, r), Q96)
               ELSE MulDiv(liquidity, High(p, r) - Low(p, r), Q96)

\* The price that amountIn of token 0 (zeroForOne) or of token 1 moves sqrtP to.
GetNextSqrtPriceFromInput(sqrtP, liquidity, amountIn, zeroForOne) ==
    IF zeroForOne
    THEN (liquidity * sqrtP) \div (liquidity + (amountIn * sqrtP) \div Q96)
    ELSE sqrtP + (amountIn * Q96) \div liquidity

GetNextSqrtPriceFromInputOk(sqrtP, liquidity, amountIn, zeroForOne) ==
    /\ sqrtP > 0 /\ liquidity > 0                         \* InvalidInput
    /\ zeroForOne =>                                      \* PriceTooLow
          GetNextSqrtPriceFromInput(sqrtP, liquidity, amountIn, TRUE) >= 1

\* Mutant: what is left after the fee decides, the whole amount is used.
StepUsingTheFee(sqrtP, sqrtPTarget, liquidity, amountIn, feeBps) ==
    LET zeroForOne == sqrtP >= sqrtPTarget
        fee == (amountIn * feeBps) \div FEE_BASE
        maxAmountIn == IF zeroForOne
                       THEN GetAmount0Delta(sqrtPTarget, sqrtP, liquidity, FALSE)
                       ELSE GetAmount1Delta(sqrtP, sqrtPTarget, liquidity, FALSE)
        reached == amountIn - fee >= maxAmountIn
    IN  [sqrtPNext |-> IF reached THEN sqrtPTarget
                       ELSE GetNextSqrtPriceFromInput(sqrtP, liquidity, amountIn, zeroForOne),
         amountIn |-> IF reached THEN maxAmountIn ELSE amountIn,
         amountOut |-> 0, feeAmount |-> fee]

\* One step of a swap: to the target price, or as far as the amount reaches.
ComputeSwapStep(sqrtP, sqrtPTarget, liquidity, amountIn, feeBps) ==
    LET zeroForOne == sqrtP >= sqrtPTarget
        fee == (amountIn * feeBps) \div FEE_BASE
        maxAmountIn == IF zeroForOne
                       THEN GetAmount0Delta(sqrtPTarget, sqrtP, liquidity, FALSE)
                       ELSE GetAmount1Delta(sqrtP, sqrtPTarget, liquidity, FALSE)
        reached == amountIn - fee >= maxAmountIn
        sqrtPNext == IF reached THEN sqrtPTarget
                     ELSE GetNextSqrtPriceFromInput(sqrtP, liquidity, amountIn - fee, zeroForOne)
    IN  [sqrtPNext |-> sqrtPNext,
         amountIn |-> IF reached THEN maxAmountIn ELSE amountIn - fee,
         amountOut |-> IF zeroForOne
                       THEN GetAmount1Delta(sqrtPNext, sqrtP, liquidity, FALSE)
                       ELSE GetAmount0Delta(sqrtP, sqrtPNext, liquidity, FALSE),
         feeAmount |-> fee]

=============================================================================
