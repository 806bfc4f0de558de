------------------------ MODULE ConstantProductMath ------------------------
(***************************************************************************)
(* The arithmetic of contracts/constant-product-pool/src/math.rs and of    *)
(* fees.rs.  Every Rust operation there is checked: where one would leave  *)
(* the range of i128, or divide by zero, the function returns an error and *)
(* the host rolls the whole call back.  Each function is therefore a value *)
(* (AmountOut, ...) and the condition under which the code returns it      *)
(* (AmountOutOk, ...).                                                     *)
(*                                                                         *)
(* FeeDenominator is 10 000 in the code and MinimumLiquidity is 1000; the  *)
(* model checker uses small ones.                                          *)
(***************************************************************************)
EXTENDS HostInteger

CONSTANTS FeeDenominator, MinimumLiquidity

ASSUME FeeDenominatorAssumption   == FeeDenominator \in Nat \ {0}
ASSUME MinimumLiquidityAssumption == MinimumLiquidity \in Nat

Lesser(x, y) == IF x <= y THEN x ELSE y

-----------------------------------------------------------------------------
\* Mutant: the quotient rounded up, against the pool.
AmountOutRoundedUp(amountIn, reserveIn, reserveOut, feeBps) ==
    LET inWithFee == amountIn * (FeeDenominator - feeBps)
        whole == reserveIn * FeeDenominator + inWithFee
    IN  (inWithFee * reserveOut + whole - 1) \div whole

\* What the pool pays for amountIn, the fee taken from the input.
AmountOut(amountIn, reserveIn, reserveOut, feeBps) ==
    LET inWithFee == amountIn * (FeeDenominator - feeBps)
    IN  (inWithFee * reserveOut) \div (reserveIn * FeeDenominator + inWithFee)

AmountOutOk(amountIn, reserveIn, reserveOut, feeBps) ==
    LET inWithFee == amountIn * (FeeDenominator - feeBps)
    IN  /\ amountIn > 0
        /\ reserveIn > 0
        /\ reserveOut > 0
        /\ Fits(inWithFee)
        /\ Fits(inWithFee * reserveOut)
        /\ Fits(reserveIn * FeeDenominator + inWithFee)
        /\ Fits(amountIn * FeeDenominator)              \* price impact
        /\ AmountOut(amountIn, reserveIn, reserveOut, feeBps) > 0

\* Mutant: the quotient without the unit that covers its rounding.
AmountInUnrounded(amountOut, reserveIn, reserveOut, feeBps) ==
    (reserveIn * amountOut * FeeDenominator)
        \div ((reserveOut - amountOut) * (FeeDenominator - feeBps))

\* What the pool asks for amountOut: the quotient, always rounded up by one.
AmountIn(amountOut, reserveIn, reserveOut, feeBps) ==
    (reserveIn * amountOut * FeeDenominator)
        \div ((reserveOut - amountOut) * (FeeDenominator - feeBps)) + 1

AmountInOk(amountOut, reserveIn, reserveOut, feeBps) ==
    /\ amountOut > 0
    /\ reserveIn > 0
    /\ reserveOut > 0
    /\ amountOut < reserveOut
    /\ Fits(reserveIn * amountOut * FeeDenominator)
    /\ Fits((reserveOut - amountOut) * (FeeDenominator - feeBps))
    /\ feeBps # FeeDenominator                          \* division by zero
    /\ Fits(AmountIn(amountOut, reserveIn, reserveOut, feeBps))

-----------------------------------------------------------------------------
\* root is the integer square root of x, the result of the Newton iteration
\* integer_sqrt (module IntegerSqrt is the loop itself and shows that).
IsIntegerSqrt(root, x) ==
    /\ root * root <= x
    /\ x < (root + 1) * (root + 1)

\* product + 1 is the first sum of the iteration: unchecked, it wraps at the
\* limit, the result turns negative and the caller's subtraction rejects it.
FirstSharesOk(product) == Fits(product + 1)

\* Mutant: the last unit of a share goes to the depositor.
ProRataSharesRoundedUp(amountA, amountB, reserveA, reserveB, supply) ==
    Lesser((amountA * supply + reserveA - 1) \div reserveA,
           (amountB * supply + reserveB - 1) \div reserveB)

\* LP shares for a deposit into a pool whose shares exist already.
ProRataShares(amountA, amountB, reserveA, reserveB, supply) ==
    Lesser((amountA * supply) \div reserveA, (amountB * supply) \div reserveB)

ProRataSharesOk(amountA, amountB, reserveA, reserveB, supply) ==
    /\ reserveA # 0 /\ reserveB # 0                     \* division by zero
    /\ Fits(amountA * supply)
    /\ Fits(amountB * supply)

\* The part of one reserve that lpAmount of the supply stands for.
ShareOf(lpAmount, supply, reserve) == (lpAmount * reserve) \div supply

\* Mutant: the last share is not redeemable.
LiquidityRatioOkButLast(lpAmount, supply, reserveA, reserveB) ==
    /\ supply > 0
    /\ lpAmount > 0
    /\ lpAmount < supply
    /\ Fits(lpAmount * reserveA)
    /\ Fits(lpAmount * reserveB)

LiquidityRatioOk(lpAmount, supply, reserveA, reserveB) ==
    /\ supply > 0
    /\ lpAmount > 0
    /\ lpAmount <= supply
    /\ Fits(lpAmount * reserveA)
    /\ Fits(lpAmount * reserveB)

-----------------------------------------------------------------------------
\* The protocol's part of the fee on amountIn; both quotients round down.
ProtocolFee(amountIn, feeBps, protocolFeeBps) ==
    (((amountIn * feeBps) \div FeeDenominator) * protocolFeeBps)
        \div FeeDenominator

ProtocolFeeOk(amountIn, feeBps, protocolFeeBps) ==
    /\ Fits(amountIn * feeBps)
    /\ Fits(((amountIn * feeBps) \div FeeDenominator) * protocolFeeBps)
=============================================================================
