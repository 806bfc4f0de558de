---------------------------- MODULE OffchainMath ----------------------------
(***************************************************************************)
(* The arithmetic that quotes pools outside the contracts:                 *)
(* backend/src/shared/amm-math/constant-product.math.ts and                *)
(* stable-swap.math.ts over the BigInts of JavaScript, which have no       *)
(* width, and frontend/src/app/core/services/amm-math.service.ts.  As in   *)
(* ConstantProductMath a function is its value and, where it throws, the   *)
(* condition ...Ok under which it does not.  Amounts travel as decimal     *)
(* strings; here they are the numbers those stand for.                     *)
(***************************************************************************)
EXTENDS Integers

CONSTANTS
    FEE_DENOMINATOR,      \* 10 000
    MINIMUM_LIQUIDITY,    \* 1000
    Iterations            \* 256, the bound of the loops of getD and getY

ASSUME OffchainAssumption ==
    /\ FEE_DENOMINATOR \in Nat \ {0}
    /\ MINIMUM_LIQUIDITY \in Nat
    /\ Iterations \in Nat \ {0}

abs(x) == IF x < 0 THEN -x ELSE x

\* The / of BigInt rounds towards zero.
Quotient(n, d) == IF (n < 0) = (d < 0) THEN abs(n) \div abs(d)
                                       ELSE -(abs(n) \div abs(d))

-----------------------------------------------------------------------------
\* Mutant: the fee taken from the output, as some other pools do.
FeeFromOutput(aIn, rIn, rOut, feeBps) ==
    (((aIn * rOut) \div (rIn + aIn)) * (FEE_DENOMINATOR - feeBps))
        \div FEE_DENOMINATOR

GetAmountOut(aIn, rIn, rOut, feeBps) ==
    LET amountInWithFee == aIn * (FEE_DENOMINATOR - feeBps)
    IN  (amountInWithFee * rOut) \div (rIn * FEE_DENOMINATOR + amountInWithFee)

GetAmountOutOk(aIn, rIn, rOut, feeBps) ==
    /\ aIn > 0 /\ rIn > 0 /\ rOut > 0                     \* InvalidInput
    /\ GetAmountOut(aIn, rIn, rOut, feeBps) > 0           \* InsufficientOutput

\* The price impact that comes with it, in units of 1 / 10 000.
PriceImpact(aIn, rIn) == (aIn * FEE_DENOMINATOR) \div (rIn + aIn)

GetAmountIn(aOut, rIn, rOut, feeBps) ==
    (rIn * aOut * FEE_DENOMINATOR)
        \div ((rOut - aOut) * (FEE_DENOMINATOR - feeBps)) + 1

GetAmountInOk(aOut, rIn, rOut, feeBps) ==
    /\ aOut > 0 /\ rIn > 0 /\ rOut > 0                    \* InvalidInput
    /\ aOut < rOut                                        \* InsufficientLiquidity
    /\ feeBps # FEE_DENOMINATOR                           \* division by zero

\* The loop of integerSqrt, with its break, from the positive x on.
IntegerSqrtFrom(x) ==
    LET loop[r \in Nat \ {0}] ==
            LET next == (r + x \div r) \div 2
            IN  IF r <= x \div r \/ next >= r THEN r ELSE loop[next]
    IN  loop[x]

RootOf(x) == IF x = 0 THEN 0 ELSE IntegerSqrtFrom(x)

FewerOf(a, b) == IF a < b THEN a ELSE b

CalcLpTokensMinted(aA, aB, rA, rB, tS) ==
    IF tS = 0 THEN RootOf(aA * aB) - MINIMUM_LIQUIDITY
              ELSE FewerOf((aA * tS) \div rA, (aB * tS) \div rB)

CalcLpTokensMintedOk(aA, aB, rA, rB, tS) ==
    /\ aA > 0 /\ aB > 0                                   \* InvalidInput
    /\ IF tS = 0 THEN CalcLpTokensMinted(aA, aB, rA, rB, tS) > 0
                 ELSE rA # 0 /\ rB # 0                    \* division by zero

\* What lp of tS shares take out of one reserve.
CalcLpTokensBurned(lp, tS, r) == (lp * r) \div tS

CalcLpTokensBurnedOk(lp, tS) ==
    /\ tS > 0 /\ lp > 0                                   \* InvalidInput
    /\ lp <= tS                                           \* InsufficientLiquidity

-----------------------------------------------------------------------------
(* The service of the frontend: the same formulas and no check of any input. *)

ScreenAmountOut(amountIn, reserveIn, reserveOut, feeBps) ==
    LET amountInWithFee == amountIn * (FEE_DENOMINATOR - feeBps)
    IN  (amountInWithFee * reserveOut)
            \div (reserveIn * FEE_DENOMINATOR + amountInWithFee)

\* Its price impact compares the price paid with the spot price: the fee counts
\* as impact.  The code computes it in floating point; here it is rounded up to
\* 1 / 10 000.
ScreenPriceImpact(amountIn, reserveIn, reserveOut, feeBps) ==
    LET spot == amountIn * reserveOut
        paid == ScreenAmountOut(amountIn, reserveIn, reserveOut, feeBps) * reserveIn
    IN  (abs(spot - paid) * FEE_DENOMINATOR + spot - 1) \div spot

ScreenAmountIn(amountOut, reserveIn, reserveOut, feeBps) ==
    (reserveIn * amountOut * FEE_DENOMINATOR)
        \div ((reserveOut - amountOut) * (FEE_DENOMINATOR - feeBps)) + 1

\* The loop of its sqrt, which has no break.
SqrtFrom(x) ==
    LET loop[r \in Nat \ {0}] ==
            IF r <= x \div r THEN r ELSE loop[(r + x \div r) \div 2]
    IN  loop[x]

ScreenLpTokensMinted(amountA, amountB, reserveA, reserveB, totalSupply) ==
    IF totalSupply = 0
    THEN (IF amountA * amountB = 0 THEN 0
          ELSE SqrtFrom(amountA * amountB)) - MINIMUM_LIQUIDITY
    ELSE FewerOf((amountA * totalSupply) \div reserveA,
                 (amountB * totalSupply) \div reserveB)

-----------------------------------------------------------------------------
(* stable-swap.math.ts, for its N_COINS = 2 coins. *)

\* Both loops end when a round changes the value by at most one, or with the
\* last round.
Repeated(Round, start) ==
    LET run[s \in [round : 1..Iterations, value : DOMAIN Round]] ==
            LET next == Round[s.value]
            IN  IF s.round = Iterations \/ abs(next - s.value) <= 1 THEN next
                ELSE run[[round |-> s.round + 1, value |-> next]]
    IN  run[[round |-> 1, value |-> start]]

\* Mutant: the sum is multiplied by A * n in place of A * n^n.
AnnOnce(a) == a * 2

ann(a) == a * 4

\* The invariant of positive balances; an empty pool has D = 0.
GetD(x, y, a) ==
    LET Round[d \in Nat \ {0}] ==
            LET dP == (((d * d) \div (x * 2)) * d) \div (y * 2)
            IN  ((ann(a) * (x + y) + dP * 2) * d)
                    \div ((ann(a) - 1) * d + 3 * dP)
    IN  IF x + y = 0 THEN 0 ELSE Repeated(Round, x + y)

\* The balance of the one coin that keeps d, when that of the other is x.
GetY(x, a, d) ==
    LET c == ((((d * d) \div (x * 2)) * d) \div (ann(a) * 2))
        b == x + d \div ann(a)
        Round[y \in {v \in Nat : v + b >= d /\ 2 * v + b > d}] ==
            (y * y + c) \div (2 * y + b - d)
    IN  Repeated(Round, d)

\* What dx of the coin with balance x buys of the coin with balance y.
CalculateSwap(dx, x, y, a, fee) ==
    LET gross == y - GetY(x + dx, a, GetD(x, y, a)) - 1
    IN  gross - Quotient(gross * fee, FEE_DENOMINATOR)

\* How far a deposit or a withdrawal of the amounts moves D.
CalculateTokenAmount(amountX, amountY, x, y, a, deposit) ==
    LET d0 == GetD(x, y, a)
        d1 == IF deposit THEN GetD(x + amountX, y + amountY, a)
                         ELSE GetD(x - amountX, y - amountY, a)
        diff == IF deposit THEN d1 - d0 ELSE d0 - d1
    IN  IF diff > 0 THEN diff ELSE 0
=============================================================================
