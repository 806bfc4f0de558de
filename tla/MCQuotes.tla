------------------------------ MODULE MCQuotes ------------------------------
(***************************************************************************)
(* The quote functions of both kinds of pool, math.rs and invariant.rs,    *)
(* the loop of integer_sqrt, and the copies of that arithmetic that the    *)
(* backend and the frontend quote with: facts about prices that no single  *)
(* call of a pool shows, over every small pool and amount.                 *)
(***************************************************************************)
EXTENDS ConstantProductMath, StableSwapMath, OffchainMath, ConcentratedMath

CONSTANTS
    SqrtWidth,                \* the largest i128 of the loop of integer_sqrt
    MaxReserve, MaxAmount,    \* of a constant-product pool
    MaxBalance, MaxPaid,      \* of a stable pool
    Coefficients,             \* values of A
    MaxPrice, MaxLiquidity    \* of a concentrated pool

ASSUME SqrtWidthAssumption == SqrtWidth \in Nat \ {0, 1}

\* The two copies of a rate are of one value, and no product that a quote of a
\* constant-product pool forms leaves i128.
ASSUME QuotesAssumption ==
    /\ FEE_DENOMINATOR = FeeDenominator
    /\ MINIMUM_LIQUIDITY = MinimumLiquidity
    /\ MaxReserve \in Nat /\ MaxAmount \in Nat
    /\ (MaxReserve + 1) * (MaxAmount + 1) * FeeDenominator <= I128Max

\* Nor does one that the loops for a stable pool form, of which both copies have
\* as many rounds.
ASSUME StableQuotesAssumption ==
    /\ Iterations = MaxRounds
    /\ MaxBalance \in Nat /\ MaxPaid \in Nat
    /\ \A a \in Coefficients :
          /\ a \in Nat \ {0}
          /\ LET m == MaxBalance + MaxPaid
             IN  (8 * a * m + 32 * m * m * m) * (4 * m) <= I128Max

ProductQuestions ==
    [pool : {"product"}, reserveIn : 1..MaxReserve, reserveOut : 1..MaxReserve,
     fee : 0..FeeDenominator, first : 1..MaxAmount, second : 1..MaxAmount]

StableQuestions ==
    [pool : {"stable"}, x : 1..MaxBalance, y : 1..MaxBalance,
     a : Coefficients, dx : 1..MaxPaid]

StepQuestions ==
    [pool : {"concentrated"}, price : 1..MaxPrice, target : 1..MaxPrice,
     liquidity : 1..MaxLiquidity, amount : 1..MaxAmount, fee : 0..FEE_BASE]

VARIABLES
    q,             \* a question to the functions
    x, r, done     \* integer_sqrt: its argument, its loop variable, its end

Sqrt == INSTANCE IntegerSqrt WITH I128Max <- SqrtWidth

\* Each initial state is one question to the functions, or one argument of the
\* loop, which runs on.
QuoteInit ==
    \/ /\ q \in ProductQuestions \cup StableQuestions \cup StepQuestions
       /\ x = 0 /\ r = 0 /\ done = TRUE
    \/ /\ q = [pool |-> "none"]
       /\ Sqrt!SqrtInit

QuoteNext == Sqrt!SqrtNext /\ UNCHANGED q

quoteVars == <<q, x, r, done>>

\* The loop is part of one host call: it runs on until it returns.
QuoteSpec == QuoteInit /\ [][QuoteNext]_quoteVars /\ WF_quoteVars(QuoteNext)

\* The loop of integer_sqrt returns the root of every argument and ends, also
\* at the limit of i128 where its first sum wraps (see IntegerSqrt).
ReturnsRoot == q.pool = "none" => Sqrt!ReturnsRoot
Terminates == Sqrt!Terminates

-----------------------------------------------------------------------------
\* What get_amount_in asks for an output buys at least that output from
\* get_amount_out: the +1 of the code covers every rounding.
AskedInputSuffices ==
    q.pool = "product" /\ AmountInOk(q.first, q.reserveIn, q.reserveOut, q.fee) =>
        LET needed == AmountIn(q.first, q.reserveIn, q.reserveOut, q.fee)
        IN  AmountOut(needed, q.reserveIn, q.reserveOut, q.fee) >= q.first

\* Two swaps in a row, the second priced by the reserves the first leaves
\* behind, never pay more than one swap of the whole amount.
SplittingNeverPays ==
    q.pool = "product" =>
        LET out1 == AmountOut(q.first, q.reserveIn, q.reserveOut, q.fee)
            out2 == AmountOut(q.second, q.reserveIn + q.first,
                              q.reserveOut - out1, q.fee)
        IN  out1 + out2
              <= AmountOut(q.first + q.second, q.reserveIn, q.reserveOut, q.fee)

\* What the backend and the frontend compute for a constant-product pool is
\* what the contract does: the same amounts, refused in the same cases where no
\* width of i128 is met, and a price impact on the screen that never
\* understates that of the backend.
ProductQuotesAgree ==
    q.pool = "product" =>
        LET in == q.reserveIn  out == q.reserveOut
            bought == AmountOut(q.first, in, out, q.fee)
        IN  /\ GetAmountOutOk(q.first, in, out, q.fee)
                 <=> AmountOutOk(q.first, in, out, q.fee)
            /\ GetAmountOut(q.first, in, out, q.fee) = bought
            /\ ScreenAmountOut(q.first, in, out, q.fee) = bought
            /\ ScreenPriceImpact(q.first, in, out, q.fee) >= PriceImpact(q.first, in)
            /\ GetAmountInOk(q.first, in, out, q.fee)
                 <=> AmountInOk(q.first, in, out, q.fee)
            /\ GetAmountInOk(q.first, in, out, q.fee) =>
                  /\ GetAmountIn(q.first, in, out, q.fee)
                       = AmountIn(q.first, in, out, q.fee)
                  /\ ScreenAmountIn(q.first, in, out, q.fee)
                       = AmountIn(q.first, in, out, q.fee)
            /\ \A supply \in {1, in + out} :
                  /\ CalcLpTokensMinted(q.first, q.second, in, out, supply)
                       = ProRataShares(q.first, q.second, in, out, supply)
                  /\ ScreenLpTokensMinted(q.first, q.second, in, out, supply)
                       = ProRataShares(q.first, q.second, in, out, supply)
                  /\ CalcLpTokensBurnedOk(q.first, supply)
                       <=> LiquidityRatioOk(q.first, supply, in, out)
                  /\ CalcLpTokensBurned(q.first, supply, in)
                       = ShareOf(q.first, supply, in)
            /\ IsIntegerSqrt(RootOf(q.first * q.second), q.first * q.second)
            /\ CalcLpTokensMintedOk(q.first, q.second, 0, 0, 0)
                 <=> ScreenLpTokensMinted(q.first, q.second, 0, 0, 0) > 0

-----------------------------------------------------------------------------
D == ComputeD(q.x, q.y, q.a)

\* compute_d never settles below the D of the balances, wherever its iteration
\* stops and whatever it rounds off, so the curve that an exchange or a
\* withdrawal is computed from is never below the pool's own.
DIsNotBelow == q.pool = "stable" => ~OnOrAbove(q.x, q.y, q.a, D + 1)

\* compute_y settles within two units below the balance that keeps D, and never
\* above it: of those two the code keeps one back by the -1 of its callers.
YIsOnCurve ==
    q.pool = "stable" =>
        \E d \in {D} : \E newY \in {ComputeY(q.x + q.dx, q.a, d)} :
            /\ OnOrAbove(q.x + q.dx, newY + 2, q.a, d)
            /\ newY > 0 => ~OnOrAbove(q.x + q.dx, newY - 1, q.a, d)

\* What exchange takes its fee off for q.dx of coin i, when the pool has q.x of
\* that coin and q.y of the other.
ExchangeGross(i) ==
    q.y - ComputeY(ComputedFrom(i, q.x, q.y, q.dx), q.a, D) - 1

\* From coin 1 to coin 0 the backend's quote is what the contract's exchange pays,
\* with any fee, and what it shows for a deposit or a withdrawal is how far the
\* contract's D moves, or nothing where that one falls although the coins are
\* more.  From coin 0 to coin 1 exchange computes from the wrong balance and the
\* quote, which is the same, is not what it pays.
StableQuotesAgree ==
    q.pool = "stable" =>
        LET gross == ExchangeGross(1)
            more == ComputeD(q.x + q.dx, q.y, q.a)
        IN  /\ GetD(q.x, q.y, q.a) = D
            /\ CalculateSwap(q.dx, q.x, q.y, q.a, 0) = gross
            /\ \A fee \in 1..FEE_DENOMINATOR :
                  CalculateSwap(q.dx, q.x, q.y, q.a, fee)
                    = gross - RustQuotient(gross * fee, FEE_DENOMINATOR)
            /\ CalculateTokenAmount(q.dx, 0, q.x, q.y, q.a, TRUE)
                 = IF more > D THEN more - D ELSE 0
            /\ CalculateTokenAmount(q.dx, 0, q.x + q.dx, q.y, q.a, FALSE)
                 = CalculateTokenAmount(q.dx, 0, q.x, q.y, q.a, TRUE)

-----------------------------------------------------------------------------
\* A step of a swap in a concentrated pool ends between its two prices, and
\* what it takes, the fee on the whole amount included, is never more than was
\* offered, whichever of its roundings it meets.
StepStaysInRange ==
    q.pool = "concentrated" =>
        LET step == ComputeSwapStep(q.price, q.target, q.liquidity, q.amount, q.fee)
        IN  /\ step.sqrtPNext \in Low(q.price, q.target)..High(q.price, q.target)
            /\ step.amountIn + step.feeAmount <= q.amount
=============================================================================
