---------------------------- MODULE IntegerSqrt ----------------------------
(***************************************************************************)
(* integer_sqrt of contracts/constant-product-pool/src/math.rs, which the  *)
(* first deposit calls with the product of its amounts: Newton's iteration *)
(* from above, with the unchecked + of the source.  One action is one test *)
(* of the loop condition with the body it leads to.                        *)
(***************************************************************************)
EXTENDS ConstantProductMath

VARIABLES
    x,       \* the argument
    r,       \* the loop variable
    done     \* the function has returned r

sqrtVars == <<x, r, done>>

SqrtTypeOK ==
    /\ x \in 0..I128Max
    /\ r \in I128
    /\ done \in BOOLEAN

SqrtInit ==
    /\ x \in 0..I128Max
    /\ r = x
    /\ done = FALSE

\* x = 0 returns 0 before the loop.
ReturnZero ==
    /\ ~done
    /\ x = 0
    /\ done' = TRUE
    /\ UNCHANGED <<x, r>>

Descend ==
    /\ ~done
    /\ x # 0
    /\ r > RustQuotient(x, r)
    /\ LET next == RustQuotient(Wrap(r + RustQuotient(x, r)), 2)
       IN  IF next >= r THEN /\ done' = TRUE          \* break
                             /\ UNCHANGED <<x, r>>
                        ELSE /\ r' = next
                             /\ UNCHANGED <<x, done>>

\* Mutant: the loop is left one step early.
ReturnAbove ==
    /\ ~done
    /\ x # 0
    /\ r <= RustQuotient(x, r) + 1
    /\ done' = TRUE
    /\ UNCHANGED <<x, r>>

\* Mutant: the loop is left only below the root.
ReturnBelow ==
    /\ ~done
    /\ x # 0
    /\ r < RustQuotient(x, r)
    /\ done' = TRUE
    /\ UNCHANGED <<x, r>>

Return ==
    /\ ~done
    /\ x # 0
    /\ r <= RustQuotient(x, r)
    /\ done' = TRUE
    /\ UNCHANGED <<x, r>>

SqrtNext == ReturnZero \/ Descend \/ Return

\* The function is one host call: it runs on until it returns.
SqrtSpec == SqrtInit /\ [][SqrtNext]_sqrtVars /\ WF_sqrtVars(SqrtNext)

-----------------------------------------------------------------------------
\* The result is the integer square root of every argument below the limit.
ReturnsRoot == done /\ x < I128Max => IsIntegerSqrt(r, x)

\* At the limit the first sum wraps and the result is negative, so that
\* calc_lp_tokens refuses it (FirstSharesOk).
LimitIsRefused == done /\ x = I128Max => r < 0

\* The iteration stays between the root and the argument, which is why it may
\* stop as soon as r <= x / r, why its sums do not wrap and why it never takes
\* the break.  At the limit it takes one step, below zero, and no other (an
\* inductive invariant).
RootFromAbove ==
    /\ SqrtTypeOK
    /\ x < I128Max =>
          /\ r \in 0..x
          /\ x > 0 => r > 0
          /\ x < (r + 1) * (r + 1)
          /\ done => r * r <= x
    /\ x = I128Max =>
          /\ r \in {x, -((x + 1) \div 2)}
          /\ done => r # x

\* The iteration ends for every argument.
Terminates == <>done
=============================================================================
