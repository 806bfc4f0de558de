--------------------------- MODULE StableSwapMath ---------------------------
(***************************************************************************)
(* contracts/stableswap-pool/src/invariant.rs for two coins: the invariant *)
(* D of two balances, and the balance of one coin that keeps D, both by    *)
(* Newton's iteration with a bound on its rounds.  Sums and products are   *)
(* unchecked unless the code says otherwise.                               *)
(***************************************************************************)
EXTENDS HostInteger

CONSTANT MaxRounds        \* 256, the bound of both loops

ASSUME MaxRoundsAssumption == MaxRounds \in Nat \ {0}

\* How often a value can be halved before nothing is left of it.
Halvings[v \in 0..I128Max] == IF v = 0 THEN 0 ELSE 1 + Halvings[v \div 2]

\* The rounds outnumber the bits of i128.
ASSUME RoundsAssumption == Halvings[I128Max] + 1 < MaxRounds

Distance(v, w) == IF v < w THEN w - v ELSE v - w

\* checked_mul(..).unwrap_or(i128::MAX).checked_div(d).unwrap_or(1)
ScaledDown(v, w, d) ==
    IF d = 0 THEN 1 ELSE RustQuotient(IF Fits(v * w) THEN v * w ELSE I128Max, d)

\* The next value of a loop; one whose divisor is zero keeps its value.
NextValue(v, numerator, denominator) ==
    IF denominator = 0 THEN v ELSE RustQuotient(numerator, denominator)

\* Mutant: a step of three is taken for the last one.
ConvergedEarly(v, w) == Distance(v, w) <= 3

Converged(v, w) == Distance(v, w) <= 1

\* Both loops end when a round changes the value by at most one, or with the
\* last round.
Iterated(Next, start) ==
    LET run[s \in [round : 1..MaxRounds, value : Int]] ==
            LET next == Next[s.value]
            IN  IF s.round = MaxRounds \/ Converged(s.value, next) THEN next
                ELSE run[[round |-> s.round + 1, value |-> next]]
    IN  run[[round |-> 1, value |-> start]]

\* Mutant: the number of coins is left out.
BalanceOnce(x) == x

\* n * x, what each coin divides a power of D by.
BalanceTimesN(x) == WrapProduct(2 * x)

\* ann = A * n^n
Ann(a) == WrapProduct(4 * a)

\* compute_d: A * 4 * (x + y) + D = A * D * 4 + D^3 / (4 * x * y)
ComputeD(x, y, a) ==
    LET sum == Wrap(x + y)
        ann == Ann(a)
        Next[d \in Int] ==
            LET dp == ScaledDown(ScaledDown(d, d, BalanceTimesN(x)), d, BalanceTimesN(y))
            IN  NextValue(d, WrapProduct((ann * sum + 2 * dp) * d),
                             WrapProduct((ann - 1) * d + 3 * dp))
    IN  IF sum = 0 THEN 0 ELSE Iterated(Next, sum)

\* compute_y traps where it divides by ann = 0.
ComputeYOk(a) == Ann(a) # 0

\* compute_y: what one coin's balance is when the other's is x.
ComputeY(x, a, d) ==
    LET c == ScaledDown(ScaledDown(d, d, BalanceTimesN(x)), d, WrapProduct(2 * Ann(a)))
        b == Wrap(x + RustQuotient(d, Ann(a)))
        Next[y \in Int] == NextValue(y, WrapProduct(y * y + c),
                                        WrapProduct(2 * y + b - d))
    IN  Iterated(Next, d)

\* The balance that exchange computes the new one of the coin it pays from, when
\* dx of coin i comes in, of which the pool has x, for the other, of which it has
\* y.  The code lays the balances out with coin i first, but tells compute_y to
\* leave out place i: for i = 0 that is the coin paid in, and what is left is
\* coin 1 as it was.
ComputedFrom(i, x, y, dx) == IF i = 0 THEN y ELSE Wrap(x + dx)

-----------------------------------------------------------------------------
\* The balances x and y are on the curve of d or above it: the D that solves
\* the invariant for them is at least d.
OnOrAbove(x, y, a, d) ==
    d * d * d + 4 * x * y * ((4 * a - 1) * d - 4 * a * (x + y)) <= 0
=============================================================================
