------------------------ MODULE StableSwapPoolProof ------------------------
(***************************************************************************)
(* The coefficient A of a stable pool neither jumps nor turns back, for    *)
(* every set of coefficients, shortest ramp and timestamp.  The argument   *)
(* is that A starts at a0, reaches a1 no later than t1, and that a larger  *)
(* elapsed time never makes the rounded-off progress smaller.  The pool    *)
(* inherits this: its steps are steps of the ramp, or leave it alone.      *)
(*                                                                         *)
(* The pool holds what it records, because it pays at least one unit less  *)
(* than the record falls by; and a withdrawal leaves it near the curve     *)
(* that is in proportion to the remaining shares, because compute_y ends   *)
(* on one side of its solution wherever compute_d has ended.               *)
(***************************************************************************)
EXTENDS StableSwapPool, ProofLemmas

\* When a ramp is under way, it started in the past.
AmpInv ==
    /\ AmpTypeOK
    /\ t0 <= now
    /\ t0 <= t1

-----------------------------------------------------------------------------
\* Rounding quotients down keeps their order.
LEMMA QuotientsCompare ==
    ASSUME NEW m \in Nat, NEW n \in Nat, NEW d \in Nat, d > 0, m <= n
    PROVE  m \div d <= n \div d
<1> DEFINE p == m \div d
           q == n \div d
<1>1. p \in Nat /\ p * d <= m
  BY Rounded
<1>2. q \in Nat /\ n < q * d + d
  BY Rounded
<1> HIDE DEF p, q
<1>3. p <= q
  <2> SUFFICES ASSUME q < p PROVE FALSE
    BY <1>1, <1>2
  <2>1. q + 1 \in Nat /\ q + 1 <= p
    BY <1>1, <1>2
  <2>2. (q + 1) * d <= p * d
    BY <2>1, <1>1, ProductsCompare
  <2>3. (q + 1) * d = q * d + d
    BY <1>2
  <2>4. p * d \in Nat /\ q * d \in Nat
    BY <1>1, <1>2
  <2>5. QED BY <1>1, <1>2, <2>2, <2>3, <2>4
<1>4. QED BY <1>3 DEF p, q

\* No product of a ramp wraps.
LEMMA RampFits ==
    ASSUME NEW change \in 0..MaxA, NEW elapsed \in 0..MaxTime
    PROVE  (change * elapsed) % U128Modulus = change * elapsed
<1>1. /\ MaxA \in Nat /\ MaxTime \in Nat /\ U128Modulus \in Nat
      /\ MaxA * MaxTime < U128Modulus
  BY CoefficientAssumption, MaxTimeAssumption, U128ModulusAssumption
<1>2. change \in Nat /\ elapsed \in Nat /\ change <= MaxA /\ elapsed <= MaxTime
  BY <1>1
<1>3. change * elapsed <= MaxA * MaxTime
  BY <1>1, <1>2, ProductsCompare
<1>4. change * elapsed \in Nat /\ MaxA * MaxTime \in Nat
  BY <1>1, <1>2
<1>5. change * elapsed < U128Modulus
  BY <1>1, <1>3, <1>4
<1>6. \A n \in Nat, k \in Nat : n < k => n % k = n
  OBVIOUS
<1>7. QED BY <1>1, <1>4, <1>5, <1>6

\* Progress grows with the time elapsed, from nothing to at most the change.
LEMMA ProgressGrows ==
    ASSUME NEW change \in 0..MaxA, NEW e \in 0..MaxTime, NEW f \in 0..MaxTime,
           NEW total \in Nat, total > 0, e <= f, f <= total
    PROVE  /\ Progress(change, e, total) \in Nat
           /\ Progress(change, e, total) <= Progress(change, f, total)
           /\ Progress(change, f, total) <= change
           /\ Progress(change, f, total) \in Nat
<1>1. MaxA \in Nat /\ MaxTime \in Nat
  BY CoefficientAssumption, MaxTimeAssumption
<1>2. change \in Nat /\ e \in Nat /\ f \in Nat
  BY <1>1
<1>3. change * e <= change * f /\ change * f <= change * total
  BY <1>2, ProductsCompare
<1>4. change * e \in Nat /\ change * f \in Nat /\ change * total \in Nat
  BY <1>2
<1>5. /\ Progress(change, e, total) = (change * e) \div total
      /\ Progress(change, f, total) = (change * f) \div total
  BY RampFits DEF Progress
<1>6. (change * e) \div total \in Nat /\ (change * f) \div total \in Nat
  BY <1>4, Rounded
<1>7. (change * e) \div total <= (change * f) \div total
  BY <1>3, <1>4, QuotientsCompare
<1>8. (change * f) \div total <= (change * total) \div total
  BY <1>3, <1>4, QuotientsCompare
<1>9. (change * total) \div total = change
  <2>1. \A n \in Nat, d \in Nat : d > 0 => (n * d) \div d = n
    OBVIOUS
  <2>2. QED BY <2>1, <1>2
<1>10. QED BY <1>5, <1>6, <1>7, <1>8, <1>9

\* The progress of no time is none.
LEMMA NoProgress ==
    ASSUME NEW change \in 0..MaxA, NEW total \in Nat, total > 0
    PROVE  Progress(change, 0, total) = 0
<1>1. change \in Nat /\ change * 0 = 0
  BY CoefficientAssumption
<1>2. 0 % U128Modulus = 0
  BY U128ModulusAssumption
<1>3. 0 \div total = 0
  OBVIOUS
<1>4. QED BY <1>1, <1>2, <1>3 DEF Progress

-----------------------------------------------------------------------------
\* On a ramp A is between its ends; elsewhere it is the last end.
LEMMA CurrentAIsBetween ==
    ASSUME AmpInv
    PROVE  CurrentA \in 0..MaxA /\ (now < t1 => Between(CurrentA, a0, a1))
<1>1. /\ MaxA \in Nat /\ MaxTime \in Nat
      /\ a0 \in Nat /\ a0 <= MaxA /\ a1 \in Nat /\ a1 <= MaxA
      /\ t0 \in Nat /\ t1 \in Nat /\ now \in Nat
      /\ t1 <= MaxTime /\ now <= MaxTime /\ t0 <= now /\ t0 <= t1
  BY CoefficientAssumption, MaxTimeAssumption DEF AmpInv, AmpTypeOK
<1>2. CASE now >= t1 \/ t1 = t0
  BY <1>1, <1>2 DEF CurrentA
<1>3. CASE ~(now >= t1 \/ t1 = t0)
  <2>1. /\ now - t0 \in 0..MaxTime /\ t1 - t0 \in Nat /\ t1 - t0 > 0
        /\ now - t0 <= t1 - t0
    BY <1>1, <1>3
  <2>2. CASE a1 > a0
    <3>1. a1 - a0 \in 0..MaxA
      BY <1>1, <2>2
    <3>2. /\ Progress(a1 - a0, now - t0, t1 - t0) \in Nat
          /\ Progress(a1 - a0, now - t0, t1 - t0) <= a1 - a0
      BY <2>1, <3>1, ProgressGrows
    <3>3. CurrentA = a0 + Progress(a1 - a0, now - t0, t1 - t0)
      BY <1>3, <2>2 DEF CurrentA
    <3>4. QED BY <1>1, <3>2, <3>3 DEF Between
  <2>3. CASE ~(a1 > a0)
    <3>1. a0 - a1 \in 0..MaxA
      BY <1>1, <2>3
    <3>2. /\ Progress(a0 - a1, now - t0, t1 - t0) \in Nat
          /\ Progress(a0 - a1, now - t0, t1 - t0) <= a0 - a1
      BY <2>1, <3>1, ProgressGrows
    <3>3. CurrentA = a0 - Progress(a0 - a1, now - t0, t1 - t0)
      BY <1>3, <2>3 DEF CurrentA
    <3>4. QED BY <1>1, <3>2, <3>3 DEF Between
  <2>4. QED BY <2>2, <2>3
<1>4. QED BY <1>2, <1>3

LEMMA AmpStepKeepsInv ==
    ASSUME AmpInv, [AmpNext]_ampVars
    PROVE  AmpInv'
<1>1. MaxA \in Nat /\ MaxTime \in Nat /\ Coefficients \subseteq 0..MaxA
  BY CoefficientAssumption, MaxTimeAssumption
<1>2. ASSUME NEW a \in Coefficients, SetInitialA(a)
      PROVE  AmpInv'
  BY <1>1, <1>2 DEF AmpInv, AmpTypeOK, SetInitialA
<1>3. ASSUME NEW a \in Coefficients, NEW t \in 0..MaxTime, RampA(a, t)
      PROVE  AmpInv'
  <2>1. CurrentA \in 0..MaxA
    BY CurrentAIsBetween
  <2>2. t >= now
    BY <1>1, <1>3, MinRampTimeAssumption DEF AmpInv, AmpTypeOK, RampA
  <2>3. QED BY <1>1, <1>3, <2>1, <2>2 DEF AmpInv, AmpTypeOK, RampA
<1>4. CASE TimePasses
  BY <1>1, <1>4 DEF AmpInv, AmpTypeOK, TimePasses
<1>5. CASE UNCHANGED ampVars
  BY <1>5 DEF AmpInv, AmpTypeOK, ampVars
<1>6. QED BY <1>2, <1>3, <1>4, <1>5 DEF AmpNext

LEMMA AmpInitInv == AmpInit => AmpInv
<1>1. MaxA \in Nat /\ MaxTime \in Nat
  BY CoefficientAssumption, MaxTimeAssumption
<1>2. SUFFICES ASSUME AmpInit PROVE AmpInv
  OBVIOUS
<1>3. initialized \in BOOLEAN
  BY <1>2 DEF AmpInit
<1>4. a0 = 0 /\ t0 = 0 /\ a1 = 0 /\ t1 = 0 /\ now = 0
  BY <1>2 DEF AmpInit
<1>5. QED BY <1>1, <1>3, <1>4 DEF AmpInv, AmpTypeOK

\* What a ramp starts with is the A it finds.
LEMMA RampStartsAtCurrentA ==
    ASSUME AmpInv, NEW a \in Coefficients, NEW t \in 0..MaxTime, RampA(a, t)
    PROVE  CurrentA' = CurrentA
<1>1. /\ MaxA \in Nat /\ MaxTime \in Nat /\ a \in 0..MaxA /\ now \in Nat
      /\ t \in Nat
  BY CoefficientAssumption, MaxTimeAssumption DEF AmpInv, AmpTypeOK
<1>2. /\ a0' = CurrentA /\ t0' = now /\ a1' = a /\ t1' = t /\ now' = now
      /\ t > now
  BY <1>1, MinRampTimeAssumption DEF RampA
<1>3. CurrentA \in 0..MaxA /\ CurrentA \in Nat
  BY <1>1, CurrentAIsBetween
<1>4. t - now \in Nat /\ t - now > 0 /\ now - now = 0
  BY <1>1, <1>2
<1>5. ~(now' >= t1' \/ t1' = t0')
  BY <1>1, <1>2
<1>6. CASE a1' > a0'
  <2>1. a - CurrentA \in 0..MaxA
    BY <1>1, <1>2, <1>3, <1>6
  <2>2. Progress(a1 - a0, now - t0, t1 - t0)' = 0
    BY <1>2, <1>4, <2>1, NoProgress DEF Progress
  <2>3. QED BY <1>2, <1>3, <1>5, <1>6, <2>2 DEF CurrentA
<1>7. CASE ~(a1' > a0')
  <2>1. CurrentA - a \in 0..MaxA
    BY <1>1, <1>2, <1>3, <1>7
  <2>2. Progress(a0 - a1, now - t0, t1 - t0)' = 0
    BY <1>2, <1>4, <2>1, NoProgress DEF Progress
  <2>3. QED BY <1>2, <1>3, <1>5, <1>7, <2>2 DEF CurrentA
<1>8. QED BY <1>6, <1>7

\* A tick moves A towards the end of the ramp.
LEMMA TickMovesTowardsEnd ==
    ASSUME AmpInv, TimePasses
    PROVE  Between(CurrentA', CurrentA, a1)
<1>1. /\ MaxA \in Nat /\ MaxTime \in Nat
      /\ a0 \in Nat /\ a0 <= MaxA /\ a1 \in Nat /\ a1 <= MaxA
      /\ t0 \in Nat /\ t1 \in Nat /\ now \in Nat
      /\ t1 <= MaxTime /\ now <= MaxTime /\ t0 <= now /\ t0 <= t1
  BY CoefficientAssumption, MaxTimeAssumption DEF AmpInv, AmpTypeOK
<1>2. /\ now' = now + 1 /\ now < MaxTime
      /\ a0' = a0 /\ a1' = a1 /\ t0' = t0 /\ t1' = t1
  BY DEF TimePasses
<1>3. CurrentA \in Nat
  BY <1>1, CurrentAIsBetween
<1>4. CASE now + 1 >= t1 \/ t1 = t0
  <2>1. CurrentA' = a1
    BY <1>2, <1>4 DEF CurrentA
  <2>2. QED BY <1>1, <1>3, <2>1 DEF Between
<1>5. CASE ~(now + 1 >= t1 \/ t1 = t0)
  <2>1. /\ now - t0 \in 0..MaxTime /\ now + 1 - t0 \in 0..MaxTime
        /\ t1 - t0 \in Nat /\ t1 - t0 > 0
        /\ now - t0 <= now + 1 - t0 /\ now + 1 - t0 <= t1 - t0
        /\ ~(now >= t1 \/ t1 = t0)
    BY <1>1, <1>2, <1>5
  <2>2. CASE a1 > a0
    <3>1. a1 - a0 \in 0..MaxA
      BY <1>1, <2>2
    <3>2. /\ Progress(a1 - a0, now - t0, t1 - t0) \in Nat
          /\ Progress(a1 - a0, now + 1 - t0, t1 - t0) \in Nat
          /\ Progress(a1 - a0, now - t0, t1 - t0)
                <= Progress(a1 - a0, now + 1 - t0, t1 - t0)
          /\ Progress(a1 - a0, now + 1 - t0, t1 - t0) <= a1 - a0
      BY <2>1, <3>1, ProgressGrows
    <3>3. CurrentA = a0 + Progress(a1 - a0, now - t0, t1 - t0)
      BY <2>1, <2>2 DEF CurrentA
    <3>4. CurrentA' = a0 + Progress(a1 - a0, now + 1 - t0, t1 - t0)
      <4>1. ~(now' >= t1' \/ t1' = t0') /\ a1' > a0'
        BY <1>1, <1>2, <1>5, <2>2
      <4>2. CurrentA' = a0' + Progress(a1 - a0, now - t0, t1 - t0)'
        BY <4>1 DEF CurrentA
      <4>3. Progress(a1 - a0, now - t0, t1 - t0)'
              = Progress(a1 - a0, now + 1 - t0, t1 - t0)
        <5>1. /\ a1' - a0' = a1 - a0 /\ now' - t0' = now + 1 - t0
              /\ t1' - t0' = t1 - t0
          BY <1>1, <1>2
        <5>2. QED BY <5>1, Zenon DEF Progress
      <4>4. QED BY <1>2, <4>2, <4>3
    <3>5. CurrentA <= CurrentA' /\ CurrentA' <= a1
      BY <1>1, <3>2, <3>3, <3>4
    <3>6. QED BY <3>5 DEF Between
  <2>3. CASE ~(a1 > a0)
    <3>1. a0 - a1 \in 0..MaxA
      BY <1>1, <2>3
    <3>2. /\ Progress(a0 - a1, now - t0, t1 - t0) \in Nat
          /\ Progress(a0 - a1, now + 1 - t0, t1 - t0) \in Nat
          /\ Progress(a0 - a1, now - t0, t1 - t0)
                <= Progress(a0 - a1, now + 1 - t0, t1 - t0)
          /\ Progress(a0 - a1, now + 1 - t0, t1 - t0) <= a0 - a1
      BY <2>1, <3>1, ProgressGrows
    <3>3. CurrentA = a0 - Progress(a0 - a1, now - t0, t1 - t0)
      BY <2>1, <2>3 DEF CurrentA
    <3>4. CurrentA' = a0 - Progress(a0 - a1, now + 1 - t0, t1 - t0)
      <4>1. ~(now' >= t1' \/ t1' = t0') /\ ~(a1' > a0')
        BY <1>1, <1>2, <1>5, <2>3
      <4>2. CurrentA' = a0' - Progress(a0 - a1, now - t0, t1 - t0)'
        BY <4>1 DEF CurrentA
      <4>3. Progress(a0 - a1, now - t0, t1 - t0)'
              = Progress(a0 - a1, now + 1 - t0, t1 - t0)
        <5>1. /\ a0' - a1' = a0 - a1 /\ now' - t0' = now + 1 - t0
              /\ t1' - t0' = t1 - t0
          BY <1>1, <1>2
        <5>2. QED BY <5>1, Zenon DEF Progress
      <4>4. QED BY <1>2, <4>2, <4>3
    <3>5. a1 <= CurrentA' /\ CurrentA' <= CurrentA
      BY <1>1, <3>2, <3>3, <3>4
    <3>6. QED BY <3>5 DEF Between
  <2>4. QED BY <2>2, <2>3
<1>6. QED BY <1>4, <1>5

-----------------------------------------------------------------------------
\* Both facts about a step of the ramp from a state of the invariant.
LEMMA AmpStep ==
    ASSUME AmpInv, [AmpNext]_ampVars
    PROVE  /\ now' = now /\ initialized => CurrentA' = CurrentA
           /\ now' # now => Between(CurrentA', CurrentA, a1)
<1>1. ASSUME NEW a \in Coefficients, SetInitialA(a)
      PROVE  now' = now /\ ~initialized
  BY <1>1 DEF SetInitialA
<1>2. ASSUME NEW a \in Coefficients, NEW t \in 0..MaxTime, RampA(a, t)
      PROVE  now' = now /\ CurrentA' = CurrentA
  BY <1>2, RampStartsAtCurrentA DEF RampA
<1>3. CASE TimePasses
  <2>1. now \in Int /\ now' = now + 1
    BY <1>3, MaxTimeAssumption DEF AmpInv, AmpTypeOK, TimePasses
  <2>2. now' # now
    BY <2>1
  <2>3. QED BY <1>3, <2>2, TickMovesTowardsEnd
<1>4. CASE UNCHANGED ampVars
  BY <1>4 DEF ampVars, CurrentA
<1>5. QED BY <1>1, <1>2, <1>3, <1>4 DEF AmpNext

\* Every call of the pool and every tick of the ledger is a step of the ramp or
\* leaves the ramp alone.
LEMMA StableStepIsRampStep ==
    ASSUME [StableNext]_stableVars
    PROVE  [AmpNext]_ampVars
<1>1. ASSUME NEW f \in Fees, NEW a \in Coefficients, InitializeStable(f, a)
      PROVE  AmpNext
  BY <1>1 DEF InitializeStable, AmpNext
<1>2. ASSUME NEW u \in Users, NEW a \in [Coin -> DepositAmounts],
             NEW m \in Minimums, NEW t \in LeadTimes,
             AddLiquidity(u, a, m, now + t)
      PROVE  UNCHANGED ampVars
  BY <1>2 DEF AddLiquidity
<1>3. ASSUME NEW u \in Users, NEW n \in ShareAmounts, NEW c \in Coin,
             NEW m \in Minimums, RemoveLiquidityOneCoin(u, n, c, m)
      PROVE  UNCHANGED ampVars
  BY <1>3 DEF RemoveLiquidityOneCoin
<1>4. ASSUME NEW u \in Users, NEW i \in Coin, NEW n \in TradeAmounts,
             NEW m \in Minimums, NEW r \in Users \cup {Pool},
             Exchange(u, i, n, m, r)
      PROVE  UNCHANGED ampVars
  BY <1>4 DEF Exchange
<1>5. ASSUME NEW a \in Coefficients, NEW t \in 0..MaxTime, RampStable(a, t)
      PROVE  AmpNext
  BY <1>5 DEF RampStable, AmpNext
<1>6. CASE TickStable
  BY <1>6 DEF TickStable, AmpNext
<1>7. CASE UNCHANGED stableVars
  BY <1>7 DEF stableVars
<1>8. QED BY <1>1, <1>2, <1>3, <1>4, <1>5, <1>6, <1>7 DEF StableNext

\* The pool implements Amplification: it does to its coefficient what a ramp
\* does.
THEOREM StablePoolImplementsRamp == StableSpec => AmpSpec
<1>1. StableInit => AmpInit
  BY DEF StableInit
<1>2. [StableNext]_stableVars => [AmpNext]_ampVars
  BY StableStepIsRampStep
<1>3. QED BY <1>1, <1>2, PTL DEF StableSpec, AmpSpec

\* What is known of the ramp holds in every state.
LEMMA RampInvariant == AmpSpec => []AmpInv
<1>1. AmpInit => AmpInv
  BY AmpInitInv
<1>2. AmpInv /\ [AmpNext]_ampVars => AmpInv'
  BY AmpStepKeepsInv
<1>3. QED BY <1>1, <1>2, PTL DEF AmpSpec

\* A never jumps: a ramp starts where A is, also in the middle of another.
THEOREM StableRampIsContinuous == StableSpec => RampIsContinuous
<1>1. AmpInv /\ [AmpNext]_ampVars
        => [now' = now /\ initialized => CurrentA' = CurrentA]_ampVars
  BY AmpStep
<1>2. QED
  BY <1>1, RampInvariant, StablePoolImplementsRamp, PTL
     DEF AmpSpec, RampIsContinuous

\* A moves towards the end of its ramp, never past it and never back.
THEOREM StableRampIsGradual == StableSpec => RampIsGradual
<1>1. AmpInv /\ [AmpNext]_ampVars
        => [now' # now => Between(CurrentA', CurrentA, a1)]_ampVars
  BY AmpStep
<1>2. QED
  BY <1>1, RampInvariant, StablePoolImplementsRamp, PTL
     DEF AmpSpec, RampIsGradual

-----------------------------------------------------------------------------
(* What the iterations return, whatever they are given.                      *)

Magnitudes == -(I128Max + 1)..(I128Max + 1)

LEMMA QuotientInWidth ==
    ASSUME NEW n \in Magnitudes, NEW d \in Int, d # 0
    PROVE  RustQuotient(n, d) \in Magnitudes
<1> DEFINE mag(v) == IF v < 0 THEN -v ELSE v
<1>1. PICK M \in Nat : M = I128Max + 1 /\ Magnitudes = -M..M
  BY I128MaxAssumption DEF Magnitudes
<1>2. mag(n) \in Nat /\ mag(d) \in Nat \ {0} /\ mag(n) <= M
  BY <1>1
<1> HIDE DEF mag
<1>3. PICK k \in Nat : k = mag(n) \div mag(d) /\ k <= mag(n)
  <2>1. mag(n) \div mag(d) \in Nat /\ (mag(n) \div mag(d)) * mag(d) <= mag(n)
    BY <1>2, Rounded
  <2>2. (mag(n) \div mag(d)) * 1 <= (mag(n) \div mag(d)) * mag(d)
    BY <1>2, <2>1, ProductsCompare
  <2>3. (mag(n) \div mag(d)) * mag(d) \in Nat
    BY <1>2, <2>1
  <2>4. QED BY <1>2, <2>1, <2>2, <2>3
<1>4. RustQuotient(n, d) = IF (n < 0) = (d < 0) THEN k ELSE -k
  BY <1>3 DEF RustQuotient, mag
<1>5. QED BY <1>1, <1>2, <1>3, <1>4

LEMMA ProductInWidth ==
    ASSUME NEW v \in Int
    PROVE  WrapProduct(v) \in Magnitudes /\ WrapProduct(v) \in Int
<1>1. PICK M \in Nat \ {0} : M = I128Max + 1 /\ I128Max = M - 1
  BY I128MaxAssumption
<1>2. (v + M) % (2 * M) \in 0..(2 * M - 1)
  OBVIOUS
<1>3. v + I128Max + 1 = v + M
  BY <1>1
<1>4. WrapProduct(v) = ((v + M) % (2 * M)) - M
  <2>1. \A r \in Int : r - I128Max - 1 = r - M
    BY <1>1
  <2>2. QED BY <1>1, <1>2, <1>3, <2>1 DEF WrapProduct
<1>5. QED BY <1>1, <1>2, <1>4 DEF Magnitudes

\* A loop stays among values that its rounds do not leave.
LEMMA IteratedStays ==
    ASSUME NEW next, next \in [Int -> Int], NEW Good, Good \subseteq Int,
           \A v \in Good : next[v] \in Good, NEW start \in Good
    PROVE  Iterated(next, start) \in Good
<1>1. PICK f : /\ IsRun(f, next, MaxRounds, SettledAt(next))
               /\ Iterated(next, start) = f[StateAt(1, start)]
  BY IteratedRuns
<1>2. PICK ends : ends = SettledAt(next)
  OBVIOUS
<1>3. IsRun(f, next, MaxRounds, ends) /\ MaxRounds \in Nat \ {0} /\ Good \subseteq DOMAIN next
  BY <1>1, <1>2, MaxRoundsAssumption
<1>4. \A v \in Good : v \notin ends => next[v] \in Good
  OBVIOUS
<1>5. \E v \in Good : f[StateAt(1, start)] = next[v]
  <2>1. PICK rounds \in Nat \ {0} : rounds = MaxRounds
    BY <1>3
  <2>2. IsRun(f, next, rounds, ends) /\ Good \subseteq DOMAIN next
    BY <1>3, <2>1
  <2> HIDE DEF IsRun
  <2>3. QED BY ONLY <1>4, <2>2, RunResult
<1>6. QED BY <1>1, <1>5

\* A round ends where no product is wider than i128, or changes nothing.
LEMMA NextInWidth ==
    ASSUME NEW v \in Magnitudes, NEW n \in Int, NEW d \in Int
    PROVE  NextValue(v, WrapProduct(n), WrapProduct(d)) \in Magnitudes
BY ProductInWidth, QuotientInWidth DEF NextValue

LEMMA MagnitudesAreIntegers == Magnitudes \subseteq Int
BY I128MaxAssumption DEF Magnitudes

LEMMA ComputeDInWidth ==
    ASSUME NEW x \in Int, NEW y \in Int, NEW a \in Int
    PROVE  /\ ComputeD(x, y, a) \in Int
           /\ Wrap(x + y) \in Magnitudes => ComputeD(x, y, a) \in Magnitudes
<1>1. PICK next \in [Int -> Int], sum \in Int : next = DNext(x, y, a) /\ sum = Wrap(x + y)
  <2>1. x + y \in Int
    OBVIOUS
  <2>2. QED BY <2>1, DNextInteger, WrappedInteger
<1>2. ComputeD(x, y, a) = IF sum = 0 THEN 0 ELSE Iterated(next, sum)
  BY <1>1, ComputeDIterates
<1>3. Iterated(next, sum) \in Int
  <2>1. \A v \in Int : next[v] \in Int
    OBVIOUS
  <2>2. QED BY <2>1, IteratedStays
<1>4. sum \in Magnitudes => Iterated(next, sum) \in Magnitudes
  <2>1. ASSUME NEW v \in Magnitudes PROVE next[v] \in Magnitudes
    <3>1. v \in Int
      BY MagnitudesAreIntegers
    <3>2. PICK dp \in Int, ann1 \in Int :
             /\ dp = ScaledDown(ScaledDown(v, v, BalanceTimesN(x)), v, BalanceTimesN(y))
             /\ ann1 = Ann(a)
      <4>1. BalanceTimesN(x) \in Int /\ BalanceTimesN(y) \in Int /\ Ann(a) \in Int
        BY WrappedInteger DEF BalanceTimesN, Ann
      <4>2. QED BY <3>1, <4>1, ScaledInteger
    <3>3. (ann1 * sum + 2 * dp) * v \in Int /\ (ann1 - 1) * v + 3 * dp \in Int
      BY <3>1
    <3>4. next[v] = NextValue(v, WrapProduct((ann1 * sum + 2 * dp) * v),
                                 WrapProduct((ann1 - 1) * v + 3 * dp))
      BY <1>1, <3>1, <3>2 DEF DNext
    <3>5. QED BY <3>3, <3>4, NextInWidth
  <2>2. \A v \in Magnitudes : next[v] \in Magnitudes
    BY <2>1
  <2>3. QED BY <2>2, MagnitudesAreIntegers, IteratedStays
<1>5. 0 \in Magnitudes
  BY I128MaxAssumption DEF Magnitudes
<1>6. QED BY <1>1, <1>2, <1>3, <1>4, <1>5

LEMMA ComputeYInWidth ==
    ASSUME NEW x \in Int, NEW a \in Int, NEW d \in Int, ComputeYOk(a)
    PROVE  /\ ComputeY(x, a, d) \in Int
           /\ d \in Magnitudes => ComputeY(x, a, d) \in Magnitudes
<1>1. PICK next \in [Int -> Int] : next = YNext(x, a, d)
  BY YNextInteger DEF ComputeYOk
<1>2. ComputeY(x, a, d) = Iterated(next, d)
  BY <1>1, ComputeYIterates
<1>3. Iterated(next, d) \in Int
  <2>1. \A v \in Int : next[v] \in Int
    OBVIOUS
  <2>2. QED BY <2>1, IteratedStays
<1>4. d \in Magnitudes => Iterated(next, d) \in Magnitudes
  <2>1. ASSUME NEW v \in Magnitudes PROVE next[v] \in Magnitudes
    <3>1. v \in Int
      BY MagnitudesAreIntegers
    <3>2. PICK ann1 \in Int : ann1 = Ann(a) /\ ann1 # 0
      BY WrappedInteger DEF Ann, ComputeYOk
    <3>3. PICK c \in Int, b \in Int :
             /\ c = ScaledDown(ScaledDown(d, d, BalanceTimesN(x)), d, WrapProduct(2 * Ann(a)))
             /\ b = Wrap(x + RustQuotient(d, Ann(a)))
      <4>1. BalanceTimesN(x) \in Int /\ WrapProduct(2 * Ann(a)) \in Int
        BY <3>2, WrappedInteger DEF BalanceTimesN
      <4>2. x + RustQuotient(d, Ann(a)) \in Int
        BY <3>2, RustQuotientInteger
      <4>3. QED BY <4>1, <4>2, ScaledInteger, WrappedInteger
    <3>4. v * v + c \in Int /\ 2 * v + b - d \in Int
      BY <3>1
    <3>5. next[v] = NextValue(v, WrapProduct(v * v + c), WrapProduct(2 * v + b - d))
      BY <1>1, <3>1, <3>3 DEF YNext
    <3>6. QED BY <3>4, <3>5, NextInWidth
  <2>2. \A v \in Magnitudes : next[v] \in Magnitudes
    BY <2>1
  <2>3. QED BY <2>2, MagnitudesAreIntegers, IteratedStays
<1>5. QED BY <1>2, <1>3, <1>4

-----------------------------------------------------------------------------
(* Shares and tokens are accounted for.                                      *)

Holders == Users \cup {Pool}

\* The accounts add up to the supply, but for the times that a number has
\* wrapped around.
SharesKept ==
    /\ lpSupply \in Int
    /\ lpBalance \in [Users -> Int]
    /\ \E k \in Int : SumFunction(lpBalance) = lpSupply + k * (2 * (I128Max + 1))

\* Transfers move tokens and neither make nor lose any.
TokensKept ==
    /\ held \in [Coin -> [Holders -> Nat]]
    /\ \A c \in Coin : SumFunction(held[c]) = Issued

LEMMA SumIsOnSet ==
    ASSUME NEW S, IsFiniteSet(S), NEW f \in [S -> Nat]
    PROVE  SumFunction(f) \in Nat /\ \A x \in S : f[x] <= SumFunction(f)
<1>1. SumFunction(f) = SumFunctionOnSet(f, S)
  <2>1. DOMAIN f = S
    OBVIOUS
  <2>2. QED BY <2>1, Zenon DEF SumFunction
<1>2. \A x \in S : f[x] \in Nat
  OBVIOUS
<1>3. QED BY <1>1, <1>2, SumOfNaturals

LEMMA HoldersFinite == IsFiniteSet(Holders)
BY StablePoolAssumption, FS_Singleton, FS_Union DEF Holders

\* Wrapping around adds or takes away the width.
LEMMA WrapAdds ==
    ASSUME NEW v \in Int, NEW W \in Nat, W = 2 * (I128Max + 1)
    PROVE  \E e \in Int : Wrap(v) = v + e * W
<1>1. PICK T \in Nat : T = I128Max /\ W = 2 * (T + 1)
  BY I128MaxAssumption
<1>2. Wrap(v) = v \/ Wrap(v) = v + W \/ Wrap(v) = v - W
  BY <1>1 DEF Wrap
<1>3. v = v + 0 * W /\ v + W = v + 1 * W /\ v - W = v + (-1) * W
  OBVIOUS
<1>4. 0 \in Int /\ 1 \in Int /\ -1 \in Int
  OBVIOUS
<1>5. QED BY <1>2, <1>3, <1>4

\* An account that changes by n, and the supply with it.
LEMMA SharesChange ==
    ASSUME SharesKept, NEW u \in Users, NEW n \in Int,
           lpSupply' = Wrap(lpSupply + n), lpBalance' = SharesAfter(u, n)
    PROVE  SharesKept'
<1>1. PICK W \in Nat : W = 2 * (I128Max + 1)
  BY I128MaxAssumption
<1>2. PICK s \in Int, b \in Int, k \in Int :
         /\ s = lpSupply /\ b = lpBalance[u] /\ lpBalance \in [Users -> Int]
         /\ SumFunction(lpBalance) = s + k * W
  BY <1>1 DEF SharesKept
<1>3. s + n \in Int /\ b + n \in Int
  OBVIOUS
<1>4. PICK e \in Int : Wrap(s + n) = s + n + e * W
  BY <1>1, <1>3, WrapAdds
<1>5. PICK f \in Int : Wrap(b + n) = b + n + f * W
  BY <1>1, <1>3, WrapAdds
<1>6. PICK v \in Int : v = Wrap(b + n)
  BY <1>3, WrappedInteger
<1>7. lpBalance' = [lpBalance EXCEPT ![u] = v]
  BY <1>2, <1>6, Zenon DEF SharesAfter
<1>8. SumFunction([lpBalance EXCEPT ![u] = v]) = SumFunction(lpBalance) - lpBalance[u] + v
  <2>1. IsFiniteSet(Users) /\ lpBalance \in [Users -> Int]
    BY <1>2, StablePoolAssumption
  <2>2. QED BY <2>1, SumChanged
<1>9. SumFunction(lpBalance') = s + k * W - b + v /\ v = b + n + f * W
  <2>1. SumFunction(lpBalance') = SumFunction(lpBalance) - lpBalance[u] + v
    BY <1>7, <1>8, Zenon
  <2>2. QED BY <1>2, <1>5, <1>6, <2>1
<1>10. lpSupply' = s + n + e * W /\ lpSupply' \in Int
  BY <1>2, <1>4
<1>11. k + f - e \in Int /\ SumFunction(lpBalance') = lpSupply' + (k + f - e) * W
  BY <1>9, <1>10
<1>12. lpBalance' \in [Users -> Int]
  BY <1>2, <1>6, <1>7
<1>13. QED BY <1>1, <1>10, <1>11, <1>12 DEF SharesKept

LEMMA TransferKeeps ==
    ASSUME NEW f \in [Holders -> Nat], NEW from \in Holders, NEW to \in Holders,
           NEW n \in Int, TransferOk(f, from, n)
    PROVE  /\ n \in Nat
           /\ Moved(f, from, to, n) \in [Holders -> Nat]
           /\ SumFunction(Moved(f, from, to, n)) = SumFunction(f)
           /\ from # to => /\ Moved(f, from, to, n)[from] = f[from] - n
                           /\ Moved(f, from, to, n)[to] = f[to] + n
           /\ from = to => Moved(f, from, to, n)[from] = f[from]
<1>1. n \in Nat /\ f[from] - n \in Nat /\ f[from] \in Nat
  BY DEF TransferOk
<1>2. PICK g : g = [f EXCEPT ![from] = f[from] - n]
  OBVIOUS
<1>3. /\ g \in [Holders -> Nat] /\ g[from] = f[from] - n /\ g[to] \in Nat
      /\ from # to => g[to] = f[to]
  BY <1>1, <1>2
<1>4. Moved(f, from, to, n) = [g EXCEPT ![to] = g[to] + n]
  BY <1>2 DEF Moved
<1>5. PICK m : m = [g EXCEPT ![to] = g[to] + n]
  OBVIOUS
<1>6. m \in [Holders -> Nat] /\ m[to] = g[to] + n /\ (from # to => m[from] = g[from])
  BY <1>1, <1>3, <1>5
<1>7. SumFunction(g) = SumFunction(f) - f[from] + (f[from] - n)
  <2>1. f \in [Holders -> Int] /\ f[from] - n \in Int
    BY <1>1
  <2>2. SumFunction([f EXCEPT ![from] = f[from] - n])
          = SumFunction(f) - f[from] + (f[from] - n)
    BY <2>1, HoldersFinite, SumChanged
  <2>3. QED BY <1>2, <2>2, Zenon
<1>8. SumFunction(m) = SumFunction(g) - g[to] + (g[to] + n)
  <2>1. g \in [Holders -> Int] /\ g[to] + n \in Int
    BY <1>1, <1>3
  <2>2. SumFunction([g EXCEPT ![to] = g[to] + n]) = SumFunction(g) - g[to] + (g[to] + n)
    BY <2>1, HoldersFinite, SumChanged
  <2>3. QED BY <1>5, <2>2, Zenon
<1>9. SumFunction(m) = SumFunction(f)
  <2>1. SumFunction(f) \in Nat
    BY HoldersFinite, SumIsOnSet
  <2>2. QED BY <1>1, <1>3, <1>7, <1>8, <2>1
<1>10. QED BY <1>1, <1>3, <1>4, <1>5, <1>6, <1>9

\* Nobody holds more than there is.
LEMMA HeldIsIssued ==
    ASSUME TokensKept, NEW c \in Coin, NEW h \in Holders
    PROVE  held[c][h] \in Nat /\ held[c][h] <= Issued /\ Issued \in Nat
<1>1. Issued \in Nat
  BY StablePoolAssumption, FS_CardinalityType DEF Issued
<1>2. held[c] \in [Holders -> Nat] /\ SumFunction(held[c]) = Issued
  BY DEF TokensKept
<1>3. QED BY <1>1, <1>2, HoldersFinite, SumIsOnSet

-----------------------------------------------------------------------------
(* The pool holds what it records.                                           *)

\* Unless all of an output is fee.
RecordIsNatural == fee < FeeDenominator => \A c \in Coin : balance[c] >= 0

AccountsInv ==
    /\ AmpInv
    /\ fee \in 0..FeeDenominator
    /\ ~initialized => fee = 0
    /\ SharesKept
    /\ TokensKept
    /\ balance \in [Coin -> Int]

\* A product inside the width is not changed by it, whatever its sign.
LEMMA ProductInside ==
    ASSUME NEW v \in Int, -(I128Max + 1) <= v, v <= I128Max
    PROVE  WrapProduct(v) = v
<1>1. PICK M \in Nat \ {0} : M = I128Max + 1 /\ I128Max = M - 1
  BY I128MaxAssumption
<1>2. v + M \in 0..(2 * M - 1)
  BY <1>1
<1>3. (v + M) % (2 * M) = v + M
  BY <1>2
<1>4. v + I128Max + 1 = v + M
  BY <1>1
<1>5. WrapProduct(v) = ((v + M) % (2 * M)) - M
  <2>1. \A r \in Int : r - I128Max - 1 = r - M
    BY <1>1
  <2>2. v + M \in Int
    OBVIOUS
  <2>3. QED BY <1>1, <1>3, <1>4, <2>1, <2>2 DEF WrapProduct
<1>6. QED BY <1>3, <1>5

\* What is paid of an amount is no more than the amount, also where the fee on
\* it wraps around: or else it would be more than there is of the coin.
LEMMA PaidIsLess ==
    ASSUME NEW gross \in Int, -(I128Max + 1) <= gross, gross <= I128Max,
           fee \in Nat, fee < FeeDenominator, Paid(gross) \in 0..Issued
    PROVE  Paid(gross) <= gross /\ gross < I128Max
<1>1. PICK T \in Nat, M \in Nat, F \in Nat \ {0}, g \in Nat, I \in Nat :
         /\ T = I128Max /\ M = T + 1 /\ F = FeeDenominator /\ g = fee /\ I = Issued
         /\ (I + 1) * F <= T /\ g < F
  <2>1. I128Max \in Nat /\ FeeDenominator \in Nat \ {0} /\ Issued \in Nat
    BY I128MaxAssumption, StablePoolAssumption, FS_CardinalityType DEF Issued
  <2>2. QED BY <2>1, TokensAssumption
<1>2. PICK w \in Int : w = WrapProduct(gross * fee) /\ -M <= w /\ w <= M
  <2>1. gross * fee \in Int
    OBVIOUS
  <2>2. WrapProduct(gross * fee) \in -M..M /\ WrapProduct(gross * fee) \in Int
    BY <1>1, <2>1, ProductInWidth DEF Magnitudes
  <2>3. QED BY <2>2
<1>3. Paid(gross) = Wrap(gross - RustQuotient(w, F))
  BY <1>1, <1>2 DEF Paid
<1>4. \A v \in Int : Wrap(v) = IF v > T THEN v - 2 * M ELSE IF v < -M THEN v + 2 * M ELSE v
  BY <1>1 DEF Wrap
<1>5. I < T /\ (F # 1 => 2 * (I + 1) <= T)
  <2>1. (I + 1) * 1 <= (I + 1) * F /\ (F # 1 => (I + 1) * 2 <= (I + 1) * F)
    BY ProductsCompare
  <2>2. (I + 1) * F \in Nat
    OBVIOUS
  <2>3. QED BY <1>1, <2>1, <2>2
<1>6. F = 1 => w = 0
  <2>1. F = 1 => gross * fee = 0
    BY <1>1
  <2>2. WrapProduct(0) = 0
    <3>1. 0 \in Nat /\ 0 <= I128Max
      BY <1>1
    <3>2. QED BY <3>1, InsideWidth
  <2>3. QED BY <1>2, <2>1, <2>2
<1>7. CASE w >= 0
  <2>1. PICK f \in Nat : f = RustQuotient(w, F) /\ f * F <= w
    <3>1. w \in Nat /\ RustQuotient(w, F) = w \div F
      BY <1>7, NaturalQuotient
    <3>2. QED BY <3>1, Rounded
  <2>2. F # 1 => 2 * f <= M
    <3>1. f * 2 <= f * F \/ F = 1
      BY ProductsCompare
    <3>2. f * F \in Nat
      OBVIOUS
    <3>3. QED BY <1>2, <2>1, <3>1, <3>2
  <2>3. F = 1 => f = 0
    BY <1>6, <2>1
  <2>4. Paid(gross) = Wrap(gross - f) /\ gross - f \in Int
    BY <1>3, <2>1
  <2>5. gross - f >= -M
    <3> SUFFICES ASSUME gross - f < -M PROVE FALSE
      OBVIOUS
    <3>1. Paid(gross) = gross - f + 2 * M
      BY <1>1, <1>4, <2>4
    <3>2. QED BY <1>1, <1>5, <2>2, <2>3, <3>1
  <2>6. Paid(gross) = gross - f
    BY <1>1, <1>4, <2>4, <2>5
  <2>7. QED BY <1>1, <1>5, <2>2, <2>3, <2>6
<1>8. CASE w < 0
  <2>1. PICK k \in Nat : RustQuotient(w, F) = -k /\ k * F <= -w
    <3>1. -w \in Nat /\ F \in Nat /\ F > 0 /\ ~(F < 0)
      BY <1>8
    <3>2. RustQuotient(w, F) = -((-w) \div F)
      BY <1>8, <3>1 DEF RustQuotient
    <3>3. QED BY <3>1, <3>2, Rounded
  <2>2. F # 1 /\ 2 * k <= M
    <3>1. F # 1
      BY <1>6, <1>8
    <3>2. k * 2 <= k * F /\ k * F \in Nat
      BY <3>1, ProductsCompare
    <3>3. QED BY <1>2, <2>1, <3>1, <3>2
  <2>3. Paid(gross) = Wrap(gross + k) /\ gross + k \in Int
    <3>1. gross - (-k) = gross + k
      OBVIOUS
    <3>2. QED BY <1>3, <2>1, <3>1
  <2>4. CASE gross >= 0
    <3>1. gross * g > T
      <4> SUFFICES ASSUME gross * g <= T PROVE FALSE
        OBVIOUS
      <4>1. gross * fee \in Nat /\ gross * fee <= I128Max
        BY <1>1, <2>4
      <4>2. w = gross * fee
        BY <1>2, <4>1, InsideWidth
      <4>3. QED BY <1>8, <4>1, <4>2
    <3>2. gross > I
      <4> SUFFICES ASSUME gross <= I PROVE FALSE
        OBVIOUS
      <4>1. gross * g <= I * F
        BY <1>1, <2>4, ProductsCompare
      <4>2. (I + 1) * F = I * F + F /\ I * F \in Nat /\ gross * g \in Nat
        BY <2>4
      <4>3. QED BY <1>1, <3>1, <4>1, <4>2
    <3>3. QED BY <1>1, <1>4, <1>5, <2>2, <2>3, <2>4, <3>2
  <2>5. CASE gross < 0
    <3>1. PICK h \in Nat \ {0} : h = -gross /\ h <= M
      BY <1>1, <2>5
    <3>2. k * F < h * F
      <4>1. h * g < h * F /\ h * g \in Nat /\ h * F \in Nat
        <5>1. h * (g + 1) <= h * F
          BY <1>1, <3>1, ProductsCompare
        <5>2. h * (g + 1) = h * g + h
          OBVIOUS
        <5>3. h * g \in Nat /\ h * F \in Nat
          OBVIOUS
        <5>4. QED BY <5>1, <5>2, <5>3
      <4>2. k * F \in Nat
        OBVIOUS
      <4>3. CASE h * g > M
        BY <1>2, <2>1, <4>1, <4>2, <4>3
      <4>4. CASE h * g <= M
        <5>1. gross * fee = -(h * g)
          BY <1>1, <3>1
        <5>2. -(h * g) \in Int /\ -(I128Max + 1) <= -(h * g) /\ -(h * g) <= I128Max
          BY <1>1, <4>1, <4>4
        <5>3. w = -(h * g)
          BY <1>2, <5>1, <5>2, ProductInside
        <5>4. QED BY <2>1, <4>1, <4>2, <5>3
      <4>5. QED BY <4>1, <4>3, <4>4
    <3>3. k < h
      <4> SUFFICES ASSUME h <= k PROVE FALSE
        BY <3>1
      <4>1. h * F <= k * F
        BY <3>1, ProductsCompare
      <4>2. h * F \in Nat /\ k * F \in Nat
        OBVIOUS
      <4>3. QED BY <3>2, <4>1, <4>2
    <3>4. QED BY <1>1, <1>4, <2>3, <3>1, <3>3
  <2>6. QED BY <2>4, <2>5
<1>9. QED BY <1>7, <1>8

LEMMA StableInitInv == StableInit => AccountsInv /\ StableSolvent
<1> SUFFICES ASSUME StableInit PROVE AccountsInv /\ StableSolvent
  OBVIOUS
<1>1. AmpInv
  BY AmpInitInv DEF StableInit
<1>2. FeeDenominator \in Nat /\ MaxSupply \in Nat /\ Endowment \in Nat
      /\ IsFiniteSet(Users) /\ Pool \notin Users
  BY StablePoolAssumption
<1>3. fee \in 0..FeeDenominator /\ fee = 0
  BY <1>2 DEF StableInit
<1>4. SharesKept
  <2>1. lpBalance \in [Users -> Int] /\ lpSupply = 0 /\ \A u \in Users : lpBalance[u] = 0
    BY DEF StableInit
  <2>2. DOMAIN lpBalance = Users
    BY <2>1
  <2>3. SumFunctionOnSet(lpBalance, Users) = 0
    BY <1>2, <2>1, SumOfZeros
  <2>4. SumFunction(lpBalance) = 0
    BY <2>2, <2>3, Zenon DEF SumFunction
  <2>5. PICK W \in Nat : W = 2 * (I128Max + 1)
    BY I128MaxAssumption
  <2>6. 0 \in Int /\ SumFunction(lpBalance) = lpSupply + 0 * W
    BY <2>1, <2>4
  <2>7. QED BY <2>1, <2>5, <2>6 DEF SharesKept
<1>5. TokensKept
  <2>1. /\ held \in [Coin -> [Holders -> Nat]]
        /\ \A c \in Coin : held[c][Pool] = 0 /\ \A u \in Users : held[c][u] = Endowment
    BY <1>2 DEF StableInit, Holders
  <2>2. ASSUME NEW c \in Coin PROVE SumFunction(held[c]) = Issued
    <3>1. PICK f \in [Holders -> Nat] :
             f = held[c] /\ f[Pool] = 0 /\ \A u \in Users : f[u] = Endowment
      BY <2>1
    <3>2. SumFunctionOnSet(f, Holders) = f[Pool] + SumFunctionOnSet(f, Holders \ {Pool})
      <4>1. \A h \in Holders : f[h] \in Int
        OBVIOUS
      <4>2. Pool \in Holders
        BY DEF Holders
      <4>3. QED BY <4>1, <4>2, HoldersFinite, SumWithout
    <3>3. Holders \ {Pool} = Users
      BY <1>2 DEF Holders
    <3>4. SumFunctionOnSet(f, Users) = Issued
      <4>1. SumFunctionOnSet(f, Users) = Cardinality(Users) * Endowment
        BY <1>2, <3>1, SumOfEquals
      <4>2. QED BY <4>1 DEF Issued
    <3>5. DOMAIN f = Holders
      OBVIOUS
    <3>6. SumFunction(f) = SumFunctionOnSet(f, Holders)
      BY <3>5, Zenon DEF SumFunction
    <3>7. Issued \in Nat
      BY <1>2, FS_CardinalityType DEF Issued
    <3>8. QED BY <3>1, <3>2, <3>3, <3>4, <3>6, <3>7
  <2>3. QED BY <2>1, <2>2 DEF TokensKept
<1>6. balance \in [Coin -> Int] /\ \A c \in Coin : balance[c] = 0
  BY DEF StableInit
<1>7. StableSolvent
  <2>1. \A c \in Coin : held[c][Pool] \in Nat
    BY <1>5 DEF TokensKept, Holders
  <2>2. QED BY <1>6, <2>1 DEF StableSolvent
<1>8. QED BY <1>1, <1>3, <1>4, <1>5, <1>6, <1>7 DEF AccountsInv

\* What the steps read.
LEMMA StableFacts ==
    ASSUME AccountsInv
    PROVE  /\ CurrentA \in Int /\ fee \in Nat
           /\ Issued \in Nat /\ Issued < I128Max /\ I128Max \in Nat
           /\ \A c \in Coin : /\ balance[c] \in Int
                              /\ held[c] \in [Holders -> Nat]
                              /\ held[c][Pool] \in Nat /\ held[c][Pool] <= Issued
           /\ Pool \in Holders /\ Users \subseteq Holders /\ Pool \notin Users
<1>1. CurrentA \in Int
  <2>1. CurrentA \in 0..MaxA /\ MaxA \in Nat
    BY CurrentAIsBetween, CoefficientAssumption DEF AccountsInv
  <2>2. QED BY <2>1
<1>2. fee \in Nat
  BY StablePoolAssumption DEF AccountsInv
<1>3. Pool \in Holders /\ Users \subseteq Holders /\ Pool \notin Users
  BY StablePoolAssumption DEF Holders
<1>4. \A c \in Coin : held[c][Pool] \in Nat /\ held[c][Pool] <= Issued
  BY <1>3, HeldIsIssued DEF AccountsInv
<1>5. Issued \in Nat /\ Issued < I128Max /\ I128Max \in Nat
  <2>1. /\ Issued \in Nat /\ FeeDenominator \in Nat \ {0} /\ I128Max \in Nat
        /\ (Issued + 1) * FeeDenominator <= I128Max
    BY StablePoolAssumption, FS_CardinalityType, TokensAssumption, I128MaxAssumption DEF Issued
  <2>2. (Issued + 1) * 1 <= (Issued + 1) * FeeDenominator
    BY <2>1, ProductsCompare
  <2>3. (Issued + 1) * FeeDenominator \in Nat
    BY <2>1
  <2>4. QED BY <2>1, <2>2, <2>3
<1>6. QED BY <1>1, <1>2, <1>3, <1>4, <1>5 DEF AccountsInv, TokensKept

\* What a step leaves of the accounts.
AccountsKept == SharesKept /\ TokensKept /\ balance \in [Coin -> Int]

\* The record is covered and natural.
Covered == StableSolvent /\ RecordIsNatural

\* The shares of a deposit, of any sign.
LEMMA MintIsInteger ==
    ASSUME AccountsInv, NEW amounts \in [Coin -> DepositAmounts], lpSupply # 0 => D(0) # 0
    PROVE  MintedShares(D(0), ComputeD(Recorded(amounts)[0], Recorded(amounts)[1], CurrentA))
              \in Int
<1>1. CurrentA \in Int /\ 0 \in Coin /\ 1 \in Coin /\ 1 - 0 = 1
  BY StableFacts DEF Coin
<1>2. /\ Recorded(amounts)[0] = Wrap(balance[0] + amounts[0])
      /\ Recorded(amounts)[1] = Wrap(balance[1] + amounts[1])
  BY <1>1 DEF Recorded
<1>3. /\ balance[0] \in Int /\ balance[1] \in Int
      /\ Recorded(amounts)[0] \in Int /\ Recorded(amounts)[1] \in Int
  <2>1. /\ balance[0] \in Int /\ balance[1] \in Int
        /\ amounts[0] \in Int /\ amounts[1] \in Int
    BY <1>1, StableFacts, StablePoolAssumption
  <2>2. balance[0] + amounts[0] \in Int /\ balance[1] + amounts[1] \in Int
    BY <2>1
  <2>3. QED BY <1>2, <2>1, <2>2, WrappedInteger
<1>4. PICK d0 \in Int, d1 \in Int :
         /\ d0 = D(0)
         /\ d1 = ComputeD(Recorded(amounts)[0], Recorded(amounts)[1], CurrentA)
  <2>1. D(0) \in Int
    BY <1>1, <1>3, ComputeDInWidth DEF D
  <2>2. QED BY <1>1, <1>3, <2>1, ComputeDInWidth
<1>5. MintedShares(d0, d1) \in Int
  <2>1. CASE lpSupply = 0
    BY <1>4, <2>1 DEF MintedShares
  <2>2. CASE lpSupply # 0
    <3>1. lpSupply \in Int /\ d0 # 0
      BY <1>4, <2>2, StablePoolAssumption DEF AccountsInv, SharesKept
    <3>2. Wrap(d1 - d0) \in Int
      <4>1. d1 - d0 \in Int
        OBVIOUS
      <4>2. QED BY <4>1, WrappedInteger
    <3>3. WrapProduct(Wrap(d1 - d0) * lpSupply) \in Int
      <4>1. Wrap(d1 - d0) * lpSupply \in Int
        BY <3>1, <3>2
      <4>2. QED BY <4>1, WrappedInteger
    <3>4. QED BY <2>2, <3>1, <3>3, RustQuotientInteger DEF MintedShares
  <2>3. QED BY <2>1, <2>2
<1>6. QED BY <1>4, <1>5

LEMMA AddKeeps ==
    ASSUME AccountsInv, NEW u \in Users,
           NEW amounts \in [Coin -> DepositAmounts], NEW m \in Minimums, NEW t,
           AddLiquidity(u, amounts, m, t)
    PROVE  /\ AccountsKept'
           /\ Covered /\ fee < FeeDenominator =>
                 \A c \in Coin : balance'[c] <= held'[c][Pool] /\ balance'[c] >= balance[c]
<1>1. /\ CurrentA \in Int /\ fee \in Nat
      /\ Issued \in Nat /\ Issued < I128Max /\ I128Max \in Nat
      /\ Pool \in Holders /\ Users \subseteq Holders /\ Pool \notin Users
  BY StableFacts
<1>2. /\ balance' = Recorded(amounts)
      /\ held' = [c \in Coin |-> Moved(held[c], u, Pool, amounts[c])]
      /\ \A c \in Coin : TransferOk(held[c], u, amounts[c])
      /\ fee' = fee
      /\ lpSupply # 0 => D(0) # 0
  BY DEF AddLiquidity
<1>3. \A c \in Coin : amounts[c] \in Int /\ balance[c] \in Int /\ Wrap(balance[c] + amounts[c]) \in Int
  <2>1. \A c \in Coin : amounts[c] \in Int /\ balance[c] \in Int
    BY StableFacts, StablePoolAssumption
  <2>2. \A c \in Coin : balance[c] + amounts[c] \in Int
    BY <2>1
  <2>3. QED BY <2>1, <2>2, WrappedInteger
<1>4. balance' \in [Coin -> Int] /\ \A c \in Coin : balance'[c] = Wrap(balance[c] + amounts[c])
  BY <1>2, <1>3 DEF Recorded
<1>5. SharesKept'
  <2>1. PICK mint : /\ mint = MintedShares(D(0), ComputeD(Recorded(amounts)[0],
                                                          Recorded(amounts)[1], CurrentA))
                    /\ mint >= m
                    /\ lpSupply + mint <= MaxSupply
                    /\ lpSupply' = Wrap(lpSupply + mint)
                    /\ lpBalance' = SharesAfter(u, mint)
    BY DEF AddLiquidity
  <2>2. mint \in Int
    BY <1>2, <2>1, MintIsInteger
  <2>3. SharesKept
    BY DEF AccountsInv
  <2>4. QED BY <2>1, <2>2, <2>3, SharesChange
<1>6. \A c \in Coin :
         /\ amounts[c] \in Nat
         /\ held'[c] \in [Holders -> Nat] /\ SumFunction(held'[c]) = Issued
         /\ held'[c][Pool] = held[c][Pool] + amounts[c]
  <2>1. ASSUME NEW c \in Coin
        PROVE  /\ amounts[c] \in Nat
               /\ held'[c] \in [Holders -> Nat] /\ SumFunction(held'[c]) = Issued
               /\ held'[c][Pool] = held[c][Pool] + amounts[c]
    <3>1. PICK f \in [Holders -> Nat], n \in Int :
             f = held[c] /\ n = amounts[c] /\ TransferOk(f, u, n) /\ SumFunction(f) = Issued
      <4>1. held[c] \in [Holders -> Nat] /\ SumFunction(held[c]) = Issued
        BY DEF AccountsInv, TokensKept
      <4>2. QED BY <1>2, <1>3, <4>1
    <3>2. u \in Holders /\ u # Pool
      BY <1>1
    <3>3. /\ n \in Nat
          /\ Moved(f, u, Pool, n) \in [Holders -> Nat]
          /\ SumFunction(Moved(f, u, Pool, n)) = SumFunction(f)
          /\ Moved(f, u, Pool, n)[Pool] = f[Pool] + n
      BY <1>1, <3>1, <3>2, TransferKeeps
    <3>4. held'[c] = Moved(f, u, Pool, n)
      BY <1>2, <3>1
    <3>5. QED BY <3>1, <3>3, <3>4
  <2>2. QED BY <2>1
<1>7. TokensKept'
  <2>1. held' = [c \in Coin |-> held'[c]]
    BY <1>2
  <2>2. QED BY <1>6, <2>1 DEF TokensKept
<1>8. ASSUME fee < FeeDenominator, Covered, NEW c \in Coin
      PROVE  balance'[c] >= balance[c] /\ balance'[c] <= held'[c][Pool]
  <2>1. balance[c] >= 0 /\ balance[c] <= held[c][Pool]
    BY <1>8 DEF Covered, StableSolvent, RecordIsNatural
  <2>2. held[c][Pool] \in Nat /\ held'[c][Pool] \in Nat /\ held'[c][Pool] <= Issued
    <3>1. TokensKept => held[c][Pool] \in Nat /\ held[c][Pool] <= Issued
      BY <1>1, HeldIsIssued
    <3>2. held'[c][Pool] <= SumFunction(held'[c]) /\ held'[c][Pool] \in Nat
      <4>1. held'[c] \in [Holders -> Nat]
        BY <1>6
      <4>2. QED BY <1>1, <4>1, HoldersFinite, SumIsOnSet
    <3>3. QED BY <1>6, <3>1, <3>2 DEF AccountsInv
  <2>3. balance[c] + amounts[c] \in Nat /\ balance[c] + amounts[c] <= I128Max
        /\ balance[c] + amounts[c] <= held'[c][Pool]
    BY <1>1, <1>3, <1>6, <2>1, <2>2
  <2>4. balance'[c] = balance[c] + amounts[c]
    BY <1>4, <2>3, InsideWidth
  <2>5. QED BY <1>3, <1>6, <2>3, <2>4
<1>9. QED BY <1>2, <1>4, <1>5, <1>7, <1>8 DEF AccountsKept

LEMMA RemoveKeeps ==
    ASSUME AccountsInv, NEW u \in Users, NEW n \in ShareAmounts,
           NEW c \in Coin, NEW m \in Minimums, RemoveLiquidityOneCoin(u, n, c, m)
    PROVE  AccountsKept' /\ (Covered /\ fee < FeeDenominator => StableSolvent')
<1>1. /\ CurrentA \in Int /\ fee \in Nat
      /\ Issued \in Nat /\ Issued < I128Max /\ I128Max \in Nat
      /\ Pool \in Holders /\ Users \subseteq Holders /\ Pool \notin Users
  BY StableFacts
<1>2. PICK y : /\ y = ComputeY(balance[1 - c], CurrentA, RemainingD(n))
               /\ TransferOk(held[c], Pool, Wrap(balance[c] - y - 1))
               /\ held' = [held EXCEPT ![c] = Moved(held[c], Pool, u, Wrap(balance[c] - y - 1))]
               /\ balance' = [balance EXCEPT ![c] = y]
  BY Zenon DEF RemoveLiquidityOneCoin
<1>3. /\ lpBalance[u] >= n /\ lpSupply # 0 /\ ComputeYOk(CurrentA) /\ fee' = fee
      /\ lpSupply' = Wrap(lpSupply - n) /\ lpBalance' = SharesAfter(u, -n)
  BY DEF RemoveLiquidityOneCoin
<1>4. n \in Int /\ lpSupply \in Int
  BY StablePoolAssumption, I128MaxAssumption DEF AccountsInv, SharesKept
<1>5. SharesKept'
  <2>1. -n \in Int /\ lpSupply + (-n) = lpSupply - n
    BY <1>4
  <2>2. SharesKept
    BY DEF AccountsInv
  <2>3. PICK k \in Int : k = -n
    BY <2>1
  <2>4. lpSupply' = Wrap(lpSupply + k) /\ lpBalance' = SharesAfter(u, k)
    BY <1>3, <2>1, <2>3
  <2>5. QED BY <2>2, <2>4, SharesChange
<1>6. y \in Magnitudes /\ y \in Int
  <2>1. RemainingD(n) \in Magnitudes /\ RemainingD(n) \in Int
    <3>1. D(0) * Wrap(lpSupply - n) \in Int
      <4>1. D(0) \in Int
        <5>1. balance[0] \in Int /\ balance[1] \in Int /\ 1 - 0 = 1
          BY StableFacts DEF Coin
        <5>2. QED BY <1>1, <5>1, ComputeDInWidth DEF D
      <4>2. Wrap(lpSupply - n) \in Int
        <5>1. lpSupply - n \in Int
          BY <1>4
        <5>2. QED BY <5>1, WrappedInteger
      <4>3. QED BY <4>1, <4>2
    <3>2. lpSupply \in Int /\ lpSupply # 0
      BY <1>3, <1>4
    <3>3. RemainingD(n) \in Magnitudes
      BY <3>1, <3>2, ProductInWidth, QuotientInWidth DEF RemainingD
    <3>4. QED BY <3>3, MagnitudesAreIntegers
  <2>2. balance[1 - c] \in Int
    <3>1. 1 - c \in Coin
      BY DEF Coin
    <3>2. QED BY <3>1, StableFacts
  <2>3. QED BY <1>1, <1>2, <1>3, <2>1, <2>2, ComputeYInWidth
<1>7. PICK dy \in Int, f \in [Holders -> Nat] :
         /\ dy = Wrap(balance[c] - y - 1) /\ f = held[c]
         /\ TransferOk(f, Pool, dy) /\ SumFunction(f) = Issued
  <2>1. Wrap(balance[c] - y - 1) \in Int
    <3>1. balance[c] - y - 1 \in Int
      BY <1>6, StableFacts
    <3>2. QED BY <3>1, WrappedInteger
  <2>2. held[c] \in [Holders -> Nat] /\ SumFunction(held[c]) = Issued
    BY DEF AccountsInv, TokensKept
  <2>3. QED BY <1>2, <2>1, <2>2
<1>8. /\ dy \in Nat /\ dy <= held[c][Pool] /\ held[c][Pool] <= Issued
      /\ held'[c] \in [Holders -> Nat] /\ SumFunction(held'[c]) = Issued
      /\ held'[c][Pool] = held[c][Pool] - dy
  <2>1. u \in Holders /\ u # Pool
    BY <1>1
  <2>2. /\ dy \in Nat
        /\ Moved(f, Pool, u, dy) \in [Holders -> Nat]
        /\ SumFunction(Moved(f, Pool, u, dy)) = SumFunction(f)
        /\ Moved(f, Pool, u, dy)[Pool] = f[Pool] - dy
    BY <1>1, <1>7, <2>1, TransferKeeps
  <2>3. held'[c] = Moved(f, Pool, u, dy)
    BY <1>2, <1>7 DEF AccountsInv, TokensKept
  <2>4. dy <= f[Pool] /\ held[c][Pool] <= Issued
    BY <1>1, <1>7, StableFacts DEF TransferOk
  <2>5. QED BY <1>7, <2>2, <2>3, <2>4
<1>9. TokensKept'
  <2>1. held \in [Coin -> [Holders -> Nat]] /\ \A k \in Coin : SumFunction(held[k]) = Issued
    BY DEF AccountsInv, TokensKept
  <2>2. \A k \in Coin : k # c => held'[k] = held[k]
    BY <1>2, <2>1
  <2>3. held' \in [Coin -> [Holders -> Nat]]
    BY <1>2, <1>8, <2>1
  <2>4. \A k \in Coin : SumFunction(held'[k]) = Issued
    BY <1>8, <2>1, <2>2
  <2>5. QED BY <2>3, <2>4 DEF TokensKept
<1>10. balance \in [Coin -> Int]
  BY DEF AccountsInv
<1>11. /\ balance' \in [Coin -> Int] /\ balance'[c] = y
       /\ \A k \in Coin : k # c => balance'[k] = balance[k] /\ held'[k] = held[k]
  BY <1>2, <1>6, <1>10 DEF AccountsInv, TokensKept
<1>12. ASSUME fee < FeeDenominator, Covered
       PROVE  /\ \A k \in Coin : balance[k] <= held[k][Pool]
              /\ balance'[c] <= held'[c][Pool]
  <2>1. \A k \in Coin : balance[k] >= 0 /\ balance[k] <= held[k][Pool]
    BY <1>12 DEF Covered, StableSolvent, RecordIsNatural
  <2>2. PICK b \in Nat, T \in Nat, I \in Nat :
           /\ b = balance[c] /\ T = I128Max /\ I = Issued /\ b <= I /\ I < T
    <3>1. balance[c] \in Int /\ held[c][Pool] \in Nat /\ held[c][Pool] <= Issued
      BY StableFacts
    <3>2. balance[c] \in Nat /\ balance[c] <= Issued
      BY <1>1, <2>1, <3>1
    <3>3. QED BY <1>1, <3>2
  <2>3. -(T + 1) <= y /\ y <= T + 1
    BY <1>6, <2>2 DEF Magnitudes
  <2>4. dy >= 0 /\ dy <= I
    BY <1>8, <2>2, StableFacts
  <2>5. dy = IF b - y - 1 > T THEN b - y - 1 - 2 * (T + 1)
             ELSE IF b - y - 1 < -T - 1 THEN b - y - 1 + 2 * (T + 1) ELSE b - y - 1
    BY <1>7, <2>2 DEF Wrap
  <2>6. dy = b - y - 1
    BY <1>6, <2>2, <2>3, <2>4, <2>5
  <2>7. held[c][Pool] \in Nat /\ b <= held[c][Pool]
    BY <2>1, <2>2, StableFacts
  <2>8. balance'[c] <= held'[c][Pool]
    BY <1>6, <1>8, <1>11, <2>6, <2>7
  <2>9. QED BY <2>1, <2>8
<1>13. QED BY <1>3, <1>5, <1>9, <1>11, <1>12 DEF AccountsKept, StableSolvent

LEMMA ExchangeKeeps ==
    ASSUME AccountsInv, NEW u \in Users, NEW i \in Coin,
           NEW dx \in TradeAmounts, NEW m \in Minimums, NEW r \in Users \cup {Pool},
           Exchange(u, i, dx, m, r)
    PROVE  AccountsKept' /\ (Covered /\ fee < FeeDenominator => StableSolvent')
<1>1. /\ CurrentA \in Int /\ fee \in Nat
      /\ Issued \in Nat /\ Issued < I128Max /\ I128Max \in Nat
      /\ Pool \in Holders /\ Users \subseteq Holders /\ Pool \notin Users
      /\ r \in Holders /\ u \in Holders /\ u # Pool
  BY StableFacts DEF Holders
<1>2. PICK j \in Coin : j = 1 - i /\ j # i /\ \A k \in Coin : k = i \/ k = j
  BY DEF Coin
<1>3. PICK newY :
         LET dy == Paid(Wrap(balance[j] - newY - 1)) IN
         /\ newY = ComputeY(OtherBalance(i, dx), CurrentA, D(i))
         /\ TransferOk(held[j], Pool, dy)
         /\ held' = [held EXCEPT ![i] = Moved(held[i], u, Pool, dx),
                                 ![j] = Moved(held[j], Pool, r, dy)]
         /\ balance' = [balance EXCEPT ![i] = Wrap(balance[i] + dx), ![j] = newY]
  BY <1>2, Zenon DEF Exchange
<1>4. /\ dx > 0 /\ ComputeYOk(CurrentA) /\ TransferOk(held[i], u, dx)
      /\ fee' = fee /\ lpSupply' = lpSupply /\ lpBalance' = lpBalance
  BY DEF Exchange
<1>5. dx \in Int /\ balance[i] \in Int /\ balance[j] \in Int
  BY StableFacts, StablePoolAssumption
<1>6. SharesKept'
  BY <1>4 DEF AccountsInv, SharesKept
<1>7. D(i) \in Int /\ Wrap(balance[i] + dx) \in Int /\ OtherBalance(i, dx) \in Int
  <2>1. D(i) \in Int
    BY <1>1, <1>2, <1>5, ComputeDInWidth DEF D
  <2>2. balance[i] + dx \in Int
    BY <1>5
  <2>3. Wrap(balance[i] + dx) \in Int
    BY <2>2, WrappedInteger
  <2>4. i = 0 => balance[1 - i] \in Int
    BY <1>2, <1>5
  <2>5. QED BY <1>2, <1>5, <2>1, <2>3, <2>4 DEF OtherBalance, ComputedFrom
<1>8. newY \in Int
  BY <1>1, <1>3, <1>4, <1>7, ComputeYInWidth
<1>9. PICK gross \in Int, dy \in Int :
         /\ gross = Wrap(balance[j] - newY - 1) /\ dy = Paid(gross)
  <2>1. Wrap(balance[j] - newY - 1) \in Int
    <3>1. balance[j] - newY - 1 \in Int
      BY <1>5, <1>8
    <3>2. QED BY <3>1, WrappedInteger
  <2>2. PICK gross \in Int : gross = Wrap(balance[j] - newY - 1)
    BY <2>1
  <2>3. Paid(gross) \in Int
    <3>1. gross * fee \in Int /\ FeeDenominator \in Int /\ FeeDenominator # 0
      BY <1>1, StablePoolAssumption
    <3>2. RustQuotient(WrapProduct(gross * fee), FeeDenominator) \in Int
      BY <3>1, WrappedInteger, RustQuotientInteger
    <3>3. gross - RustQuotient(WrapProduct(gross * fee), FeeDenominator) \in Int
      BY <3>2
    <3>4. QED BY <3>3, WrappedInteger DEF Paid
  <2>4. QED BY <2>2, <2>3
<1>10. PICK f \in [Holders -> Nat], g \in [Holders -> Nat] :
          /\ f = held[i] /\ g = held[j]
          /\ SumFunction(f) = Issued /\ SumFunction(g) = Issued
          /\ TransferOk(f, u, dx) /\ TransferOk(g, Pool, dy)
  <2>1. /\ held[i] \in [Holders -> Nat] /\ SumFunction(held[i]) = Issued
        /\ held[j] \in [Holders -> Nat] /\ SumFunction(held[j]) = Issued
    BY DEF AccountsInv, TokensKept
  <2>2. QED BY <1>3, <1>4, <1>9, <2>1
<1>11. /\ held'[i] = Moved(f, u, Pool, dx) /\ held'[j] = Moved(g, Pool, r, dy)
       /\ DOMAIN held' = Coin
       /\ held' = [k \in Coin |-> held'[k]]
       /\ balance'[i] = Wrap(balance[i] + dx) /\ balance'[j] = newY
       /\ balance' \in [Coin -> Int]
  <2>1. balance \in [Coin -> Int] /\ held \in [Coin -> [Holders -> Nat]]
    BY DEF AccountsInv, TokensKept
  <2>2. held' = [held EXCEPT ![i] = Moved(f, u, Pool, dx), ![j] = Moved(g, Pool, r, dy)]
    BY <1>3, <1>9, <1>10
  <2>3. balance' = [balance EXCEPT ![i] = Wrap(balance[i] + dx), ![j] = newY]
    BY <1>3
  <2>4. /\ held'[i] = Moved(f, u, Pool, dx) /\ held'[j] = Moved(g, Pool, r, dy)
        /\ DOMAIN held' = Coin /\ held' = [k \in Coin |-> held'[k]]
    BY <1>2, <2>1, <2>2
  <2>5. /\ balance'[i] = Wrap(balance[i] + dx) /\ balance'[j] = newY
        /\ balance' \in [Coin -> Int]
    BY <1>2, <1>7, <1>8, <2>1, <2>3
  <2>6. QED BY <2>4, <2>5
<1>12. /\ dx \in Nat
       /\ held'[i] \in [Holders -> Nat] /\ SumFunction(held'[i]) = Issued
       /\ held'[i][Pool] = held[i][Pool] + dx
  BY <1>1, <1>5, <1>10, <1>11, TransferKeeps
<1>13. /\ dy \in Nat /\ dy <= held[j][Pool]
       /\ held'[j] \in [Holders -> Nat] /\ SumFunction(held'[j]) = Issued
       /\ held'[j][Pool] >= held[j][Pool] - dy
  <2>1. g[Pool] \in Nat
    BY <1>1
  <2>2. /\ dy \in Nat
        /\ Moved(g, Pool, r, dy) \in [Holders -> Nat]
        /\ SumFunction(Moved(g, Pool, r, dy)) = SumFunction(g)
        /\ Pool # r => Moved(g, Pool, r, dy)[Pool] = g[Pool] - dy
        /\ Pool = r => Moved(g, Pool, r, dy)[Pool] = g[Pool]
    BY <1>1, <1>10, TransferKeeps
  <2>3. Moved(g, Pool, r, dy)[Pool] >= g[Pool] - dy
    BY <2>1, <2>2
  <2>4. dy <= g[Pool]
    BY <1>10 DEF TransferOk
  <2>5. QED BY <1>10, <1>11, <2>2, <2>3, <2>4
<1>14. TokensKept'
  <2>1. held' \in [Coin -> [Holders -> Nat]]
    BY <1>2, <1>11, <1>12, <1>13
  <2>2. \A k \in Coin : SumFunction(held'[k]) = Issued
    BY <1>2, <1>12, <1>13
  <2>3. QED BY <2>1, <2>2 DEF TokensKept
<1>15. ASSUME fee < FeeDenominator, Covered
       PROVE  /\ balance'[i] <= held'[i][Pool]
              /\ balance'[j] <= held'[j][Pool]
  <2>1. \A k \in Coin : /\ balance[k] \in Nat /\ balance[k] <= held[k][Pool]
                        /\ held[k][Pool] \in Nat /\ held[k][Pool] <= Issued
    BY <1>15, StableFacts DEF Covered, StableSolvent, RecordIsNatural
  <2>2. balance'[i] = balance[i] + dx /\ balance[i] + dx \in 0..Issued
        /\ balance[i] + dx <= held'[i][Pool]
    <3>1. held'[i][Pool] <= Issued /\ held'[i][Pool] \in Nat
      BY <1>1, <1>12, HoldersFinite, SumIsOnSet
    <3>2. balance[i] + dx \in Nat /\ balance[i] + dx <= held'[i][Pool]
      BY <1>12, <2>1, <3>1
    <3>3. balance[i] + dx <= Issued /\ balance[i] + dx <= I128Max
      BY <1>1, <3>1, <3>2
    <3>4. Wrap(balance[i] + dx) = balance[i] + dx
      BY <3>2, <3>3, InsideWidth
    <3>5. QED BY <1>1, <1>11, <3>2, <3>3, <3>4
  <2>3. newY \in Magnitudes
    <3>1. D(i) \in Magnitudes
      <4>1. D(i) \in Int /\ balance[i] + balance[j] \in 0..(2 * Issued)
        BY <1>1, <1>7, <2>1
      <4>2. PICK s \in Nat : s = balance[i] + balance[j] /\ s <= 2 * Issued
        BY <1>1, <4>1
      <4>3. Wrap(s) \in -(I128Max + 1)..(I128Max + 1)
        BY <1>1, <4>2 DEF Wrap
      <4>4. Wrap(balance[i] + balance[j]) \in Magnitudes
        BY <4>2, <4>3 DEF Magnitudes
      <4>5. QED BY <1>1, <1>2, <1>5, <4>4, ComputeDInWidth DEF D
    <3>2. QED BY <1>1, <1>3, <1>4, <1>7, <3>1, ComputeYInWidth
  <2>4. PICK b \in Nat, T \in Nat, I \in Nat :
           /\ b = balance[j] /\ T = I128Max /\ I = Issued /\ b <= I /\ I < T
           /\ -(T + 1) <= newY /\ newY <= T + 1
    <3>1. balance[j] \in Nat /\ balance[j] <= Issued
      BY <1>1, <2>1
    <3>2. -(I128Max + 1) <= newY /\ newY <= I128Max + 1
      BY <1>1, <1>8, <2>3 DEF Magnitudes
    <3>3. QED BY <1>1, <3>1, <3>2
  <2>5. gross = IF b - newY - 1 > T THEN b - newY - 1 - 2 * (T + 1)
                ELSE IF b - newY - 1 < -T - 1 THEN b - newY - 1 + 2 * (T + 1)
                ELSE b - newY - 1
    BY <1>9, <2>4 DEF Wrap
  <2>6. -(T + 1) <= gross /\ gross <= T
    BY <1>8, <2>4, <2>5
  <2>7. dy <= gross /\ gross < T
    <3>1. Paid(gross) \in 0..Issued
      <4>1. dy <= Issued
        BY <1>1, <1>13, <2>1
      <4>2. QED BY <1>1, <1>9, <1>13, <4>1
    <3>2. -(I128Max + 1) <= gross /\ gross <= I128Max
      BY <2>4, <2>6
    <3>3. QED BY <1>1, <1>9, <1>15, <2>4, <3>1, <3>2, PaidIsLess
  <2>8. gross = b - newY - 1
    BY <1>8, <1>13, <2>4, <2>5, <2>6, <2>7
  <2>9. held[j][Pool] \in Nat /\ held'[j][Pool] \in Nat /\ b <= held[j][Pool]
    BY <1>1, <1>13, <2>1, <2>4
  <2>10. newY <= held'[j][Pool]
    BY <1>8, <1>13, <2>4, <2>7, <2>8, <2>9
  <2>11. balance'[i] <= held'[i][Pool]
    BY <1>1, <2>2
  <2>12. QED BY <1>11, <2>10, <2>11
<1>16. QED
  BY <1>2, <1>4, <1>6, <1>11, <1>14, <1>15 DEF AccountsKept, StableSolvent

\* The rest: what fee initialize sets finds the pool without one, and a ramp
\* and a tick leave the accounts alone.
LEMMA StableStepKeepsInv ==
    ASSUME AccountsInv, [StableNext]_stableVars
    PROVE  AccountsInv' /\ (Covered => StableSolvent')
<1>1. AmpInv'
  <2>1. [AmpNext]_ampVars
    BY StableStepIsRampStep
  <2>2. AmpInv
    BY DEF AccountsInv
  <2>3. QED BY <2>1, <2>2, AmpStepKeepsInv
<1>2. ASSUME UNCHANGED <<balance, lpSupply, lpBalance, held>>,
             fee < FeeDenominator \/ fee' = fee
      PROVE  AccountsKept' /\ (StableSolvent => StableSolvent')
  BY <1>2 DEF AccountsKept, AccountsInv, SharesKept, TokensKept, StableSolvent
<1>3. FeeDenominator \in Nat \ {0} /\ Fees \subseteq Nat
  BY StablePoolAssumption
<1>4. ASSUME NEW f \in Fees, NEW a \in Coefficients, InitializeStable(f, a)
      PROVE  /\ AccountsKept' /\ (Covered => StableSolvent')
             /\ fee' \in 0..FeeDenominator /\ initialized'
  <2>1. /\ fee' \in 0..FeeDenominator /\ initialized' /\ fee = 0
        /\ UNCHANGED <<balance, lpSupply, lpBalance, held>>
    BY <1>3, <1>4 DEF InitializeStable, SetInitialA, AccountsInv
  <2>2. fee < FeeDenominator
    BY <1>3, <2>1
  <2>3. QED BY <1>2, <2>1, <2>2 DEF Covered
<1>5. ASSUME NEW u \in Users, NEW a \in [Coin -> DepositAmounts],
             NEW m \in Minimums, NEW t \in LeadTimes, AddLiquidity(u, a, m, now + t)
      PROVE  /\ AccountsKept' /\ (Covered => StableSolvent')
             /\ fee' = fee /\ initialized' = initialized
  <2>1. /\ AccountsKept'
        /\ Covered /\ fee < FeeDenominator => \A c \in Coin : balance'[c] <= held'[c][Pool]
    BY <1>5, AddKeeps
  <2>2. fee' = fee /\ initialized' = initialized
    BY <1>5 DEF AddLiquidity, ampVars
  <2>3. QED BY <2>1, <2>2 DEF StableSolvent
<1>6. ASSUME NEW u \in Users, NEW n \in ShareAmounts, NEW c \in Coin,
             NEW m \in Minimums, RemoveLiquidityOneCoin(u, n, c, m)
      PROVE  /\ AccountsKept' /\ (Covered => StableSolvent')
             /\ fee' = fee /\ initialized' = initialized
  <2>1. AccountsKept' /\ (Covered /\ fee < FeeDenominator => StableSolvent')
    BY <1>6, RemoveKeeps
  <2>2. fee' = fee /\ initialized' = initialized
    BY <1>6 DEF RemoveLiquidityOneCoin, ampVars
  <2>3. QED BY <2>1, <2>2 DEF StableSolvent
<1>7. ASSUME NEW u \in Users, NEW i \in Coin, NEW n \in TradeAmounts,
             NEW m \in Minimums, NEW r \in Users \cup {Pool}, Exchange(u, i, n, m, r)
      PROVE  /\ AccountsKept' /\ (Covered => StableSolvent')
             /\ fee' = fee /\ initialized' = initialized
  <2>1. AccountsKept' /\ (Covered /\ fee < FeeDenominator => StableSolvent')
    BY <1>7, ExchangeKeeps
  <2>2. fee' = fee /\ initialized' = initialized
    BY <1>7 DEF Exchange, ampVars
  <2>3. QED BY <2>1, <2>2 DEF StableSolvent
<1>8. ASSUME NEW a \in Coefficients, NEW t \in 0..MaxTime, RampStable(a, t)
      PROVE  /\ AccountsKept' /\ (Covered => StableSolvent')
             /\ fee' = fee /\ initialized' = initialized
  BY <1>2, <1>8 DEF RampStable, RampA, Covered
<1>9. ASSUME TickStable \/ UNCHANGED stableVars
      PROVE  /\ AccountsKept' /\ (Covered => StableSolvent')
             /\ fee' = fee /\ initialized' = initialized
  BY <1>2, <1>9 DEF TickStable, TimePasses, stableVars, ampVars, Covered
<1>10. /\ AccountsKept' /\ (Covered => StableSolvent')
       /\ (fee' \in 0..FeeDenominator /\ initialized') \/ (fee' = fee /\ initialized' = initialized)
  BY <1>4, <1>5, <1>6, <1>7, <1>8, <1>9 DEF StableNext
<1>11. QED BY <1>1, <1>10 DEF AccountsInv, AccountsKept

\* As long as no recorded balance is negative the pool holds what it has
\* recorded, whatever compute_d and compute_y return, also where their products
\* wrap around: what is paid is one unit less than what the record falls by.
THEOREM StableRecordIsCovered == StableSpec /\ []RecordIsNatural => []StableSolvent
<1>1. StableInit => AccountsInv /\ StableSolvent
  BY StableInitInv
<1>2. (AccountsInv /\ StableSolvent) /\ RecordIsNatural /\ [StableNext]_stableVars
        => (AccountsInv /\ StableSolvent)'
  BY StableStepKeepsInv DEF Covered
<1>3. QED BY <1>1, <1>2, PTL DEF StableSpec

LEMMA AccountsInvariant == StableSpec => []AccountsInv
<1>1. StableInit => AccountsInv
  BY StableInitInv
<1>2. AccountsInv /\ [StableNext]_stableVars => AccountsInv'
  BY StableStepKeepsInv
<1>3. QED BY <1>1, <1>2, PTL DEF StableSpec

\* Whatever is deposited, withdrawn or exchanged, also with numbers below zero
\* and where sums and products wrap around: the accounts of shares add up to
\* the supply, modulo the width of i128, and transfers neither make nor lose
\* tokens.
THEOREM StableAccountsAddUp == StableSpec => [](SharesKept /\ TokensKept)
<1>1. AccountsInv => SharesKept /\ TokensKept
  BY DEF AccountsInv
<1>2. QED BY <1>1, AccountsInvariant, PTL

-----------------------------------------------------------------------------
(* What a withdrawal leaves.                                                 *)

LEMMA CurveIsSymmetric ==
    ASSUME NEW x \in Nat, NEW y \in Nat, NEW a \in Nat, NEW d \in Nat
    PROVE  OnOrAbove(x, y, a, d) <=> OnOrAbove(y, x, a, d)
<1>1. d * d * d + 4 * x * y * ((4 * a - 1) * d - 4 * a * (x + y))
        = d * d * d + 4 * y * x * ((4 * a - 1) * d - 4 * a * (y + x))
  OBVIOUS
<1>2. QED BY <1>1 DEF OnOrAbove

\* Balances on the curve of d or above it are above that of a smaller one.
LEMMA CurveIsMonotone ==
    ASSUME NEW x \in Nat, NEW y \in Nat, NEW a \in Nat \ {0}, NEW d \in Nat, NEW e \in 0..d,
           OnOrAbove(x, y, a, d)
    PROVE  OnOrAbove(x, y, a, e)
<1>1. e \in Nat /\ e <= d
  OBVIOUS
<1>2. PICK P \in Nat, A \in Nat, S \in Nat :
         P = 4 * x * y /\ A = 4 * a - 1 /\ S = 4 * a * (x + y)
  <2>1. 4 * x * y \in Nat /\ 4 * a - 1 \in Nat /\ 4 * a * (x + y) \in Nat
    OBVIOUS
  <2>2. QED BY <2>1
<1>3. e * e * e <= d * d * d
  <2>1. e * e <= d * d
    BY <1>1, ProductsCompare
  <2>2. e * e \in Nat /\ d * d \in Nat
    BY <1>1
  <2>3. QED BY <1>1, <2>1, <2>2, ProductsCompare
<1>4. P * (A * e) <= P * (A * d)
  <2>1. A * e <= A * d
    BY <1>1, ProductsCompare
  <2>2. A * e \in Nat /\ A * d \in Nat
    BY <1>1
  <2>3. QED BY <2>1, <2>2, ProductsCompare
<1>5. /\ P * (A * e - S) = P * (A * e) - P * S
      /\ P * (A * d - S) = P * (A * d) - P * S
  BY <1>1
<1>6. /\ P * (A * e) \in Int /\ P * (A * d) \in Int /\ P * S \in Int
      /\ e * e * e \in Int /\ d * d * d \in Int
  BY <1>1
<1>7. d * d * d + P * (A * d - S) <= 0
  BY <1>2 DEF OnOrAbove
<1>8. e * e * e + P * (A * e - S) <= 0
  BY <1>3, <1>4, <1>5, <1>6, <1>7
<1>9. QED BY <1>2, <1>8 DEF OnOrAbove

\* No balances with nothing of a coin are on the curve of a positive d.
LEMMA CurveNeedsBoth ==
    ASSUME NEW x \in Nat, NEW y \in Nat, NEW a \in Nat, NEW d \in Nat \ {0},
           OnOrAbove(x, y, a, d)
    PROVE  x # 0 /\ y # 0
<1> SUFFICES ASSUME x = 0 \/ y = 0 PROVE FALSE
  OBVIOUS
<1>1. PICK K \in Int : K = (4 * a - 1) * d - 4 * a * (x + y)
  OBVIOUS
<1>2. 4 * x * y = 0
  OBVIOUS
<1>3. d * d * d + 4 * x * y * K <= 0
  BY <1>1 DEF OnOrAbove
<1>4. 0 * K = 0
  OBVIOUS
<1>5. d * d * d \in Nat \ {0}
  <2>1. d * d \in Nat \ {0}
    BY ProductPositive
  <2>2. QED BY <2>1, ProductPositive
<1>6. QED BY <1>2, <1>3, <1>4, <1>5

\* No product that a withdrawal forms leaves i128: neither those of the two
\* iterations nor that of D and the supply.
ProductsFit ==
    balance[0] > 0 /\ balance[1] > 0 /\ CurrentA > 0 =>
        /\ DFits(balance[0], balance[1], CurrentA)
        /\ D(0) * lpSupply <= I128Max
        /\ \A c \in Coin, n \in ShareAmounts :
              n \in 0..lpSupply /\ RemainingD(n) > 0
                  => YFits(balance[1 - c], CurrentA, RemainingD(n))

\* The D that stays in proportion to the shares is D, rounded down.
LEMMA RemainingDRounded ==
    ASSUME NEW d \in Nat \ {0}, d = D(0), NEW s \in Nat \ {0}, s = lpSupply,
           d * s <= I128Max, NEW n \in 0..s
    PROVE  /\ s <= I128Max
           /\ RemainingD(n) = (d * (s - n)) \div s
           /\ RemainingD(n) \in 0..d
<1>1. PICK r \in Nat : r = s - n /\ r <= s
  OBVIOUS
<1>2. d * r <= d * s /\ d * r \in Nat /\ d * s \in Nat /\ 1 * s <= d * s /\ I128Max \in Nat
  BY <1>1, ProductsCompare, I128MaxAssumption
<1>3. s <= I128Max /\ r <= I128Max /\ d * r <= I128Max
  BY <1>1, <1>2
<1>4. RemainingD(n) = (d * r) \div s
  <2>1. Wrap(r) = r
    BY <1>1, <1>3, InsideWidth
  <2>2. WrapProduct(d * r) = d * r
    BY <1>2, <1>3, InsideWidth
  <2>3. RustQuotient(d * r, s) = (d * r) \div s
    BY <1>2, NaturalQuotient
  <2>4. QED BY <1>1, <2>1, <2>2, <2>3 DEF RemainingD
<1>5. (d * r) \div s \in 0..d
  <2>1. PICK q \in Nat : q = (d * r) \div s /\ q * s <= d * r
    BY <1>2, Rounded
  <2>2. q * s <= d * s
    <3>1. q * s \in Nat
      OBVIOUS
    <3>2. QED BY <1>2, <2>1, <3>1
  <2>3. q <= d
    BY <2>2, Cancel
  <2>4. QED BY <2>1, <2>3
<1>6. QED BY <1>1, <1>3, <1>4, <1>5

\* A withdrawal that leaves a supply which has not wrapped around takes no
\* more shares than there are.
LEMMA RemovedShares ==
    ASSUME NEW s \in Nat \ {0}, s = lpSupply, s <= I128Max, NEW n \in ShareAmounts,
           lpSupply' = Wrap(lpSupply - n), 0 <= lpSupply', lpSupply' < lpSupply
    PROVE  n \in 0..s /\ lpSupply' = s - n
<1>1. PICK T \in Nat : T = I128Max
  BY I128MaxAssumption
<1>2. n \in Int /\ -(T + 1) <= n /\ n <= T
  BY <1>1, StablePoolAssumption
<1>3. Wrap(s - n) = IF s - n > T THEN s - n - 2 * (T + 1)
                    ELSE IF s - n < -(T + 1) THEN s - n + 2 * (T + 1) ELSE s - n
  BY <1>1 DEF Wrap
<1>4. QED BY <1>1, <1>2, <1>3

LEMMA RemoveKeepsProportion ==
    ASSUME AccountsInv, Covered, ProductsFit, RecordIsNatural', fee < FeeDenominator,
           0 <= lpSupply', lpSupply' < lpSupply,
           NEW u \in Users, NEW n \in ShareAmounts, NEW k \in Coin, NEW m \in Minimums,
           RemoveLiquidityOneCoin(u, n, k, m),
           NEW d \in 1..(balance[0] + balance[1]), NEW c \in Coin,
           balance'[c] # balance[c], OnOrAbove(balance[0], balance[1], CurrentA, d)
    PROVE  OnOrAbove(balance'[c] + 2, balance[1 - c], CurrentA, (d * lpSupply') \div lpSupply)
<1>1. /\ balance \in [Coin -> Int] /\ 0 \in Coin /\ 1 \in Coin /\ 1 - 0 = 1
      /\ (c = 0 /\ 1 - c = 1) \/ (c = 1 /\ 1 - c = 0)
  BY DEF AccountsInv, Coin
<1>2. /\ balance' = [balance EXCEPT ![k]
                        = ComputeY(balance[1 - k], CurrentA, RemainingD(n))]
      /\ ComputeYOk(CurrentA) /\ lpSupply' = Wrap(lpSupply - n) /\ fee' = fee
  BY DEF RemoveLiquidityOneCoin
<1>3. c = k /\ balance'[c] = ComputeY(balance[1 - c], CurrentA, RemainingD(n))
  BY <1>1, <1>2
<1>4. PICK a \in Nat \ {0} : a = CurrentA
  <2>1. CurrentA \in 0..MaxA /\ MaxA \in Nat
    BY CurrentAIsBetween, CoefficientAssumption DEF AccountsInv
  <2>2. Ann(0) = 0
    <3>1. 4 * 0 = 0 /\ 0 \in Nat /\ 0 <= I128Max
      BY I128MaxAssumption
    <3>2. QED BY <3>1, InsideWidth DEF Ann
  <2>3. CurrentA # 0
    BY <1>2, <2>2 DEF ComputeYOk
  <2>4. QED BY <2>1, <2>3
<1>5. PICK b0 \in Nat, b1 \in Nat : b0 = balance[0] /\ b1 = balance[1]
  BY <1>1 DEF Covered, RecordIsNatural
<1>6. d \in Nat \ {0} /\ OnOrAbove(b0, b1, a, d)
  BY <1>4, <1>5
<1>7. b0 \in Nat \ {0} /\ b1 \in Nat \ {0}
  BY <1>4, <1>5, <1>6, CurveNeedsBoth
<1>8. PICK s \in Nat \ {0}, r \in Nat : s = lpSupply /\ r = lpSupply' /\ r < s
  <2>1. lpSupply \in Int /\ lpSupply' \in Int
    <3>1. n \in Int /\ lpSupply \in Int
      BY StablePoolAssumption, I128MaxAssumption DEF AccountsInv, SharesKept
    <3>2. lpSupply - n \in Int
      BY <3>1
    <3>3. QED BY <1>2, <3>1, <3>2, WrappedInteger
  <2>2. QED BY <2>1
<1>9. /\ DFits(b0, b1, a) /\ D(0) * s <= I128Max
      /\ n \in 0..s /\ RemainingD(n) > 0 => YFits(balance[1 - c], a, RemainingD(n))
  BY <1>4, <1>5, <1>7, <1>8 DEF ProductsFit
<1>10. PICK D0 \in Nat \ {0} : D0 = D(0) /\ ~OnOrAbove(b0, b1, a, D0 + 1)
  <2>1. D(0) = ComputeD(b0, b1, a)
    BY <1>1, <1>4, <1>5 DEF D
  <2>2. /\ ComputeD(b0, b1, a) \in 1..(2 * (b0 + b1))
        /\ ~OnOrAbove(b0, b1, a, ComputeD(b0, b1, a) + 1)
    BY <1>7, <1>9, ComputeDStops
  <2>3. ComputeD(b0, b1, a) \in Nat \ {0}
    BY <2>2
  <2>4. QED BY <2>1, <2>2, <2>3
<1>11. d <= D0
  <2> SUFFICES ASSUME D0 < d PROVE FALSE
    BY <1>6
  <2>1. D0 + 1 \in 0..d
    BY <1>6
  <2>2. QED BY <1>6, <1>10, <2>1, CurveIsMonotone
<1>12. n \in 0..s /\ r = s - n /\ RemainingD(n) = (D0 * r) \div s /\ RemainingD(n) \in 0..D0
  <2>1. D0 * s <= I128Max
    BY <1>9, <1>10
  <2>2. 1 * s <= D0 * s /\ D0 * s \in Nat /\ I128Max \in Nat
    BY ProductsCompare, I128MaxAssumption
  <2>3. s <= I128Max
    BY <2>1, <2>2
  <2>4. n \in 0..s /\ r = s - n
    BY <1>2, <1>8, <2>3, RemovedShares
  <2>5. RemainingD(n) = (D0 * (s - n)) \div s /\ RemainingD(n) \in 0..D0
    BY <1>8, <1>10, <2>1, <2>4, RemainingDRounded
  <2>6. QED BY <2>4, <2>5
<1>13. PICK R \in Nat : R = RemainingD(n) /\ R = (D0 * r) \div s
  BY <1>12
<1>14. PICK q \in Nat : q = (d * r) \div s /\ q <= R
  <2>1. d * r <= D0 * r /\ d * r \in Nat /\ D0 * r \in Nat
    BY <1>6, <1>11, ProductsCompare
  <2>2. (d * r) \div s \in Nat
    BY <2>1, Rounded
  <2>3. (d * r) \div s <= (D0 * r) \div s
    BY <2>1, QuotientsCompare
  <2>4. QED BY <1>13, <2>2, <2>3
<1>15. PICK x \in Nat \ {0} : x = balance[1 - c]
  BY <1>1, <1>5, <1>7
<1>16. PICK y \in Nat : y = balance'[c] /\ y = ComputeY(x, a, R)
  <2>1. ComputeY(x, a, R) \in Int
    <3>1. x \in Int /\ a \in Int /\ R \in Int /\ ComputeYOk(a)
      BY <1>2, <1>4
    <3>2. QED BY <3>1, ComputeYInWidth
  <2>2. balance'[c] = ComputeY(x, a, R)
    BY <1>3, <1>4, <1>13, <1>15
  <2>3. balance'[c] >= 0
    BY <1>2 DEF RecordIsNatural
  <2>4. QED BY <2>1, <2>2, <2>3
<1>17. OnOrAbove(x, y + 2, a, q)
  <2>1. x \in Nat /\ y + 2 \in Nat
    OBVIOUS
  <2>2. CASE R = 0
    <3>1. q = 0
      BY <1>14, <2>2
    <3>2. 0 * 0 * 0 + 4 * x * (y + 2) * ((4 * a - 1) * 0 - 4 * a * (x + (y + 2)))
            = -(4 * x * (y + 2) * (4 * a * (x + (y + 2))))
      BY <2>1
    <3>3. 4 * x * (y + 2) * (4 * a * (x + (y + 2))) \in Nat
      BY <2>1
    <3>4. 0 * 0 * 0 + 4 * x * (y + 2) * ((4 * a - 1) * 0 - 4 * a * (x + (y + 2))) <= 0
      BY <3>2, <3>3
    <3>5. QED BY <3>1, <3>4 DEF OnOrAbove
  <2>3. CASE R # 0
    <3>1. R \in Nat \ {0} /\ YFits(x, a, R)
      BY <1>9, <1>12, <1>13, <1>15, <2>3
    <3>2. OnOrAbove(x, y + 2, a, R)
      BY <1>16, <3>1, ComputeYReaches
    <3>3. q \in 0..R
      BY <1>14
    <3>4. QED BY <2>1, <3>2, <3>3, CurveIsMonotone
  <2>4. QED BY <2>2, <2>3
<1>18. OnOrAbove(y + 2, x, a, q)
  <2>1. x \in Nat /\ y + 2 \in Nat /\ a \in Nat
    OBVIOUS
  <2>2. QED BY <1>17, <2>1, CurveIsSymmetric
<1>19. QED BY <1>4, <1>8, <1>14, <1>15, <1>16, <1>18

\* Of the steps that change the supply only a withdrawal lowers a balance.
LEMMA BalanceFallsByRemoval ==
    ASSUME AccountsInv, Covered, [StableNext]_stableVars, fee < FeeDenominator,
           lpSupply' # lpSupply, NEW c \in Coin, balance'[c] < balance[c]
    PROVE  \E u \in Users, n \in ShareAmounts, k \in Coin, m \in Minimums :
              RemoveLiquidityOneCoin(u, n, k, m)
<1>1. ASSUME NEW u \in Users, NEW a \in [Coin -> DepositAmounts],
             NEW m \in Minimums, NEW t \in LeadTimes, AddLiquidity(u, a, m, now + t)
      PROVE  FALSE
  <2>1. balance'[c] >= balance[c] /\ AccountsKept'
    BY <1>1, AddKeeps
  <2>2. balance[c] \in Int /\ balance'[c] \in Int
    BY <2>1 DEF AccountsInv, AccountsKept
  <2>3. QED BY <2>1, <2>2
<1>2. QED
  BY <1>1 DEF StableNext, InitializeStable, Exchange, RampStable, TickStable, stableVars

\* As long as no recorded balance is negative and the products of a withdrawal
\* stay inside i128, a withdrawal leaves the pool at most two units below the
\* curve that is in proportion to the shares that stay, also where compute_d
\* and compute_y are far from their limit when they end.
THEOREM StableWithdrawalKeepsProportion ==
    StableSpec /\ [](RecordIsNatural /\ ProductsFit) => WithdrawalKeepsProportion
<1> DEFINE Kept ==
        fee < FeeDenominator /\ 0 <= lpSupply' /\ lpSupply' < lpSupply =>
          \A d \in 1..(balance[0] + balance[1]), c \in Coin :
              /\ balance'[c] < balance[c]
              /\ OnOrAbove(balance[0], balance[1], CurrentA, d)
              => OnOrAbove(balance'[c] + 2, balance[1 - c], CurrentA,
                           (d * lpSupply') \div lpSupply)
           Fine == RecordIsNatural /\ ProductsFit
<1>1. AccountsInv /\ StableSolvent /\ Fine /\ Fine' /\ [StableNext]_stableVars => Kept
  <2> SUFFICES ASSUME AccountsInv, StableSolvent, RecordIsNatural, ProductsFit,
                      RecordIsNatural', [StableNext]_stableVars,
                      fee < FeeDenominator, 0 <= lpSupply', lpSupply' < lpSupply,
                      NEW d \in 1..(balance[0] + balance[1]), NEW c \in Coin,
                      balance'[c] < balance[c],
                      OnOrAbove(balance[0], balance[1], CurrentA, d)
               PROVE  OnOrAbove(balance'[c] + 2, balance[1 - c], CurrentA,
                                (d * lpSupply') \div lpSupply)
    OBVIOUS
  <2>1. Covered
    BY DEF Covered
  <2>2. lpSupply' # lpSupply /\ balance'[c] # balance[c]
    <3>1. AccountsInv'
      BY StableStepKeepsInv
    <3>2. /\ lpSupply \in Int /\ lpSupply' \in Int
          /\ balance[c] \in Int /\ balance'[c] \in Int
      BY <3>1 DEF AccountsInv, SharesKept
    <3>3. QED BY <3>2
  <2>3. PICK u \in Users, n \in ShareAmounts, k \in Coin, m \in Minimums :
           RemoveLiquidityOneCoin(u, n, k, m)
    BY <2>1, <2>2, BalanceFallsByRemoval
  <2>4. QED BY <2>1, <2>2, <2>3, RemoveKeepsProportion
<1>2. AccountsInv /\ StableSolvent /\ Fine /\ Fine' /\ [StableNext]_stableVars
        => [Kept]_stableVars
  BY <1>1
<1>3. StableSpec => []AccountsInv
  BY AccountsInvariant
<1>4. StableSpec /\ []RecordIsNatural => []StableSolvent
  BY StableRecordIsCovered
<1> HIDE DEF Kept
<1>5. [][Kept]_stableVars => WithdrawalKeepsProportion
  BY DEF Kept, WithdrawalKeepsProportion
<1>6. QED BY <1>2, <1>3, <1>4, <1>5, PTL DEF StableSpec, Fine
=============================================================================
