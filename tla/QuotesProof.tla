----------------------------- MODULE QuotesProof -----------------------------
(***************************************************************************)
(* The arithmetic that quotes and steps are made of, for every pool,       *)
(* amount, fee and width of integers, and the routing that makes quotes of *)
(* it, for every market.                                                   *)
(*                                                                         *)
(* integer_sqrt returns the integer square root of every argument below    *)
(* the limit of i128, whatever that limit is.  The one step that matters   *)
(* is that the mean of r and x / r is not below the root: a mean of two    *)
(* numbers is at least their geometric mean, even when both quotients of   *)
(* the code are rounded down.                                              *)
(*                                                                         *)
(* The search of paths is a recursion over places; what it finds, and that *)
(* it ends, is shown by induction on the rank of a place.  Answers can be  *)
(* carried out because neither a path nor a split of two short paths uses  *)
(* a pool twice.                                                           *)
(***************************************************************************)
EXTENDS MCQuotes, Routing, ProofLemmas, SequenceTheorems

\* A mean that is rounded down stays at or above the root.
LEMMA MeanAboveRoot ==
    ASSUME NEW v \in Nat, NEW s \in Nat, NEW m \in Nat, NEW n \in Nat,
           v < m * s + s, s + m <= 2 * n + 1
    PROVE  v < (n + 1) * (n + 1)
<1>1. (s + m + 1) * (s + m + 1) <= (2 * (n + 1)) * (2 * (n + 1))
  BY ProductsCompare
<1>2. (2 * (n + 1)) * (2 * (n + 1)) = 4 * ((n + 1) * (n + 1))
  OBVIOUS
<1>3. (s + m + 1) * (s + m + 1) = 4 * (m * s + s) + (s - m - 1) * (s - m - 1)
  OBVIOUS
<1>4. (s - m - 1) * (s - m - 1) >= 0
  OBVIOUS
<1>5. QED BY <1>1, <1>2, <1>3, <1>4

\* The first guess is the largest sum: later ones do not wrap either.
LEMMA SumBelowArgument ==
    ASSUME NEW v \in Nat, NEW s \in 1..v, NEW m \in Nat, m * s <= v
    PROVE  s + m <= v + 1
<1>1. CASE m = 0
  BY <1>1
<1>2. CASE m > 0
  <2>1. (s - 1) * (m - 1) >= 0
    BY <1>2
  <2>2. (s - 1) * (m - 1) = m * s - s - m + 1
    OBVIOUS
  <2>3. QED BY <2>1, <2>2
<1>3. QED BY <1>1, <1>2

\* Rust's quotient of naturals rounds down.
LEMMA QuotientOfNaturals ==
    ASSUME NEW n \in Nat, NEW d \in Nat, d > 0
    PROVE  Sqrt!RustQuotient(n, d) = n \div d
BY DEF Sqrt!RustQuotient

-----------------------------------------------------------------------------
\* One step of the loop below the limit.
LEMMA DescendsToRoot ==
    ASSUME Sqrt!RootFromAbove, x < SqrtWidth, Sqrt!Descend
    PROVE  Sqrt!RootFromAbove'
<1> USE SqrtWidthAssumption
<1> DEFINE m == x \div r
           next == (r + m) \div 2
<1>1. /\ x \in Nat /\ r \in Nat /\ x > 0 /\ r > 0 /\ r <= x
      /\ r > Sqrt!RustQuotient(x, r)
  BY DEF Sqrt!RootFromAbove, Sqrt!SqrtTypeOK, Sqrt!Descend
<1>2. /\ Sqrt!RustQuotient(x, r) = m
      /\ m \in Nat /\ m * r <= x /\ x < m * r + r
  BY <1>1, Rounded, QuotientOfNaturals
<1> HIDE DEF m
<1>3. r + m <= x + 1
  BY <1>1, <1>2, SumBelowArgument
<1>4. Sqrt!Wrap(r + m) = r + m
  BY <1>1, <1>2, <1>3 DEF Sqrt!Wrap, Sqrt!RootFromAbove, Sqrt!SqrtTypeOK
<1>5. Sqrt!RustQuotient(r + m, 2) = next
  BY <1>1, <1>2, QuotientOfNaturals
<1>6. /\ next \in Nat /\ next < r /\ r + m <= 2 * next + 1
  BY <1>1, <1>2
<1> HIDE DEF next
<1>7. r' = next /\ UNCHANGED <<x, done>> /\ ~done
  BY <1>1, <1>2, <1>4, <1>5, <1>6 DEF Sqrt!Descend
<1>8. x < (next + 1) * (next + 1)
  <2>1. PICK v \in Nat, s \in Nat, w \in Nat, n \in Nat :
           v = x /\ s = r /\ w = m /\ n = next
    BY <1>1, <1>2, <1>6
  <2>2. v < w * s + s /\ s + w <= 2 * n + 1
    BY <1>2, <1>6, <2>1
  <2>3. v < (n + 1) * (n + 1)
    BY <2>2, MeanAboveRoot
  <2>4. QED BY <2>1, <2>3
<1>9. next > 0
  BY <1>1, <1>6, <1>8
<1>10. QED
  BY <1>1, <1>6, <1>7, <1>8, <1>9 DEF Sqrt!RootFromAbove, Sqrt!SqrtTypeOK, Sqrt!I128

\* At the limit the first sum wraps; the step after it, if any, is the break.
LEMMA WrapsAtLimit ==
    ASSUME Sqrt!RootFromAbove, x = SqrtWidth, Sqrt!Descend
    PROVE  Sqrt!RootFromAbove'
<1> USE SqrtWidthAssumption
<1> DEFINE h == (x + 1) \div 2
<1>1. /\ h \in Nat /\ h > 0 /\ (x = 2 * h \/ x = 2 * h - 1)
      /\ x \in Nat /\ x > 1 /\ (r = x \/ r = -h)
  BY DEF Sqrt!RootFromAbove, Sqrt!SqrtTypeOK
<1>2. CASE r = x
  <2>1. x \div x = 1
    BY <1>1
  <2>2. Sqrt!RustQuotient(x, r) = 1
    BY <1>1, <1>2, <2>1, QuotientOfNaturals
  <2>3. Sqrt!Wrap(r + 1) = -(x + 1)
    BY <1>1, <1>2 DEF Sqrt!Wrap
  <2>4. Sqrt!RustQuotient(-(x + 1), 2) = -h
    BY <1>1 DEF Sqrt!RustQuotient
  <2>5. r' = -h /\ UNCHANGED <<x, done>> /\ ~done
    BY <1>1, <1>2, <2>2, <2>3, <2>4 DEF Sqrt!Descend
  <2>6. QED
    BY <1>1, <2>5 DEF Sqrt!RootFromAbove, Sqrt!SqrtTypeOK, Sqrt!I128
<1>3. CASE r = -h
  <2>1. Sqrt!RustQuotient(x, r) = -(x \div h)
    BY <1>1, <1>3 DEF Sqrt!RustQuotient
  <2>2. r > Sqrt!RustQuotient(x, r) /\ ~done
    BY DEF Sqrt!Descend
  <2>3. h = 1 /\ x = 2
    <3>1. CASE h = 1
      BY <1>1, <3>1
    <3>2. CASE h > 1 /\ x = 2 * h
      <4>1. x \div h = 2  BY <1>1, <3>2
      <4>2. QED BY <1>1, <1>3, <2>1, <2>2, <3>2, <4>1
    <3>3. CASE h > 1 /\ x = 2 * h - 1
      <4>1. x \div h = 1  BY <1>1, <3>3
      <4>2. QED BY <1>1, <1>3, <2>1, <2>2, <3>3, <4>1
    <3>4. QED BY <1>1, <3>1, <3>2, <3>3
  <2>4. /\ Sqrt!RustQuotient(x, r) = -2 /\ Sqrt!Wrap(r + (-2)) = -3
        /\ Sqrt!RustQuotient(-3, 2) = -1
    BY <1>3, <2>1, <2>3 DEF Sqrt!RustQuotient, Sqrt!Wrap
  <2>5. UNCHANGED <<x, r>> /\ done'
    BY <1>3, <2>3, <2>4 DEF Sqrt!Descend
  <2>6. QED
    BY <1>1, <1>3, <2>5 DEF Sqrt!RootFromAbove, Sqrt!SqrtTypeOK, Sqrt!I128
<1>4. QED BY <1>1, <1>2, <1>3

\* RootFromAbove is inductive: the iteration never falls below the root.
LEMMA StaysAboveRoot ==
    Sqrt!RootFromAbove /\ [Sqrt!SqrtNext]_<<x, r, done>> => Sqrt!RootFromAbove'
<1> SUFFICES ASSUME Sqrt!RootFromAbove, [Sqrt!SqrtNext]_<<x, r, done>>
             PROVE  Sqrt!RootFromAbove'
  OBVIOUS
<1> USE SqrtWidthAssumption
<1>1. x \in 0..SqrtWidth
  BY DEF Sqrt!RootFromAbove, Sqrt!SqrtTypeOK
<1>2. CASE UNCHANGED <<x, r, done>>
  BY <1>2 DEF Sqrt!RootFromAbove, Sqrt!SqrtTypeOK
<1>3. CASE Sqrt!ReturnZero
  BY <1>3 DEF Sqrt!ReturnZero, Sqrt!RootFromAbove, Sqrt!SqrtTypeOK
<1>4. CASE Sqrt!Descend
  BY <1>1, <1>4, DescendsToRoot, WrapsAtLimit
<1>5. CASE Sqrt!Return
  <2>1. UNCHANGED <<x, r>> /\ done' /\ x # 0 /\ r <= Sqrt!RustQuotient(x, r)
    BY <1>5 DEF Sqrt!Return
  <2>2. CASE x < SqrtWidth
    <3>1. r \in Nat /\ r > 0 /\ x \in Nat
      BY <1>1, <2>1, <2>2 DEF Sqrt!RootFromAbove
    <3>2. Sqrt!RustQuotient(x, r) = x \div r /\ x \div r \in Nat /\ (x \div r) * r <= x
      BY <3>1, Rounded, QuotientOfNaturals
    <3>3. r * r <= (x \div r) * r
      BY <2>1, <3>1, <3>2, ProductsCompare
    <3>4. r * r <= x
      BY <3>1, <3>2, <3>3
    <3>5. QED BY <2>1, <2>2, <3>4 DEF Sqrt!RootFromAbove, Sqrt!SqrtTypeOK
  <2>3. CASE x = SqrtWidth
    <3>1. r # x
      <4>1. SUFFICES ASSUME r = x PROVE FALSE
        OBVIOUS
      <4>2. x \div x = 1
        BY <2>3
      <4>3. Sqrt!RustQuotient(x, r) = 1
        BY <2>3, <4>1, <4>2, QuotientOfNaturals
      <4>4. QED BY <2>1, <2>3, <4>1, <4>3
    <3>2. QED BY <2>1, <2>3, <3>1 DEF Sqrt!RootFromAbove, Sqrt!SqrtTypeOK
  <2>4. QED BY <1>1, <2>2, <2>3
<1>6. QED BY <1>2, <1>3, <1>4, <1>5 DEF Sqrt!SqrtNext


\* The invariant: a question stays what it is, and so does the loop's distance
\* from its root.
QuestionsInv ==
    /\ q \in ProductQuestions \cup StableQuestions \cup StepQuestions
             \cup {[pool |-> "none"]}
    /\ q.pool = "none" => Sqrt!RootFromAbove

LEMMA StartsAboveRoot == Sqrt!SqrtInit => Sqrt!RootFromAbove
<1> SUFFICES ASSUME Sqrt!SqrtInit PROVE Sqrt!RootFromAbove
  OBVIOUS
<1>1. x \in 0..SqrtWidth /\ r = x /\ done = FALSE
  BY DEF Sqrt!SqrtInit
<1>2. Sqrt!SqrtTypeOK
  <2>1. done \in BOOLEAN  BY <1>1
  <2>2. r \in Sqrt!I128  BY <1>1, SqrtWidthAssumption DEF Sqrt!I128
  <2>3. QED BY <1>1, <2>1, <2>2 DEF Sqrt!SqrtTypeOK
<1>3. x \in Nat /\ x < (x + 1) * (x + 1)
  BY <1>1, SqrtWidthAssumption
<1>4. x < (r + 1) * (r + 1)
  BY <1>1, <1>3
<1>5. QED BY <1>1, <1>2, <1>3, <1>4 DEF Sqrt!RootFromAbove

LEMMA QuestionsStay == QuoteInit => QuestionsInv
<1>1. ASSUME QuoteInit PROVE QuestionsInv
  <2>1. CASE q \in ProductQuestions \cup StableQuestions \cup StepQuestions
    <3>1. q.pool # "none"
      BY <2>1 DEF ProductQuestions, StableQuestions, StepQuestions
    <3>2. QED BY <2>1, <3>1 DEF QuestionsInv
  <2>2. CASE q = [pool |-> "none"] /\ Sqrt!SqrtInit
    BY <2>2, StartsAboveRoot DEF QuestionsInv
  <2>3. QED BY <1>1, <2>1, <2>2 DEF QuoteInit
<1>2. QED BY <1>1

\* The quotes rest on this invariant, which every step keeps.
THEOREM QuotesTyped == QuoteSpec => []QuestionsInv
<1>1. QuestionsInv /\ [QuoteNext]_quoteVars => QuestionsInv'
  <2> SUFFICES ASSUME QuestionsInv, [QuoteNext]_quoteVars PROVE QuestionsInv'
    OBVIOUS
  <2>1. q' = q /\ [Sqrt!SqrtNext]_<<x, r, done>>
    BY DEF QuoteNext, quoteVars
  <2>2. QED BY <2>1, StaysAboveRoot DEF QuestionsInv
<1>2. QED BY QuestionsStay, <1>1, PTL DEF QuoteSpec

\* integer_sqrt of math.rs returns the integer square root of every argument
\* below the limit of i128.
THEOREM SqrtReturnsRoot == QuoteSpec => []ReturnsRoot
<1>1. QuestionsInv => ReturnsRoot
  BY DEF QuestionsInv, ReturnsRoot, Sqrt!ReturnsRoot, Sqrt!RootFromAbove, Sqrt!IsIntegerSqrt
<1>2. QED BY <1>1, QuotesTyped, PTL

\* At the limit, and only there, its result is negative: the caller rejects it.
THEOREM SqrtRefusesLimit == QuoteSpec => [](q.pool = "none" => Sqrt!LimitIsRefused)
<1>1. QuestionsInv => (q.pool = "none" => Sqrt!LimitIsRefused)
  BY SqrtWidthAssumption
     DEF QuestionsInv, Sqrt!RootFromAbove, Sqrt!SqrtTypeOK, Sqrt!LimitIsRefused
<1>2. QED BY <1>1, QuotesTyped, PTL

-----------------------------------------------------------------------------
(* Constant-product pools. *)

\* A quotient is at least n if the dividend holds n divisors.
LEMMA QuotientAtLeast ==
    ASSUME NEW a \in Nat, NEW d \in Nat \ {0}, NEW n \in Nat, n * d <= a
    PROVE  n <= a \div d
<1>1. a \div d \in Nat /\ a < (a \div d) * d + d
  BY Rounded
<1>2. ((a \div d) + 1) * d = (a \div d) * d + d
  BY <1>1
<1>3. SUFFICES ASSUME (a \div d) + 1 <= n PROVE FALSE
  BY <1>1
<1>4. ((a \div d) + 1) * d <= n * d
  BY <1>1, <1>3, ProductsCompare
<1>5. n * d \in Nat /\ (a \div d) * d \in Nat
  BY <1>1
<1>6. QED BY <1>1, <1>2, <1>4, <1>5

\* The quotient plus one buys the amount it was computed for.
LEMMA InputSuffices ==
    ASSUME NEW in \in Nat \ {0}, NEW out \in Nat, NEW bought \in Nat,
           bought < out, NEW fee \in Nat, fee < FeeDenominator
    PROVE  AmountOut(AmountIn(bought, in, out, fee), in, out, fee) >= bought
<1> DEFINE k == FeeDenominator - fee
           owed == in * bought * FeeDenominator
           left == out - bought
           quot == owed \div (left * k)
           w == (quot + 1) * k
           whole == in * FeeDenominator + w
<1>1. /\ FeeDenominator \in Nat \ {0} /\ k \in Nat \ {0} /\ left \in Nat \ {0}
      /\ out = left + bought
  BY FeeDenominatorAssumption
<1> HIDE DEF k, left
<1>2. owed \in Nat /\ left * k \in Nat \ {0} /\ in * FeeDenominator \in Nat \ {0}
  BY <1>1
<1>3. quot \in Nat /\ owed < quot * (left * k) + left * k
  BY <1>2, Rounded
<1> HIDE DEF quot
<1>4. w \in Nat /\ w * left = quot * (left * k) + left * k
  BY <1>1, <1>3
<1>5. whole \in Nat \ {0}
  BY <1>2, <1>4
<1>6. /\ w * out = w * left + w * bought
      /\ bought * whole = owed + w * bought
  BY <1>1, <1>2, <1>4
<1> HIDE DEF w, whole, owed
<1>7. w * out \in Nat /\ w * bought \in Nat /\ w * left \in Nat /\ bought * whole \in Nat
  BY <1>1, <1>4, <1>5
<1>8. bought * whole <= w * out
  BY <1>2, <1>3, <1>4, <1>6, <1>7
<1>9. bought <= (w * out) \div whole
  BY <1>5, <1>7, <1>8, QuotientAtLeast
<1>10. AmountIn(bought, in, out, fee) = quot + 1
  BY DEF AmountIn, quot, owed, left, k
<1>11. AmountOut(quot + 1, in, out, fee) = (w * out) \div whole
  BY DEF AmountOut, w, whole, k
<1>12. (w * out) \div whole \in Nat
  BY <1>5, <1>7, Rounded
<1>13. QED BY <1>9, <1>10, <1>11, <1>12

\* get_amount_in and get_amount_out of math.rs: what is asked for an output buys
\* at least that output, for any reserves, fee and amount.
THEOREM AskedInputAlwaysSuffices == QuoteSpec => []AskedInputSuffices
<1>1. ASSUME QuestionsInv PROVE AskedInputSuffices
  <2>1. SUFFICES ASSUME q.pool = "product",
                        AmountInOk(q.first, q.reserveIn, q.reserveOut, q.fee)
                 PROVE  AmountOut(AmountIn(q.first, q.reserveIn, q.reserveOut, q.fee),
                                  q.reserveIn, q.reserveOut, q.fee) >= q.first
    BY DEF AskedInputSuffices
  <2>2. q \in ProductQuestions
    BY <1>1, <2>1 DEF QuestionsInv, StableQuestions, StepQuestions
  <2>3. /\ q.reserveIn \in Nat \ {0} /\ q.reserveOut \in Nat /\ q.first \in Nat
        /\ q.fee \in 0..FeeDenominator
    BY <2>2 DEF ProductQuestions
  <2>4. q.first < q.reserveOut /\ q.fee # FeeDenominator
    BY <2>1 DEF AmountInOk
  <2>5. q.fee \in Nat /\ q.fee < FeeDenominator
    BY <2>3, <2>4, FeeDenominatorAssumption
  <2>6. QED BY <2>3, <2>4, <2>5, InputSuffices
<1>2. QED BY <1>1, QuotesTyped, PTL

\* The fee on the first amount stays in the pool, and the second swap is priced
\* by what the first one leaves.
LEMMA SplitPaysLess ==
    ASSUME NEW in \in Nat \ {0}, NEW out \in Nat, NEW fee \in 0..FeeDenominator,
           NEW a \in Nat, NEW b \in Nat
    PROVE  LET out1 == AmountOut(a, in, out, fee)
               out2 == AmountOut(b, in + a, out - out1, fee)
           IN  out1 + out2 <= AmountOut(a + b, in, out, fee)
<1> DEFINE k == FeeDenominator - fee
           wa == a * k
           wb == b * k
           base == in * FeeDenominator
           out1 == (wa * out) \div (base + wa)
           left == out - out1
           whole2 == (in + a) * FeeDenominator + wb
           out2 == (wb * left) \div whole2
           whole == base + wa + wb
<1>1. FeeDenominator \in Nat \ {0} /\ k \in Nat /\ k <= FeeDenominator
  BY FeeDenominatorAssumption
<1>2. /\ wa \in Nat /\ wb \in Nat /\ base \in Nat \ {0}
      /\ base + wa \in Nat \ {0} /\ whole \in Nat \ {0}
  BY <1>1
<1>3. /\ (in + a) * FeeDenominator = base + a * FeeDenominator
      /\ wa <= a * FeeDenominator
  BY <1>1, ProductsCompare
<1>4. (a + b) * k = wa + wb
  BY <1>1
<1> HIDE DEF k, wa, wb, base
<1>5. wa * out \in Nat
  BY <1>2
<1>6. out1 \in Nat /\ out1 * (base + wa) <= wa * out
  BY <1>2, <1>5, Rounded
<1>7. out1 <= out
  <2>1. wa * out <= (base + wa) * out
    BY <1>2, ProductsCompare
  <2>2. out1 * (base + wa) <= out * (base + wa)
    BY <1>2, <1>5, <1>6, <2>1
  <2>3. QED BY <1>2, <1>6, <2>2, Cancel
<1>8. left \in Nat /\ out = left + out1
  BY <1>6, <1>7
<1> HIDE DEF out1, left
<1>9. whole2 \in Nat \ {0} /\ whole <= whole2
  BY <1>1, <1>2, <1>3
<1>10. wb * left \in Nat
  BY <1>2, <1>8
<1> HIDE DEF whole2, whole
<1>11. out2 \in Nat /\ out2 * whole2 <= wb * left
  BY <1>9, <1>10, Rounded
<1> HIDE DEF out2
<1>12. out2 * whole <= wb * left
  <2>1. out2 * whole <= out2 * whole2
    BY <1>2, <1>9, <1>11, ProductsCompare
  <2>2. out2 * whole \in Nat /\ out2 * whole2 \in Nat
    BY <1>2, <1>9, <1>11
  <2>3. QED BY <1>10, <1>11, <2>1, <2>2
<1>13. (out1 + out2) * whole = out1 * (base + wa) + out1 * wb + out2 * whole
  BY <1>2, <1>6, <1>11 DEF whole
<1>14. wb * out = wb * left + out1 * wb
  BY <1>2, <1>6, <1>8
<1>15. /\ (wa + wb) * out = wa * out + wb * out
       /\ wb * out \in Nat /\ out1 * wb \in Nat /\ out2 * whole \in Nat
       /\ out1 * (base + wa) \in Nat
  BY <1>2, <1>6, <1>11
<1>16. (out1 + out2) * whole <= (wa + wb) * out
  BY <1>5, <1>6, <1>10, <1>12, <1>13, <1>14, <1>15
<1>17. out1 + out2 <= ((wa + wb) * out) \div whole
  BY <1>2, <1>5, <1>6, <1>11, <1>15, <1>16, QuotientAtLeast
<1>18. AmountOut(a, in, out, fee) = out1
  BY DEF AmountOut, out1, wa, k, base
<1>19. AmountOut(b, in + a, left, fee) = out2
  BY DEF AmountOut, out2, whole2, wb, k
<1>20. AmountOut(a + b, in, out, fee) = ((wa + wb) * out) \div whole
  <2>1. AmountOut(a + b, in, out, fee) = (((a + b) * k) * out) \div (base + (a + b) * k)
    BY DEF AmountOut, base, k
  <2>2. base + (wa + wb) = whole
    BY <1>2 DEF whole
  <2>3. QED BY <1>4, <2>1, <2>2
<1>21. QED BY <1>17, <1>18, <1>19, <1>20 DEF left

\* get_amount_out of math.rs: nothing is gained by cutting a swap in two, for
\* any reserves, fee and amounts.
THEOREM SplittingPaysNowhere == QuoteSpec => []SplittingNeverPays
<1>1. ASSUME QuestionsInv PROVE SplittingNeverPays
  <2>1. ASSUME q.pool = "product"
        PROVE  LET out1 == AmountOut(q.first, q.reserveIn, q.reserveOut, q.fee)
                   out2 == AmountOut(q.second, q.reserveIn + q.first,
                                     q.reserveOut - out1, q.fee)
               IN  out1 + out2
                     <= AmountOut(q.first + q.second, q.reserveIn, q.reserveOut, q.fee)
    <3>1. q \in ProductQuestions
      BY <1>1, <2>1 DEF QuestionsInv, StableQuestions, StepQuestions
    <3>2. /\ q.reserveIn \in Nat \ {0} /\ q.reserveOut \in Nat
          /\ q.first \in Nat /\ q.second \in Nat /\ q.fee \in 0..FeeDenominator
      BY <3>1 DEF ProductQuestions
    <3>3. QED BY <3>2, SplitPaysLess
  <2>2. QED BY <2>1 DEF SplittingNeverPays
<1>2. QED BY <1>1, QuotesTyped, PTL

-----------------------------------------------------------------------------
(* The square roots of the backend and of the frontend, whose loops OffchainMath *)
(* writes as recursive functions: that such a function exists is part of what is *)
(* shown.                                                                        *)

Root(v) == CHOOSE n \in Nat : IsIntegerSqrt(n, v)

LEMMA RootUnique ==
    ASSUME NEW v \in Nat, NEW m \in Nat, NEW n \in Nat,
           IsIntegerSqrt(m, v), IsIntegerSqrt(n, v)
    PROVE  m = n
<1>1. ASSUME NEW a \in Nat, NEW b \in Nat, IsIntegerSqrt(a, v), IsIntegerSqrt(b, v), a < b
      PROVE  FALSE
  <2>1. (a + 1) * (a + 1) <= b * b
    BY <1>1, ProductsCompare
  <2>2. v < (a + 1) * (a + 1) /\ b * b <= v
    BY <1>1 DEF IsIntegerSqrt
  <2>3. (a + 1) * (a + 1) \in Nat /\ b * b \in Nat
    BY <1>1
  <2>4. QED BY <2>1, <2>2, <2>3
<1>2. QED BY <1>1

LEMMA RootExists ==
    ASSUME NEW v \in Nat \ {0}
    PROVE  Root(v) \in Nat \ {0} /\ IsIntegerSqrt(Root(v), v)
<1> DEFINE T == {n \in Nat : v < (n + 1) * (n + 1)}
<1>1. T \in SUBSET Nat /\ v \in T
  OBVIOUS
<1>2. PICK n \in T : \A m \in T : n <= m
  BY <1>1, LeastNatural
<1>3. n # 0
  BY <1>2
<1>4. n - 1 \in Nat /\ n - 1 \notin T
  BY <1>2, <1>3
<1>5. ((n - 1) + 1) * ((n - 1) + 1) = n * n /\ n * n \in Nat
  BY <1>4
<1>6. IsIntegerSqrt(n, v)
  BY <1>2, <1>4, <1>5 DEF IsIntegerSqrt
<1>7. Root(v) \in Nat /\ IsIntegerSqrt(Root(v), v)
  BY <1>2, <1>6 DEF Root
<1>8. QED BY <1>2, <1>3, <1>6, <1>7, RootUnique

\* The mean of a value above the root and its quotient.
LEMMA MeanDescends ==
    ASSUME NEW v \in Nat \ {0}, NEW s \in Nat \ {0}, ~(s <= v \div s)
    PROVE  LET mean == (s + v \div s) \div 2
           IN  mean \in Nat \ {0} /\ mean < s /\ v < (mean + 1) * (mean + 1)
<1> DEFINE m == v \div s
           mean == (s + m) \div 2
<1>1. m \in Nat /\ v < m * s + s /\ m < s
  BY Rounded
<1> HIDE DEF m
<1>2. mean \in Nat /\ mean < s /\ s + m <= 2 * mean + 1
  BY <1>1
<1> HIDE DEF mean
<1>3. v < (mean + 1) * (mean + 1)
  BY <1>1, <1>2, MeanAboveRoot
<1>4. mean # 0
  BY <1>3
<1>5. QED BY <1>2, <1>3, <1>4 DEF m, mean

LEMMA EndsAtRoot ==
    ASSUME NEW v \in Nat \ {0}, NEW s \in Nat \ {0}, s <= v \div s, v < (s + 1) * (s + 1)
    PROVE  s = Root(v)
<1>1. v \div s \in Nat /\ (v \div s) * s <= v
  BY Rounded
<1>2. s * s <= (v \div s) * s
  BY <1>1, ProductsCompare
<1>3. s * s \in Nat /\ (v \div s) * s \in Nat
  BY <1>1
<1>4. IsIntegerSqrt(s, v)
  BY <1>1, <1>2, <1>3 DEF IsIntegerSqrt
<1>5. QED BY <1>4, RootExists, RootUnique

\* What both loops are: the break of the backend's is never taken.
Mean(v, s) == (s + v \div s) \div 2

IsLoop(f, v) ==
    f = [s \in Nat \ {0} |-> IF s <= v \div s THEN s ELSE f[Mean(v, s)]]

IsBreakingLoop(f, v) ==
    f = [s \in Nat \ {0} |-> IF s <= v \div s \/ Mean(v, s) >= s THEN s ELSE f[Mean(v, s)]]

LEMMA LoopDefinitions ==
    ASSUME NEW v
    PROVE  /\ SqrtFrom(v) = (CHOOSE f : IsLoop(f, v))[v]
           /\ IntegerSqrtFrom(v) = (CHOOSE f : IsBreakingLoop(f, v))[v]
BY Zenon DEF SqrtFrom, IntegerSqrtFrom, IsLoop, IsBreakingLoop, Mean

\* The function of both: the value itself up to the root, and the root above it.
LoopResult(v) == [s \in Nat \ {0} |-> IF s <= v \div s THEN s ELSE Root(v)]

LEMMA LoopExists ==
    ASSUME NEW v \in Nat \ {0}
    PROVE  IsLoop(LoopResult(v), v) /\ IsBreakingLoop(LoopResult(v), v)
<1> DEFINE f == LoopResult(v)
<1>1. \A s \in Nat \ {0} : f[s] = IF s <= v \div s THEN s ELSE Root(v)
  BY DEF LoopResult
<1>2. f = [s \in Nat \ {0} |-> f[s]]
  BY DEF LoopResult
<1> HIDE DEF f
<1>3. ASSUME NEW s \in Nat \ {0}
      PROVE  /\ f[s] = IF s <= v \div s THEN s ELSE f[Mean(v, s)]
             /\ f[s] = IF s <= v \div s \/ Mean(v, s) >= s THEN s ELSE f[Mean(v, s)]
  <2>1. CASE s <= v \div s
    BY <1>1, <2>1
  <2>2. CASE ~(s <= v \div s)
    <3>1. PICK mean \in Nat \ {0} :
             mean = Mean(v, s) /\ mean < s /\ v < (mean + 1) * (mean + 1)
      BY <2>2, MeanDescends DEF Mean
    <3>2. f[s] = Root(v)
      BY <1>1, <2>2
    <3>3. f[mean] = Root(v)
      <4>1. mean <= v \div mean => mean = Root(v)
        BY <3>1, EndsAtRoot
      <4>2. QED BY <1>1, <4>1
    <3>4. ~(mean >= s)
      BY <3>1
    <3>5. QED BY <2>2, <3>1, <3>2, <3>3, <3>4
  <2>3. QED BY <2>1, <2>2
<1>4. IsLoop(f, v) /\ IsBreakingLoop(f, v)
  BY <1>2, <1>3 DEF IsLoop, IsBreakingLoop
<1>5. QED BY <1>4 DEF f

\* Every such loop ends at the root, if it starts above.
LEMMA LoopFindsRoot ==
    ASSUME NEW v \in Nat \ {0}, NEW f, IsLoop(f, v) \/ IsBreakingLoop(f, v)
    PROVE  f[v] = Root(v)
<1> DEFINE S == {n \in Nat : \A s \in 1..n : v < (s + 1) * (s + 1) => f[s] = Root(v)}
<1>1. 0 \in S
  OBVIOUS
<1>2. ASSUME NEW n \in Nat, n \in S
      PROVE  n + 1 \in S
  <2>1. SUFFICES ASSUME v < ((n + 1) + 1) * ((n + 1) + 1)
                 PROVE  f[n + 1] = Root(v)
    BY <1>2
  <2>2. PICK s \in Nat \ {0} : s = n + 1 /\ v < (s + 1) * (s + 1)
    BY <2>1
  <2>3. \/ f[s] = IF s <= v \div s THEN s ELSE f[Mean(v, s)]
        \/ f[s] = IF s <= v \div s \/ Mean(v, s) >= s THEN s ELSE f[Mean(v, s)]
    BY DEF IsLoop, IsBreakingLoop
  <2>4. CASE s <= v \div s
    BY <2>2, <2>3, <2>4, EndsAtRoot
  <2>5. CASE ~(s <= v \div s)
    <3>1. PICK mean \in Nat \ {0} :
             mean = Mean(v, s) /\ mean < s /\ v < (mean + 1) * (mean + 1)
      BY <2>5, MeanDescends DEF Mean
    <3>2. f[s] = f[mean]
      BY <2>3, <2>5, <3>1
    <3>3. mean \in 1..n
      BY <2>2, <3>1
    <3>4. QED BY <1>2, <2>2, <3>1, <3>2, <3>3
  <2>6. QED BY <2>2, <2>4, <2>5
<1>3. Nat \subseteq S
  <2>1. \A n \in Nat : n \in S => n + 1 \in S
    BY <1>2
  <2> HIDE DEF S
  <2>2. QED BY <1>1, <2>1, InductiveSet
<1>4. v \in S /\ v \in 1..v /\ v < (v + 1) * (v + 1)
  BY <1>3
<1>5. QED BY <1>4

LEMMA RootsAgree ==
    ASSUME NEW v \in Nat \ {0}
    PROVE  /\ SqrtFrom(v) = Root(v) /\ IntegerSqrtFrom(v) = Root(v)
           /\ Root(v) \in Nat \ {0} /\ IsIntegerSqrt(Root(v), v)
<1>1. /\ IsLoop(CHOOSE f : IsLoop(f, v), v)
      /\ IsBreakingLoop(CHOOSE f : IsBreakingLoop(f, v), v)
  BY LoopExists
<1>2. QED BY <1>1, LoopDefinitions, LoopFindsRoot, RootExists

-----------------------------------------------------------------------------
(* The quotes of the backend and of the frontend. *)

\* The price impact of the screen compares the price paid with the spot price,
\* that of the backend the amount with the reserve: the fee and the rounding of
\* the output only add to the first.
LEMMA ImpactNotUnderstated ==
    ASSUME NEW a \in Nat \ {0}, NEW in \in Nat \ {0}, NEW out \in Nat \ {0},
           NEW k \in Nat, NEW F \in Nat \ {0}, k <= F,
           NEW bought \in Nat, bought * (in * F + a * k) <= (a * k) * out,
           NEW p \in Nat, p * (in + a) <= a * F
    PROVE  /\ bought * in <= a * out
           /\ p * (a * out) <= (a * out - bought * in) * F
<1> DEFINE spot == a * out
           paid == bought * in
           sum == in + a
<1>1. /\ spot \in Nat \ {0} /\ paid \in Nat /\ sum \in Nat \ {0}
      /\ a * k \in Nat /\ in * F \in Nat \ {0} /\ in * k \in Nat
  OBVIOUS
<1>2. in * k <= in * F
  BY ProductsCompare
<1>3. bought * sum <= spot
  <2>1. CASE k = 0
    <3>1. bought * (in * F) <= 0
      BY <2>1
    <3>2. bought = 0
      <4>1. SUFFICES ASSUME bought > 0 PROVE FALSE
        OBVIOUS
      <4>2. 1 * (in * F) <= bought * (in * F)
        BY <1>1, <4>1, ProductsCompare
      <4>3. QED BY <1>1, <3>1, <4>2
    <3>3. QED BY <1>1, <3>2
  <2>2. CASE k > 0
    <3>1. bought * (in * k + a * k) <= bought * (in * F + a * k)
      BY <1>1, <1>2, ProductsCompare
    <3>2. bought * (in * k + a * k) = (bought * sum) * k
      OBVIOUS
    <3>3. (a * k) * out = spot * k
      OBVIOUS
    <3>4. bought * sum \in Nat /\ bought * (in * F + a * k) \in Nat
      BY <1>1
    <3> HIDE DEF sum, spot
    <3>5. (bought * sum) * k \in Nat /\ spot * k \in Nat
      BY <1>1, <3>4
    <3>6. (bought * sum) * k <= spot * k
      BY <3>1, <3>2, <3>3, <3>4, <3>5
    <3>7. QED BY <1>1, <2>2, <3>4, <3>6, Cancel
  <2>3. QED BY <2>1, <2>2
<1>4. paid <= spot
  <2>1. paid + bought * a = bought * sum /\ bought * a \in Nat /\ bought * sum \in Nat
    OBVIOUS
  <2> HIDE DEF paid, spot, sum
  <2>2. QED BY <1>1, <1>3, <2>1
<1>5. paid * F + p * spot <= spot * F
  <2>1. ((paid * F) + (p * spot)) * sum = (bought * sum) * (in * F) + (p * sum) * spot
    OBVIOUS
  <2>2. (bought * sum) * (in * F) <= spot * (in * F)
    BY <1>1, <1>3, ProductsCompare
  <2>3. (p * sum) * spot <= (a * F) * spot
    BY <1>1, ProductsCompare
  <2>4. spot * (in * F) + (a * F) * spot = (spot * F) * sum
    OBVIOUS
  <2> HIDE DEF paid, spot, sum
  <2>5. /\ (bought * sum) * (in * F) \in Nat /\ (p * sum) * spot \in Nat
        /\ spot * (in * F) \in Nat /\ (a * F) * spot \in Nat
        /\ (paid * F) + (p * spot) \in Nat /\ spot * F \in Nat
    BY <1>1
  <2>6. ((paid * F) + (p * spot)) * sum <= (spot * F) * sum
    BY <2>1, <2>2, <2>3, <2>4, <2>5
  <2>7. QED BY <1>1, <2>5, <2>6, Cancel
<1>6. (spot - paid) * F = spot * F - paid * F
  BY <1>1
<1>7. p * spot \in Nat /\ paid * F \in Nat /\ spot * F \in Nat
  BY <1>1
<1>8. QED BY <1>4, <1>5, <1>6, <1>7

LEMMA QuoteOfNaturals ==
    ASSUME NEW a \in Nat \ {0}, NEW in \in Nat \ {0}, NEW out \in Nat \ {0},
           NEW fee \in 0..FeeDenominator
    PROVE  /\ AmountOut(a, in, out, fee) \in Nat
           /\ AmountOut(a, in, out, fee)
                * (in * FeeDenominator + a * (FeeDenominator - fee))
                <= (a * (FeeDenominator - fee)) * out
<1>1. FeeDenominator \in Nat \ {0} /\ FeeDenominator - fee \in Nat
  BY FeeDenominatorAssumption
<1>2. PICK k \in Nat, F \in Nat \ {0} : k = FeeDenominator - fee /\ F = FeeDenominator
  BY <1>1
<1>3. in * F + a * k \in Nat \ {0} /\ (a * k) * out \in Nat
  OBVIOUS
<1>4. AmountOut(a, in, out, fee) = ((a * k) * out) \div (in * F + a * k)
  BY <1>2 DEF AmountOut
<1>5. QED BY <1>2, <1>3, <1>4, Rounded

LEMMA ImpactsCompare ==
    ASSUME NEW a \in Nat \ {0}, NEW in \in Nat \ {0}, NEW out \in Nat \ {0},
           NEW fee \in 0..FeeDenominator,
           ScreenAmountOut(a, in, out, fee) = AmountOut(a, in, out, fee)
    PROVE  ScreenPriceImpact(a, in, out, fee) >= PriceImpact(a, in)
<1>1. PICK F \in Nat \ {0} : F = FeeDenominator /\ F = FEE_DENOMINATOR
  BY FeeDenominatorAssumption, QuotesAssumption
<1>2. PICK k \in Nat : k = F - fee /\ k <= F
  BY <1>1
<1>3. PICK bought \in Nat : /\ bought = AmountOut(a, in, out, fee)
                            /\ bought * (in * F + a * k) <= (a * k) * out
  BY <1>1, <1>2, QuoteOfNaturals
<1>4. PICK p \in Nat : p = (a * F) \div (in + a) /\ p * (in + a) <= a * F
  <2>1. a * F \in Nat /\ in + a \in Nat /\ in + a > 0
    OBVIOUS
  <2>2. QED BY <2>1, Rounded
<1>5. /\ bought * in <= a * out
      /\ p * (a * out) <= (a * out - bought * in) * F
  BY <1>2, <1>3, <1>4, ImpactNotUnderstated
<1>6. PICK spot \in Nat \ {0} : spot = a * out
  OBVIOUS
<1>7. PICK lost \in Nat : lost = spot - bought * in
  BY <1>5, <1>6
<1>8. PICK n \in Nat : n = lost * F + spot - 1 /\ lost * F <= n
  BY <1>6, <1>7
<1>9. p <= n \div spot
  <2>1. lost * F \in Nat /\ p * spot \in Nat
    OBVIOUS
  <2>2. p * spot <= n
    BY <1>5, <1>6, <1>7, <1>8, <2>1
  <2>3. QED BY <2>2, QuotientAtLeast
<1>10. ScreenPriceImpact(a, in, out, fee) = n \div spot
  <2>1. abs(spot - bought * in) = lost
    BY <1>7 DEF abs
  <2>2. ScreenPriceImpact(a, in, out, fee)
          = (abs(spot - bought * in) * F + spot - 1) \div spot
    BY <1>1, <1>3, <1>6 DEF ScreenPriceImpact
  <2>3. QED BY <1>8, <2>1, <2>2
<1>11. PriceImpact(a, in) = p
  BY <1>1, <1>4 DEF PriceImpact
<1>12. n \div spot \in Nat
  OBVIOUS
<1>13. QED BY <1>9, <1>10, <1>11, <1>12

\* No product of a quote leaves i128.
LEMMA ProductsFit ==
    ASSUME NEW in \in 1..MaxReserve, NEW a \in 1..MaxAmount, NEW k \in 0..FeeDenominator
    PROVE  /\ in \in Nat \ {0} /\ a \in Nat \ {0} /\ k \in Nat
           /\ in * a * k + 1 <= I128Max
           /\ in * FeeDenominator + a * k + 1 <= I128Max
<1>1. /\ MaxReserve \in Nat /\ MaxAmount \in Nat /\ FeeDenominator \in Nat \ {0}
      /\ (MaxReserve + 1) * (MaxAmount + 1) * FeeDenominator <= I128Max
      /\ I128Max \in Nat
  BY FeeDenominatorAssumption, QuotesAssumption, I128MaxAssumption
<1>2. /\ in \in Nat \ {0} /\ a \in Nat \ {0} /\ k \in Nat
      /\ in <= MaxReserve /\ a <= MaxAmount /\ k <= FeeDenominator
  BY <1>1
<1>3. PICK M \in Nat, A \in Nat, F \in Nat \ {0}, W \in Nat :
         /\ M = MaxReserve /\ A = MaxAmount /\ F = FeeDenominator /\ W = I128Max
         /\ (M + 1) * (A + 1) * F <= W
  BY <1>1
<1>4. (M + 1) * (A + 1) * F = M * A * F + M * F + A * F + F
  OBVIOUS
<1>5. in * a <= M * A
  BY <1>2, <1>3, ProductsCompare
<1>6. in * a * k <= M * A * F
  <2>1. in * a \in Nat /\ M * A \in Nat
    BY <1>2
  <2>2. QED BY <1>2, <1>3, <1>5, <2>1, ProductsCompare
<1>7. in * F <= M * F /\ a * k <= A * F
  BY <1>2, <1>3, ProductsCompare
<1>8. /\ M * A * F \in Nat /\ M * F \in Nat /\ A * F \in Nat
      /\ in * a * k \in Nat /\ in * F \in Nat /\ a * k \in Nat
  BY <1>2
<1>9. in * a * k + 1 <= W /\ in * F + a * k + 1 <= W
  BY <1>3, <1>4, <1>6, <1>7, <1>8
<1>10. QED BY <1>2, <1>3, <1>9

LEMMA SwapQuotesAgree ==
    ASSUME NEW in \in 1..MaxReserve, NEW out \in 1..MaxReserve,
           NEW fee \in 0..FeeDenominator, NEW a \in 1..MaxAmount
    PROVE  /\ GetAmountOut(a, in, out, fee) = AmountOut(a, in, out, fee)
           /\ ScreenAmountOut(a, in, out, fee) = AmountOut(a, in, out, fee)
           /\ GetAmountOutOk(a, in, out, fee) <=> AmountOutOk(a, in, out, fee)
<1>1. FEE_DENOMINATOR = FeeDenominator /\ FeeDenominator \in Nat \ {0} /\ I128Max \in Nat
  BY FeeDenominatorAssumption, QuotesAssumption, I128MaxAssumption
<1>2. /\ GetAmountOut(a, in, out, fee) = AmountOut(a, in, out, fee)
      /\ ScreenAmountOut(a, in, out, fee) = AmountOut(a, in, out, fee)
  BY <1>1, Zenon DEF GetAmountOut, ScreenAmountOut, AmountOut
<1>3. PICK k \in 0..FeeDenominator : k = FeeDenominator - fee
  BY <1>1
<1>4. FeeDenominator \in 0..FeeDenominator
  BY <1>1
<1>5. /\ out \in Nat \ {0} /\ a \in Nat \ {0} /\ in \in Nat \ {0} /\ k \in Nat
      /\ out * a * k + 1 <= I128Max
      /\ in * FeeDenominator + a * k + 1 <= I128Max
      /\ in * FeeDenominator + a * FeeDenominator + 1 <= I128Max
  BY <1>4, ProductsFit
<1>6. /\ a * k \in Nat /\ in * FeeDenominator \in Nat /\ a * FeeDenominator \in Nat
      /\ (a * k) * out = out * a * k /\ (a * k) * out \in Nat
  BY <1>1, <1>5
<1>7. Fits(a * k) /\ Fits(in * FeeDenominator + a * k) /\ Fits(a * FeeDenominator)
  BY <1>1, <1>5, <1>6 DEF Fits
<1>8. Fits((a * k) * out)
  BY <1>1, <1>5, <1>6 DEF Fits
<1>9. AmountOutOk(a, in, out, fee) <=> AmountOut(a, in, out, fee) > 0
  BY <1>3, <1>5, <1>7, <1>8 DEF AmountOutOk
<1>10. GetAmountOutOk(a, in, out, fee) <=> AmountOut(a, in, out, fee) > 0
  BY <1>2, <1>5 DEF GetAmountOutOk
<1>11. QED BY <1>2, <1>9, <1>10

LEMMA AskedQuotesAgree ==
    ASSUME NEW in \in 1..MaxReserve, NEW out \in 1..MaxReserve,
           NEW fee \in 0..FeeDenominator, NEW a \in 1..MaxAmount
    PROVE  /\ GetAmountIn(a, in, out, fee) = AmountIn(a, in, out, fee)
           /\ ScreenAmountIn(a, in, out, fee) = AmountIn(a, in, out, fee)
           /\ GetAmountInOk(a, in, out, fee) <=> AmountInOk(a, in, out, fee)
<1>1. FEE_DENOMINATOR = FeeDenominator /\ FeeDenominator \in Nat \ {0} /\ I128Max \in Nat
  BY FeeDenominatorAssumption, QuotesAssumption, I128MaxAssumption
<1>2. /\ GetAmountIn(a, in, out, fee) = AmountIn(a, in, out, fee)
      /\ ScreenAmountIn(a, in, out, fee) = AmountIn(a, in, out, fee)
  BY <1>1, Zenon DEF GetAmountIn, ScreenAmountIn, AmountIn
<1>3. FeeDenominator \in 0..FeeDenominator
  BY <1>1
<1>4. /\ out \in Nat \ {0} /\ a \in Nat \ {0} /\ in \in Nat \ {0}
      /\ in * a * FeeDenominator + 1 <= I128Max
      /\ out * FeeDenominator + a * FeeDenominator + 1 <= I128Max
  BY <1>3, ProductsFit
<1>5. ASSUME a < out, fee # FeeDenominator
      PROVE  AmountInOk(a, in, out, fee)
  <2>1. PICK F \in Nat \ {0}, k \in Nat \ {0}, left \in Nat \ {0} :
           F = FeeDenominator /\ k = F - fee /\ left = out - a /\ k <= F /\ left <= out
    BY <1>1, <1>4, <1>5
  <2>2. left * k <= out * F
    BY <1>4, <2>1, ProductsCompare
  <2>3. /\ left * k \in Nat \ {0} /\ out * F \in Nat /\ a * F \in Nat
        /\ in * a * F \in Nat
    BY <1>4
  <2>4. Fits(left * k) /\ Fits(in * a * F)
    BY <1>1, <1>4, <2>1, <2>2, <2>3 DEF Fits
  <2>5. PICK n \in Nat, d \in Nat \ {0} : n = in * a * F /\ d = left * k
    BY <2>3
  <2>6. n \div d \in Nat /\ (n \div d) * d <= n
    BY Rounded
  <2>7. (n \div d) * 1 <= (n \div d) * d
    BY <2>6, ProductsCompare
  <2>8. n \div d <= n
    <3>1. PICK quot \in Nat : quot = n \div d
      BY <2>6
    <3>2. quot * d \in Nat
      OBVIOUS
    <3>3. QED BY <2>6, <2>7, <3>1, <3>2
  <2>9. AmountIn(a, in, out, fee) = n \div d + 1
    BY <2>1, <2>5 DEF AmountIn
  <2>10. Fits(AmountIn(a, in, out, fee))
    BY <1>1, <1>4, <2>1, <2>5, <2>6, <2>8, <2>9 DEF Fits
  <2>11. QED BY <1>4, <1>5, <2>1, <2>4, <2>10 DEF AmountInOk
<1>6. GetAmountInOk(a, in, out, fee) <=> a < out /\ fee # FeeDenominator
  BY <1>1, <1>4 DEF GetAmountInOk
<1>7. AmountInOk(a, in, out, fee) => a < out /\ fee # FeeDenominator
  BY DEF AmountInOk
<1>8. QED BY <1>2, <1>5, <1>6, <1>7

LEMMA ShareQuotesAgree ==
    ASSUME NEW in \in 1..MaxReserve, NEW out \in 1..MaxReserve,
           NEW a \in 1..MaxAmount, NEW b \in 1..MaxAmount, NEW supply \in Nat \ {0}
    PROVE  /\ CalcLpTokensMinted(a, b, in, out, supply) = ProRataShares(a, b, in, out, supply)
           /\ ScreenLpTokensMinted(a, b, in, out, supply) = ProRataShares(a, b, in, out, supply)
           /\ CalcLpTokensBurnedOk(a, supply) <=> LiquidityRatioOk(a, supply, in, out)
           /\ CalcLpTokensBurned(a, supply, in) = ShareOf(a, supply, in)
<1>1. FeeDenominator \in Nat \ {0} /\ I128Max \in Nat /\ 1 \in 0..FeeDenominator
  BY FeeDenominatorAssumption, I128MaxAssumption
<1>2. /\ in \in Nat \ {0} /\ out \in Nat \ {0} /\ a \in Nat \ {0} /\ b \in Nat \ {0}
      /\ in * a * 1 + 1 <= I128Max /\ out * a * 1 + 1 <= I128Max
  BY <1>1, ProductsFit
<1>3. Fits(a * in) /\ Fits(a * out)
  <2>1. /\ a * in = in * a * 1 /\ a * out = out * a * 1
        /\ in * a * 1 \in Nat /\ out * a * 1 \in Nat
    BY <1>2
  <2>2. QED BY <1>1, <1>2, <2>1 DEF Fits
<1>4. CalcLpTokensBurnedOk(a, supply) <=> LiquidityRatioOk(a, supply, in, out)
  BY <1>3 DEF CalcLpTokensBurnedOk, LiquidityRatioOk
<1>5. PICK m \in Nat, n \in Nat : m = (a * supply) \div in /\ n = (b * supply) \div out
  <2>1. a * supply \in Nat /\ b * supply \in Nat
    BY <1>2
  <2>2. QED BY <1>2, <2>1, Rounded
<1>6. FewerOf(m, n) = Lesser(m, n)
  BY DEF FewerOf, Lesser
<1>7. CalcLpTokensMinted(a, b, in, out, supply) = FewerOf(m, n)
  BY <1>5 DEF CalcLpTokensMinted
<1>8. ScreenLpTokensMinted(a, b, in, out, supply) = FewerOf(m, n)
  BY <1>5 DEF ScreenLpTokensMinted
<1>9. ProRataShares(a, b, in, out, supply) = Lesser(m, n)
  BY <1>5 DEF ProRataShares
<1>10. CalcLpTokensBurned(a, supply, in) = ShareOf(a, supply, in)
  BY DEF CalcLpTokensBurned, ShareOf
<1>11. QED BY <1>4, <1>6, <1>7, <1>8, <1>9, <1>10

LEMMA FirstSharesAgree ==
    ASSUME NEW a \in Nat \ {0}, NEW b \in Nat \ {0}
    PROVE  /\ IsIntegerSqrt(RootOf(a * b), a * b)
           /\ CalcLpTokensMintedOk(a, b, 0, 0, 0) <=> ScreenLpTokensMinted(a, b, 0, 0, 0) > 0
<1>1. PICK v \in Nat \ {0} : v = a * b
  OBVIOUS
<1>2. /\ SqrtFrom(v) = Root(v) /\ IntegerSqrtFrom(v) = Root(v)
      /\ IsIntegerSqrt(Root(v), v)
  BY RootsAgree
<1>3. RootOf(v) = Root(v)
  BY <1>2 DEF RootOf
<1>4. CalcLpTokensMintedOk(a, b, 0, 0, 0) <=> Root(v) - MINIMUM_LIQUIDITY > 0
  BY <1>1, <1>3 DEF CalcLpTokensMintedOk, CalcLpTokensMinted
<1>5. ScreenLpTokensMinted(a, b, 0, 0, 0) = Root(v) - MINIMUM_LIQUIDITY
  BY <1>1, <1>2 DEF ScreenLpTokensMinted
<1>6. QED BY <1>1, <1>2, <1>3, <1>4, <1>5

\* constant-product.math.ts and amm-math.service.ts quote what math.rs pays, asks
\* and mints, for every pool and amount whose products stay inside i128.
THEOREM ProductQuotesAlwaysAgree == QuoteSpec => []ProductQuotesAgree
<1>1. ASSUME QuestionsInv, q.pool = "product"
      PROVE  ProductQuotesAgree
  <2>1. q \in ProductQuestions
    BY <1>1 DEF QuestionsInv, StableQuestions, StepQuestions
  <2>2. /\ q.reserveIn \in 1..MaxReserve /\ q.reserveOut \in 1..MaxReserve
        /\ q.fee \in 0..FeeDenominator
        /\ q.first \in 1..MaxAmount /\ q.second \in 1..MaxAmount
    BY <2>1 DEF ProductQuestions
  <2>3. /\ q.reserveIn \in Nat \ {0} /\ q.reserveOut \in Nat \ {0}
        /\ q.first \in Nat \ {0} /\ q.second \in Nat \ {0}
        /\ q.reserveIn + q.reserveOut \in Nat \ {0}
    BY <2>2, QuotesAssumption
  <2> DEFINE in == q.reserveIn
             out == q.reserveOut
             a == q.first
             b == q.second
             fee == q.fee
  <2>4. /\ GetAmountOut(a, in, out, fee) = AmountOut(a, in, out, fee)
        /\ ScreenAmountOut(a, in, out, fee) = AmountOut(a, in, out, fee)
        /\ GetAmountOutOk(a, in, out, fee) <=> AmountOutOk(a, in, out, fee)
    BY <2>2, SwapQuotesAgree
  <2>5. ScreenPriceImpact(a, in, out, fee) >= PriceImpact(a, in)
    BY <2>2, <2>3, <2>4, ImpactsCompare
  <2>6. /\ GetAmountIn(a, in, out, fee) = AmountIn(a, in, out, fee)
        /\ ScreenAmountIn(a, in, out, fee) = AmountIn(a, in, out, fee)
        /\ GetAmountInOk(a, in, out, fee) <=> AmountInOk(a, in, out, fee)
    BY <2>2, AskedQuotesAgree
  <2>7. \A supply \in {1, in + out} :
           /\ CalcLpTokensMinted(a, b, in, out, supply) = ProRataShares(a, b, in, out, supply)
           /\ ScreenLpTokensMinted(a, b, in, out, supply)
                = ProRataShares(a, b, in, out, supply)
           /\ CalcLpTokensBurnedOk(a, supply) <=> LiquidityRatioOk(a, supply, in, out)
           /\ CalcLpTokensBurned(a, supply, in) = ShareOf(a, supply, in)
    BY <2>2, <2>3, ShareQuotesAgree
  <2>8. /\ IsIntegerSqrt(RootOf(a * b), a * b)
        /\ CalcLpTokensMintedOk(a, b, 0, 0, 0) <=> ScreenLpTokensMinted(a, b, 0, 0, 0) > 0
    BY <2>3, FirstSharesAgree
  <2>9. QED
    BY <2>4, <2>5, <2>6, <2>7, <2>8, Zenon DEF ProductQuotesAgree
<1>2. QuestionsInv => ProductQuotesAgree
  BY <1>1 DEF ProductQuotesAgree
<1>3. QED BY <1>2, QuotesTyped, PTL

-----------------------------------------------------------------------------
(* Stable pools: the contract's arithmetic.                                  *)

\* compute_d of invariant.rs never settles below the D of the balances, for any
\* balances and coefficient whose products stay inside i128, wherever the loop
\* is left and however many rounds it may take.
THEOREM DIsNeverBelow == QuoteSpec => []DIsNotBelow
<1>1. ASSUME QuestionsInv, q.pool = "stable"
      PROVE  ~OnOrAbove(q.x, q.y, q.a, D + 1)
  <2>1. q \in StableQuestions
    BY <1>1 DEF QuestionsInv, ProductQuestions, StepQuestions
  <2>2. q.x \in 1..MaxBalance /\ q.y \in 1..MaxBalance /\ q.a \in Coefficients
    BY <2>1 DEF StableQuestions
  <2>3. PICK m \in Nat : m = MaxBalance + MaxPaid /\ MaxBalance <= m
    BY StableQuotesAssumption
  <2>4. /\ q.x \in 1..m /\ q.y \in 1..m /\ q.a \in Nat \ {0} /\ Wide(q.a, m)
    BY <2>2, <2>3, StableQuotesAssumption DEF Wide
  <2>5. QED BY <2>4, ComputeDAbove DEF D
<1>2. QuestionsInv => DIsNotBelow
  BY <1>1 DEF DIsNotBelow
<1>3. QED BY <1>2, QuotesTyped, PTL

\* What the questions about stable pools meet.
LEMMA StableQuestionFits ==
    ASSUME QuestionsInv, q.pool = "stable"
    PROVE  \E m \in Nat :
              /\ q.x \in 1..m /\ q.y \in 1..m /\ q.x + q.dx \in 1..m
              /\ q.a \in Nat \ {0} /\ Wide(q.a, m) /\ D \in 1..(4 * m) /\ q.dx \in Nat
<1>1. q \in StableQuestions
  BY DEF QuestionsInv, ProductQuestions, StepQuestions
<1>2. /\ q.x \in 1..MaxBalance /\ q.y \in 1..MaxBalance /\ q.a \in Coefficients
      /\ q.dx \in 1..MaxPaid
  BY <1>1 DEF StableQuestions
<1>3. PICK m \in Nat : m = MaxBalance + MaxPaid /\ MaxBalance <= m
  BY StableQuotesAssumption
<1>4. /\ q.x \in 1..m /\ q.y \in 1..m /\ q.x + q.dx \in 1..m
      /\ q.a \in Nat \ {0} /\ Wide(q.a, m) /\ q.dx \in Nat
  BY <1>2, <1>3, StableQuotesAssumption DEF Wide
<1>5. D \in 1..(2 * (q.x + q.y))
  BY <1>4, ComputeDAbove DEF D
<1>6. D \in 1..(4 * m)
  BY <1>4, <1>5
<1>7. QED BY <1>4, <1>6

\* compute_y of invariant.rs settles inside its 256 rounds, within two units
\* below the balance that keeps D and never above it, for any balances and
\* coefficient whose products stay inside i128.
THEOREM YIsAlwaysOnCurve == QuoteSpec => []YIsOnCurve
<1>1. ASSUME QuestionsInv, q.pool = "stable"
      PROVE  /\ OnOrAbove(q.x + q.dx, ComputeY(q.x + q.dx, q.a, D) + 2, q.a, D)
             /\ ComputeY(q.x + q.dx, q.a, D) > 0
                  => ~OnOrAbove(q.x + q.dx, ComputeY(q.x + q.dx, q.a, D) - 1, q.a, D)
  <2>1. PICK m \in Nat :
           /\ q.x \in 1..m /\ q.y \in 1..m /\ q.x + q.dx \in 1..m
           /\ q.a \in Nat \ {0} /\ Wide(q.a, m) /\ D \in 1..(4 * m)
    BY <1>1, StableQuestionFits
  <2>2. QED BY <2>1, ComputeYOnCurve
<1>2. QuestionsInv => YIsOnCurve
  BY <1>1 DEF YIsOnCurve
<1>3. QED BY <1>2, QuotesTyped, PTL

-----------------------------------------------------------------------------
(* Stable pools: the loops of the backend are those of the contract. *)

RepeatEnds(Round) == {v \in DOMAIN Round : abs(Round[v] - v) <= 1}

IsRepetition(f, Round) ==
    f = [s \in [round : 1..Iterations, value : DOMAIN Round] |->
            IF s.round = Iterations \/ abs(Round[s.value] - s.value) <= 1 THEN Round[s.value]
            ELSE f[[round |-> s.round + 1, value |-> Round[s.value]]]]

LEMMA RepeatedRuns ==
    ASSUME NEW Round, NEW start,
           \A v \in DOMAIN Round : v \notin RepeatEnds(Round) => Round[v] \in DOMAIN Round
    PROVE  \E f : /\ IsRun(f, Round, Iterations, RepeatEnds(Round))
                  /\ Repeated(Round, start) = f[StateAt(1, start)]
<1>1. Repeated(Round, start) = (CHOOSE f : IsRepetition(f, Round))[StateAt(1, start)]
  BY Zenon DEF Repeated, IsRepetition, StateAt
<1>2. LoopStates(Round, Iterations) = [round : 1..Iterations, value : DOMAIN Round]
  BY DEF LoopStates
<1>3. \A s \in [round : 1..Iterations, value : DOMAIN Round] :
         s.value \in RepeatEnds(Round) <=> abs(Round[s.value] - s.value) <= 1
  BY DEF RepeatEnds
<1>4. \A f : IsRun(f, Round, Iterations, RepeatEnds(Round)) <=> IsRepetition(f, Round)
  BY <1>2, <1>3 DEF IsRun, IsRepetition, StateAt
<1>5. Iterations \in Nat \ {0}
  BY OffchainAssumption
<1>6. \E f : IsRun(f, Round, Iterations, RepeatEnds(Round))
  BY <1>5, RunExists
<1>7. \E f : IsRepetition(f, Round)
  BY <1>4, <1>6
<1>8. IsRepetition(CHOOSE f : IsRepetition(f, Round), Round)
  BY <1>7
<1>9. QED BY <1>1, <1>4, <1>8

\* Two such loops that do the same to the values they meet.
LEMMA LoopsAgree ==
    ASSUME NEW next \in [Int -> Int], NEW Round, NEW Good, NEW start \in Good,
           Good \subseteq Int, Good \subseteq DOMAIN Round,
           \A v \in DOMAIN Round : v \notin RepeatEnds(Round) => Round[v] \in DOMAIN Round,
           \A v \in Good : /\ ~(v - 1 <= next[v] /\ next[v] <= v + 1) => next[v] \in Good
                           /\ Round[v] = next[v]
    PROVE  Repeated(Round, start) = Iterated(next, start)
<1>1. PICK ends, ends2 : ends = SettledAt(next) /\ ends2 = RepeatEnds(Round)
  OBVIOUS
<1>2. PICK f : IsRun(f, next, MaxRounds, ends) /\ Iterated(next, start) = f[StateAt(1, start)]
  BY <1>1, IteratedRuns
<1>3. PICK f2 : IsRun(f2, Round, MaxRounds, ends2)
                /\ Repeated(Round, start) = f2[StateAt(1, start)]
  BY <1>1, RepeatedRuns, StableQuotesAssumption
<1>4. \A v \in Good : /\ v \in Int /\ next[v] \in Int
                      /\ v \in ends <=> (v - 1 <= next[v] /\ next[v] <= v + 1)
                      /\ v \in ends2 <=> (v - 1 <= next[v] /\ next[v] <= v + 1)
  <2>1. ASSUME NEW v \in Good
        PROVE  /\ v \in Int /\ next[v] \in Int
               /\ v \in ends <=> (v - 1 <= next[v] /\ next[v] <= v + 1)
               /\ v \in ends2 <=> (v - 1 <= next[v] /\ next[v] <= v + 1)
    <3>1. v \in Int /\ v \in DOMAIN Round /\ Round[v] = next[v]
      OBVIOUS
    <3>2. PICK n \in Int : n = next[v]
      BY <3>1
    <3>3. v \in ends <=> (v - 1 <= n /\ n <= v + 1)
      BY <1>1, <3>1, <3>2 DEF SettledAt, Converged, Distance
    <3>4. v \in ends2 <=> (v - 1 <= n /\ n <= v + 1)
      BY <1>1, <3>1, <3>2 DEF RepeatEnds, abs
    <3>5. QED BY <3>1, <3>2, <3>3, <3>4
  <2>2. QED BY <2>1
<1>5. \A v \in Good : /\ v \notin ends => next[v] \in Good
                      /\ Round[v] = next[v]
                      /\ v \in ends2 <=> v \in ends
  BY <1>4
<1>6. f2[StateAt(1, start)] = f[StateAt(1, start)]
  <2>1. SameRounds(next, ends, Round, ends2, Good)
    BY <1>5 DEF SameRounds
  <2>2. MaxRounds \in Nat \ {0}
    BY MaxRoundsAssumption
  <2>3. QED BY <1>2, <1>3, <2>1, <2>2, RunsAgree
<1>7. QED BY <1>2, <1>3, <1>6

\* The Round of getD.
GetDRound(x1, y1, a) ==
    [d \in Nat \ {0} |->
        ((ann(a) * (x1 + y1) + ((((d * d) \div (x1 * 2)) * d) \div (y1 * 2)) * 2) * d)
            \div ((ann(a) - 1) * d + 3 * ((((d * d) \div (x1 * 2)) * d) \div (y1 * 2)))]

LEMMA GetDRepeats ==
    ASSUME NEW x1, NEW y1, NEW a
    PROVE  GetD(x1, y1, a) = IF x1 + y1 = 0 THEN 0
                             ELSE Repeated(GetDRound(x1, y1, a), x1 + y1)
BY Zenon DEF GetD, GetDRound

LEMMA GetDAgrees ==
    ASSUME NEW m \in Nat, NEW x1 \in 1..m, NEW y1 \in 1..m, NEW a \in Nat \ {0}, Wide(a, m)
    PROVE  GetD(x1, y1, a) = ComputeD(x1, y1, a)
<1>1. PICK next, Round, Good :
         /\ next = DNext(x1, y1, a) /\ Round = GetDRound(x1, y1, a)
         /\ Good = 1..(2 * (x1 + y1))
  OBVIOUS
<1>2. /\ x1 \in Nat \ {0} /\ y1 \in Nat \ {0} /\ a \in Int /\ x1 \in Int /\ y1 \in Int
      /\ x1 + y1 # 0 /\ x1 + y1 \in Good /\ Good \subseteq Int /\ Good \subseteq Nat \ {0}
  BY <1>1
<1>3. DOMAIN Round = Nat \ {0}
  BY <1>1 DEF GetDRound
<1>4. \A d \in Nat \ {0} : Round[d] = DRound(x1, y1, a, d) /\ Round[d] \in Nat \ {0}
  <2>1. ASSUME NEW d \in Nat \ {0}
        PROVE  Round[d] = DRound(x1, y1, a, d)
    <3>1. PICK dp \in Nat : dp = DRatio(x1, y1, d)
      BY <1>2, RatioRounded
    <3>2. (((d * d) \div (x1 * 2)) * d) \div (y1 * 2) = dp
      <4>1. x1 * 2 = 2 * x1 /\ y1 * 2 = 2 * y1
        BY <1>2
      <4>2. QED BY <3>1, <4>1, Zenon DEF DRatio
    <3>3. Round[d] = ((ann(a) * (x1 + y1) + dp * 2) * d) \div ((ann(a) - 1) * d + 3 * dp)
      BY <1>1, <3>2 DEF GetDRound
    <3>4. ann(a) = 4 * a /\ dp * 2 = 2 * dp
      BY DEF ann
    <3>5. QED BY <3>1, <3>3, <3>4, Zenon DEF DRound
  <2>2. \A d \in Nat \ {0} : DRound(x1, y1, a, d) \in Nat \ {0}
    BY <1>2, RoundIsAbove
  <2>3. QED BY <2>1, <2>2
<1>5. \A v \in Good : Round[v] = next[v] /\ next[v] \in Good
  <2>1. ASSUME NEW v \in 1..(2 * (x1 + y1))
        PROVE  DNext(x1, y1, a)[v] = DRound(x1, y1, a, v)
               /\ DRound(x1, y1, a, v) \in 1..(2 * (x1 + y1))
    <3>1. v \in Nat \ {0} /\ v <= 2 * (x1 + y1)
      BY <1>2
    <3>2. DRound(x1, y1, a, v) \in Nat \ {0} /\ DRound(x1, y1, a, v) <= 2 * (x1 + y1)
      BY <1>2, <3>1, RoundIsAbove
    <3>3. DRound(x1, y1, a, v) \in 1..(2 * (x1 + y1))
      BY <1>2, <3>2
    <3>4. QED BY <3>3, DNextIsRound
  <2>2. QED BY <1>1, <1>2, <1>4, <2>1
<1>6. next \in [Int -> Int]
  BY <1>1, <1>2, DNextInteger
<1>7. PICK sum \in Good : sum = x1 + y1
  BY <1>2
<1>8. Repeated(Round, sum) = Iterated(next, sum)
  <2>1. Good \subseteq Int /\ Good \subseteq DOMAIN Round
    BY <1>2, <1>3
  <2>2. \A v \in DOMAIN Round : v \notin RepeatEnds(Round) => Round[v] \in DOMAIN Round
    BY <1>3, <1>4
  <2>3. \A v \in Good : /\ ~(v - 1 <= next[v] /\ next[v] <= v + 1) => next[v] \in Good
                        /\ Round[v] = next[v]
    BY <1>5
  <2>4. QED BY <1>6, <2>1, <2>2, <2>3, LoopsAgree
<1>9. Wrap(x1 + y1) = x1 + y1
  BY SumFits
<1>10. QED BY <1>1, <1>2, <1>7, <1>8, <1>9, GetDRepeats, ComputeDIterates

\* The Round of getY.
GetYRound(x1, a, d) ==
    [y \in {v \in Nat : v + (x1 + d \div ann(a)) >= d /\ 2 * v + (x1 + d \div ann(a)) > d} |->
        (y * y + ((((d * d) \div (x1 * 2)) * d) \div (ann(a) * 2)))
            \div (2 * y + (x1 + d \div ann(a)) - d)]

LEMMA GetYRepeats ==
    ASSUME NEW x1, NEW a, NEW d
    PROVE  GetY(x1, a, d) = Repeated(GetYRound(x1, a, d), d)
BY Zenon DEF GetY, GetYRound

LEMMA GetYAgrees ==
    ASSUME NEW m \in Nat, NEW x1 \in 1..m, NEW a \in Nat \ {0}, Wide(a, m),
           NEW d \in 1..(4 * m)
    PROVE  GetY(x1, a, d) = ComputeY(x1, a, d)
<1>1. PICK next, Round, Good :
         /\ next = YNext(x1, a, d) /\ Round = GetYRound(x1, a, d)
         /\ Good = YGood(x1, a, d)
  OBVIOUS
<1>2. x1 \in Nat \ {0} /\ d \in Nat \ {0} /\ d \in Int /\ x1 \in Int /\ a \in Int
  OBVIOUS
<1>3. PICK b \in Nat \ {0}, c \in Nat, h \in Nat :
         b = YLinear(x1, a, d) /\ c = YConstant(x1, a, d) /\ h = YHalf(x1, d)
  BY <1>2, YTerms
<1>4. /\ x1 + d \div ann(a) = b
      /\ (((d * d) \div (x1 * 2)) * d) \div (ann(a) * 2) = c
  <2>1. ann(a) = 4 * a /\ ann(a) * 2 = 8 * a /\ x1 * 2 = 2 * x1
    BY DEF ann
  <2>2. QED BY <1>3, <2>1, Zenon DEF YLinear, YConstant, YQuotient
<1>5. /\ DOMAIN Round = {v \in Nat : v + b >= d /\ 2 * v + b > d}
      /\ \A y \in DOMAIN Round : Round[y] = (y * y + c) \div (2 * y + b - d)
  BY <1>1, <1>4, Zenon DEF GetYRound
<1>6. \A y \in DOMAIN Round : Round[y] = QuadraticRound(b - d, c, y)
  <2>1. \A y \in DOMAIN Round : 2 * y + b - d = 2 * y + (b - d)
    BY <1>2, <1>5
  <2>2. QED BY <1>5, <2>1 DEF QuadraticRound
<1>7. Good \subseteq DOMAIN Round /\ Good \subseteq Int /\ d \in Good
  <2>1. d \in Good
    BY <1>1, <1>2, YTerms
  <2>2. \A y \in Good : y \in Nat /\ y + b >= d /\ 2 * y + b > d
    BY <1>1, <1>2, <1>3 DEF YGood, RightOfVertex
  <2>3. QED BY <1>5, <2>1, <2>2
<1>8. \A v \in DOMAIN Round : v \notin RepeatEnds(Round) => Round[v] \in DOMAIN Round
  <2>1. ASSUME NEW v \in DOMAIN Round, v \notin RepeatEnds(Round)
        PROVE  Round[v] \in DOMAIN Round
    <3>1. PICK p \in Int : p = b - d
      BY <1>2
    <3>2. v \in Nat /\ v + p >= 0 /\ 2 * v + p > 0
      BY <1>2, <1>5, <3>1
    <3>3. PICK n : n = Round[v] /\ n = QuadraticRound(p, c, v)
      BY <1>6, <3>1
    <3>4. n \in Nat /\ n + p >= 0 /\ (n = 0 /\ p = 0 => v = 1)
      BY <3>2, <3>3, QuadraticStaysRight
    <3>5. ~(n - v <= 1 /\ v - n <= 1)
      <4>1. abs(Round[v] - v) <= 1 => v \in RepeatEnds(Round)
        BY DEF RepeatEnds
      <4>2. ~(abs(n - v) <= 1)
        BY <2>1, <3>3, <4>1
      <4>3. QED BY <3>2, <3>4, <4>2 DEF abs
    <3>6. n + b >= d /\ 2 * n + b > d
      BY <1>2, <3>1, <3>2, <3>4, <3>5
    <3>7. QED BY <1>5, <3>3, <3>4, <3>6
  <2>2. QED BY <2>1
<1>9. \A v \in Good : /\ ~(v - 1 <= next[v] /\ next[v] <= v + 1) => next[v] \in Good
                      /\ Round[v] = next[v]
                      /\ Ann(a) # 0
  <2>1. \A v \in Good : /\ next[v] = YRound(x1, a, d, v) /\ Ann(a) # 0
                        /\ Round[v] = YRound(x1, a, d, v)
    BY <1>1, <1>3, <1>6, <1>7, YNextIsRound DEF YRound
  <2>2. \A v \in Good : ~(v - 1 <= YRound(x1, a, d, v) /\ YRound(x1, a, d, v) <= v + 1)
                           => YRound(x1, a, d, v) \in Good
    BY <1>1, <1>2, YRoundIsGood
  <2>3. QED BY <2>1, <2>2
<1>10. next \in [Int -> Int]
  BY <1>1, <1>2, <1>7, <1>9, YNextInteger
<1>11. Repeated(Round, d) = Iterated(next, d)
  BY <1>7, <1>8, <1>9, <1>10, LoopsAgree
<1>12. QED BY <1>1, <1>11, GetYRepeats, ComputeYIterates

\* What the backend quotes for a stable pool is what the contract's exchange pays
\* from coin 1 to coin 0, for any balances and coefficient whose products stay
\* inside i128: both loops meet the same values and stop at the same one.
THEOREM StableQuotesAlwaysAgree == QuoteSpec => []StableQuotesAgree
<1>1. ASSUME QuestionsInv, q.pool = "stable"
      PROVE  StableQuotesAgree
  <2>1. PICK m \in Nat :
           /\ q.x \in 1..m /\ q.y \in 1..m /\ q.x + q.dx \in 1..m
           /\ q.a \in Nat \ {0} /\ Wide(q.a, m) /\ D \in 1..(4 * m) /\ q.dx \in Nat
    BY <1>1, StableQuestionFits
  <2> DEFINE x1 == q.x
             y1 == q.y
             a == q.a
             dx == q.dx
             d == D
             more == ComputeD(x1 + dx, y1, a)
             y == ComputeY(x1 + dx, a, d)
  <2>2. /\ x1 \in 1..m /\ y1 \in 1..m /\ x1 + dx \in 1..m /\ a \in Nat \ {0} /\ Wide(a, m)
        /\ d \in 1..(4 * m) /\ dx \in Nat /\ d = ComputeD(x1, y1, a)
    BY <2>1 DEF D
  <2>3. StableQuotesAgree
          <=> /\ GetD(x1, y1, a) = d
              /\ CalculateSwap(dx, x1, y1, a, 0) = y1 - y - 1
              /\ \A fee \in 1..FEE_DENOMINATOR :
                    CalculateSwap(dx, x1, y1, a, fee)
                      = (y1 - y - 1) - RustQuotient((y1 - y - 1) * fee, FEE_DENOMINATOR)
              /\ CalculateTokenAmount(dx, 0, x1, y1, a, TRUE)
                   = IF more > d THEN more - d ELSE 0
              /\ CalculateTokenAmount(dx, 0, x1 + dx, y1, a, FALSE)
                   = CalculateTokenAmount(dx, 0, x1, y1, a, TRUE)
    <3>1. m <= I128Max
      <4>1. m \in Nat \ {0} /\ a \in Nat \ {0} /\ Wide(a, m)
        BY <2>2
      <4>2. QED BY <4>1, WideBound
    <3>2. ComputedFrom(1, x1, y1, dx) = x1 + dx
      BY <2>2, <3>1, I128MaxAssumption DEF ComputedFrom, Wrap
    <3>3. ExchangeGross(1) = y1 - y - 1
      BY <3>2, Zenon DEF ExchangeGross
    <3>4. QED BY <1>1, <3>3, Zenon DEF StableQuotesAgree
  <2> HIDE DEF x1, y1, a, dx, d, more, y
  <2>4. GetD(x1, y1, a) = d /\ GetD(x1 + dx, y1, a) = more
    BY <2>2, GetDAgrees DEF more
  <2>5. GetY(x1 + dx, a, d) = y /\ y \in Int
    <3>1. GetY(x1 + dx, a, d) = y
      BY <2>2, GetYAgrees DEF y
    <3>2. y \in Int
      <4>1. x1 + dx \in Nat \ {0} /\ d \in Nat \ {0}
        BY <2>2
      <4>2. \A v \in YGood(x1 + dx, a, d) : YRound(x1 + dx, a, d, v) \in Int
        BY <2>2, <4>1, YRoundIsGood, YTerms
      <4>3. QED BY <2>2, <4>2, ComputeYSettles DEF y
    <3>3. QED BY <3>1, <3>2
  <2>6. PICK gross \in Int : gross = y1 - y - 1
    BY <2>2, <2>5
  <2>7. \A fee : CalculateSwap(dx, x1, y1, a, fee)
                   = gross - Quotient(gross * fee, FEE_DENOMINATOR)
    BY <2>4, <2>5, <2>6, Zenon DEF CalculateSwap
  <2>8. \A fee : Quotient(gross * fee, FEE_DENOMINATOR)
                   = RustQuotient(gross * fee, FEE_DENOMINATOR)
    BY DEF Quotient, RustQuotient, abs
  <2>9. CalculateSwap(dx, x1, y1, a, 0) = gross
    <3>1. FEE_DENOMINATOR \in Nat \ {0}
      BY OffchainAssumption
    <3>2. Quotient(0, FEE_DENOMINATOR) = 0
      <4>1. 0 \div FEE_DENOMINATOR = 0
        BY <3>1
      <4>2. QED BY <3>1, <4>1 DEF Quotient, abs
    <3>3. gross * 0 = 0
      OBVIOUS
    <3>4. QED BY <2>7, <3>2, <3>3
  <2>10. CalculateTokenAmount(dx, 0, x1, y1, a, TRUE) = IF more > d THEN more - d ELSE 0
    <3>1. more - d > 0 <=> more > d
      <4>1. more \in Int /\ d \in Int
        BY <2>2, ComputeDAbove DEF more
      <4>2. QED BY <4>1
    <3>2. y1 + 0 = y1
      BY <2>2
    <3>3. QED BY <2>4, <3>1, <3>2 DEF CalculateTokenAmount
  <2>11. CalculateTokenAmount(dx, 0, x1 + dx, y1, a, FALSE)
           = CalculateTokenAmount(dx, 0, x1, y1, a, TRUE)
    <3>1. (x1 + dx) - dx = x1 /\ y1 - 0 = y1 /\ y1 + 0 = y1
      BY <2>2
    <3>2. QED BY <3>1 DEF CalculateTokenAmount
  <2>12. QED BY <2>3, <2>4, <2>6, <2>7, <2>8, <2>9, <2>10, <2>11
<1>2. QuestionsInv => StableQuotesAgree
  BY <1>1 DEF StableQuotesAgree
<1>3. QED BY <1>2, QuotesTyped, PTL

-----------------------------------------------------------------------------
(* One step of a swap in a concentrated pool. *)

\* A fee of the whole amount at most.
LEMMA FeeIsPart ==
    ASSUME NEW amount \in Nat, NEW fee \in 0..FEE_BASE
    PROVE  /\ (amount * fee) \div FEE_BASE \in Nat
           /\ (amount * fee) \div FEE_BASE <= amount
<1> DEFINE part == (amount * fee) \div FEE_BASE
<1>1. FEE_BASE \in Nat \ {0} /\ fee \in Nat /\ fee <= FEE_BASE
  BY ConcentratedAssumption
<1>2. amount * fee \in Nat /\ amount * fee <= amount * FEE_BASE
  BY <1>1, ProductsCompare
<1>3. part \in Nat /\ part * FEE_BASE <= amount * fee
  BY <1>1, <1>2, Rounded
<1> HIDE DEF part
<1>4. part * FEE_BASE <= amount * FEE_BASE
  <2>1. part * FEE_BASE \in Nat /\ amount * FEE_BASE \in Nat
    BY <1>1, <1>3
  <2>2. QED BY <1>2, <1>3, <2>1
<1>5. part <= amount
  BY <1>1, <1>3, <1>4, Cancel
<1>6. QED BY <1>3, <1>5 DEF part

\* Token 0 moves the price down, and not past the target as long as the amount
\* is below the one that reaches it.
LEMMA PriceFalls ==
    ASSUME NEW p \in Nat \ {0}, NEW t \in Nat \ {0}, t <= p,
           NEW liquidity \in Nat \ {0}, NEW amount \in Nat,
           amount < GetAmount0Delta(t, p, liquidity, FALSE)
    PROVE  GetNextSqrtPriceFromInput(p, liquidity, amount, TRUE) \in t..p
<1> DEFINE reach == GetAmount0Delta(t, p, liquidity, FALSE)
           num == liquidity * (p - t)
           moved == (amount * p) \div Q96
           whole == liquidity + moved
           next == (liquidity * p) \div whole
<1>1. Q96 \in Nat \ {0} /\ p - t \in Nat /\ p * t \in Nat \ {0} /\ amount * p \in Nat
  BY ConcentratedAssumption
<1>2. num \in Nat /\ num * Q96 \in Nat
  BY <1>1
<1>3. reach = (num * Q96) \div (p * t)
  BY <1>1 DEF GetAmount0Delta, MulDiv, High, Low
<1>4. amount < reach
  OBVIOUS
<1> HIDE DEF reach
<1>5. reach \in Nat /\ reach * (p * t) <= num * Q96
  BY <1>1, <1>2, <1>3, Rounded
<1>6. amount * (p * t) <= num * Q96
  <2>1. amount * (p * t) <= reach * (p * t)
    BY <1>1, <1>5, <1>4, ProductsCompare
  <2>2. amount * (p * t) \in Nat /\ reach * (p * t) \in Nat
    BY <1>1, <1>5
  <2>3. QED BY <1>2, <1>5, <2>1, <2>2
<1>7. moved \in Nat /\ moved * Q96 <= amount * p
  BY <1>1, Rounded
<1> HIDE DEF moved, num
<1>8. moved * t <= num
  <2>1. (moved * Q96) * t <= (amount * p) * t
    BY <1>1, <1>7, ProductsCompare
  <2>2. /\ (moved * Q96) * t = (moved * t) * Q96
        /\ (amount * p) * t = amount * (p * t)
    BY <1>1, <1>7
  <2>3. /\ moved * t \in Nat /\ (moved * t) * Q96 \in Nat /\ amount * (p * t) \in Nat
    BY <1>1, <1>7
  <2>4. (moved * t) * Q96 <= num * Q96
    BY <1>2, <1>6, <2>1, <2>2, <2>3
  <2>5. QED BY <1>1, <1>2, <2>3, <2>4, Cancel
<1>9. whole \in Nat \ {0} /\ liquidity * p \in Nat /\ liquidity * t \in Nat
  BY <1>7
<1>10. t * whole <= liquidity * p
  <2>1. t * whole = liquidity * t + moved * t
    BY <1>7
  <2>2. liquidity * p = liquidity * t + num
    BY DEF num
  <2>3. moved * t \in Nat
    BY <1>7
  <2>4. QED BY <1>2, <1>8, <1>9, <2>1, <2>2, <2>3
<1>11. t <= next
  BY <1>9, <1>10, QuotientAtLeast
<1>12. next \in Nat /\ next * whole <= liquidity * p
  BY <1>9, Rounded
<1>13. next <= p
  <2>1. liquidity * p <= whole * p
    BY <1>7, <1>9, ProductsCompare
  <2>2. whole * p = p * whole /\ whole * p \in Nat
    BY <1>9
  <2> HIDE DEF whole, next
  <2>3. next * whole \in Nat
    BY <1>9, <1>12
  <2>4. next * whole <= p * whole
    BY <1>9, <1>12, <2>1, <2>2, <2>3
  <2>5. QED BY <1>9, <1>12, <2>4, Cancel
<1>14. GetNextSqrtPriceFromInput(p, liquidity, amount, TRUE) = next
  BY DEF GetNextSqrtPriceFromInput, moved
<1> HIDE DEF next
<1>15. next \in t..p
  BY <1>11, <1>12, <1>13
<1>16. QED BY <1>14, <1>15

\* Token 1 moves it up.
LEMMA PriceRises ==
    ASSUME NEW p \in Nat \ {0}, NEW t \in Nat \ {0}, p < t,
           NEW liquidity \in Nat \ {0}, NEW amount \in Nat,
           amount < GetAmount1Delta(p, t, liquidity, FALSE)
    PROVE  GetNextSqrtPriceFromInput(p, liquidity, amount, FALSE) \in p..t
<1> DEFINE reach == GetAmount1Delta(p, t, liquidity, FALSE)
           num == liquidity * (t - p)
           moved == (amount * Q96) \div liquidity
<1>1. Q96 \in Nat \ {0} /\ t - p \in Nat /\ amount * Q96 \in Nat /\ num \in Nat
  BY ConcentratedAssumption
<1>2. reach = num \div Q96
  BY DEF GetAmount1Delta, MulDiv, High, Low
<1>3. amount < reach
  OBVIOUS
<1> HIDE DEF reach
<1>4. reach \in Nat /\ reach * Q96 <= num
  BY <1>1, <1>2, Rounded
<1>5. amount * Q96 <= num
  <2>1. amount * Q96 <= reach * Q96
    BY <1>1, <1>4, <1>3, ProductsCompare
  <2>2. reach * Q96 \in Nat
    BY <1>1, <1>4
  <2>3. QED BY <1>1, <1>4, <2>1, <2>2
<1>6. moved \in Nat /\ moved * liquidity <= amount * Q96
  BY <1>1, Rounded
<1> HIDE DEF moved
<1>7. moved <= t - p
  <2>1. num = (t - p) * liquidity /\ moved * liquidity \in Nat
    BY <1>1, <1>6
  <2>2. moved * liquidity <= (t - p) * liquidity
    BY <1>1, <1>5, <1>6, <2>1
  <2>3. QED BY <1>1, <1>6, <2>2, Cancel
<1>8. GetNextSqrtPriceFromInput(p, liquidity, amount, FALSE) = p + moved
  BY DEF GetNextSqrtPriceFromInput, moved
<1>9. p + moved \in p..t
  BY <1>6, <1>7
<1>10. QED BY <1>8, <1>9

\* The amount that reaches the target.
LEMMA ReachIsNatural ==
    ASSUME NEW p \in Nat \ {0}, NEW t \in Nat \ {0}, NEW liquidity \in Nat \ {0}
    PROVE  /\ GetAmount0Delta(t, p, liquidity, FALSE) \in Nat
           /\ GetAmount1Delta(p, t, liquidity, FALSE) \in Nat
<1> DEFINE apart == IF p > t THEN p - t ELSE t - p
           num == liquidity * apart
<1>1. Q96 \in Nat \ {0} /\ p * t \in Nat \ {0} /\ t * p \in Nat \ {0} /\ apart \in Nat
  BY ConcentratedAssumption
<1> HIDE DEF apart
<1>2. num \in Nat /\ num * Q96 \in Nat
  BY <1>1
<1> HIDE DEF num
<1>3. (num * Q96) \div (p * t) \in Nat /\ (num * Q96) \div (t * p) \in Nat /\ num \div Q96 \in Nat
  BY <1>1, <1>2, Rounded
<1>4. /\ High(t, p) - Low(t, p) = apart /\ High(p, t) - Low(p, t) = apart
      /\ High(t, p) * Low(t, p) \in {p * t, t * p}
  BY DEF High, Low, apart
<1>5. GetAmount0Delta(t, p, liquidity, FALSE) = (num * Q96) \div (High(t, p) * Low(t, p))
  BY <1>4 DEF GetAmount0Delta, MulDiv, num
<1>6. GetAmount1Delta(p, t, liquidity, FALSE) = num \div Q96
  BY <1>4 DEF GetAmount1Delta, MulDiv, num
<1>7. QED BY <1>3, <1>4, <1>5, <1>6

\* One step, whichever of the two it takes.
LEMMA StepInRange ==
    ASSUME NEW p \in Nat \ {0}, NEW t \in Nat \ {0}, NEW liquidity \in Nat \ {0},
           NEW amount \in Nat, NEW feeBps \in 0..FEE_BASE
    PROVE  LET step == ComputeSwapStep(p, t, liquidity, amount, feeBps)
           IN  /\ step.sqrtPNext \in Low(p, t)..High(p, t)
               /\ step.amountIn + step.feeAmount <= amount
<1> DEFINE fee == (amount * feeBps) \div FEE_BASE
           offered == amount - fee
           reach == IF p >= t THEN GetAmount0Delta(t, p, liquidity, FALSE)
                              ELSE GetAmount1Delta(p, t, liquidity, FALSE)
           next == IF offered >= reach THEN t
                   ELSE GetNextSqrtPriceFromInput(p, liquidity, offered, p >= t)
           in == IF offered >= reach THEN reach ELSE offered
<1>1. fee \in Nat /\ fee <= amount
  BY FeeIsPart
<1>2. LET step == ComputeSwapStep(p, t, liquidity, amount, feeBps)
      IN  step.sqrtPNext = next /\ step.amountIn = in /\ step.feeAmount = fee
  BY DEF ComputeSwapStep
<1> HIDE DEF fee
<1>3. offered \in Nat /\ offered + fee = amount
  BY <1>1
<1> HIDE DEF offered
<1>4. reach \in Nat
  BY ReachIsNatural
<1>5. in + fee <= amount
  <2> HIDE DEF reach
  <2>1. in \in Nat /\ in <= offered
    BY <1>3, <1>4
  <2> HIDE DEF in
  <2>2. QED BY <1>1, <1>3, <2>1
<1>6. next \in Low(p, t)..High(p, t)
  <2>1. CASE offered >= reach
    <3>1. next = t
      BY <2>1
    <3>2. t \in Low(p, t)..High(p, t)
      BY DEF Low, High
    <3>3. QED BY <3>1, <3>2
  <2>2. CASE ~(offered >= reach) /\ p >= t
    <3> DEFINE full == GetAmount0Delta(t, p, liquidity, FALSE)
    <3>1. reach = full
      BY <2>2, Zenon
    <3> HIDE DEF reach, full
    <3>2. offered < full
      BY <1>3, <1>4, <2>2, <3>1
    <3>3. offered < GetAmount0Delta(t, p, liquidity, FALSE)
      BY <3>2 DEF full
    <3>4. GetNextSqrtPriceFromInput(p, liquidity, offered, TRUE) \in t..p
      BY <1>3, <2>2, <3>3, PriceFalls
    <3>5. (p >= t) = TRUE
      BY <2>2
    <3>6. next = GetNextSqrtPriceFromInput(p, liquidity, offered, TRUE)
      BY <2>2, <3>5, Zenon
    <3>7. Low(p, t) = t /\ High(p, t) = p
      BY <2>2 DEF Low, High
    <3>8. QED BY <3>4, <3>6, <3>7, Zenon
  <2>3. CASE ~(offered >= reach) /\ ~(p >= t)
    <3> DEFINE full == GetAmount1Delta(p, t, liquidity, FALSE)
    <3>1. reach = full
      BY <2>3, Zenon
    <3> HIDE DEF reach, full
    <3>2. offered < full /\ p < t
      BY <1>3, <1>4, <2>3, <3>1
    <3>3. offered < GetAmount1Delta(p, t, liquidity, FALSE) /\ p < t
      BY <3>2 DEF full
    <3>4. GetNextSqrtPriceFromInput(p, liquidity, offered, FALSE) \in p..t
      BY <1>3, <3>3, PriceRises
    <3>5. (p >= t) = FALSE
      BY <2>3
    <3>6. next = GetNextSqrtPriceFromInput(p, liquidity, offered, FALSE)
      BY <2>3, <3>5, Zenon
    <3>7. Low(p, t) = p /\ High(p, t) = t
      BY <3>3 DEF Low, High
    <3>8. QED BY <3>4, <3>6, <3>7, Zenon
  <2>4. QED BY <2>1, <2>2, <2>3
<1> HIDE DEF next, in
<1>7. QED BY <1>2, <1>5, <1>6

\* computeSwapStep of concentrated.math.ts: a step ends between its two prices
\* and takes no more than was offered, for any prices, liquidity, amount and fee
\* and whatever stands for 2^96.
THEOREM StepsStayInRange == QuoteSpec => []StepStaysInRange
<1>1. ASSUME QuestionsInv, q.pool = "concentrated"
      PROVE  LET step == ComputeSwapStep(q.price, q.target, q.liquidity, q.amount, q.fee)
             IN  /\ step.sqrtPNext \in Low(q.price, q.target)..High(q.price, q.target)
                 /\ step.amountIn + step.feeAmount <= q.amount
  <2>1. q \in StepQuestions
    BY <1>1 DEF QuestionsInv, ProductQuestions, StableQuestions
  <2>2. /\ q.price \in Nat \ {0} /\ q.target \in Nat \ {0} /\ q.liquidity \in Nat \ {0}
        /\ q.amount \in Nat /\ q.fee \in 0..FEE_BASE
    BY <2>1 DEF StepQuestions
  <2>3. QED BY <2>2, StepInRange
<1>2. QuestionsInv => StepStaysInRange
  BY <1>1 DEF StepStaysInRange
<1>3. QED BY <1>2, QuotesTyped, PTL

-----------------------------------------------------------------------------
(* The search of paths. *)

\* A graph of the pools: what rebuildGraph and buildGraph make of any table.
IsGraph(g) ==
    /\ IsFiniteSet(g)
    /\ \A e \in g : /\ e.poolId \in Pools
                    /\ \/ /\ e.tokenIn = Listing[e.poolId].token0
                          /\ e.tokenOut = Listing[e.poolId].token1
                       \/ /\ e.tokenIn = Listing[e.poolId].token1
                          /\ e.tokenOut = Listing[e.poolId].token0
                    /\ e.reserveIn \in Nat /\ e.reserveOut \in Nat
                    /\ e.feeBps \in 0..FEE_DENOMINATOR /\ e.tvlUsd \in Int
    /\ \A e \in g : \E f \in g : f.tokenIn = e.tokenOut /\ f.tokenOut = e.tokenIn

LEMMA GraphTokens ==
    ASSUME NEW g, IsGraph(g), NEW e \in g
    PROVE  e.tokenIn \in Tokens /\ e.tokenOut \in Tokens
<1>1. PICK p \in Pools : e.poolId = p /\ Listing[p].token0 \in Tokens /\ Listing[p].token1 \in Tokens
  BY MarketAssumption DEF IsGraph
<1>2. QED BY <1>1 DEF IsGraph

\* The neighbors of a token are the tokens an edge leads to, each once.
LEMMA NeighborsListed ==
    ASSUME NEW g, IsGraph(g), NEW t
    PROVE  /\ Neighbors(g, t) \in Seq(Tokens)
           /\ Len(Neighbors(g, t)) <= Cardinality(Tokens)
           /\ \A i, j \in 1..Len(Neighbors(g, t)) :
                 Neighbors(g, t)[i] = Neighbors(g, t)[j] => i = j
           /\ \A i \in 1..Len(Neighbors(g, t)) : Linked(g, t, Neighbors(g, t)[i])
           /\ \A o : Linked(g, t, o) =>
                 \E i \in 1..Len(Neighbors(g, t)) : Neighbors(g, t)[i] = o
<1> DEFINE others == {e.tokenOut : e \in {f \in g : f.tokenIn = t}}
           key == [o \in others |-> o]
           n == Cardinality(others)
<1>1. others \subseteq Tokens
  BY GraphTokens
<1>2. IsFiniteSet(others) /\ n <= Cardinality(Tokens)
  <2> HIDE DEF others
  <2>1. QED BY <1>1, FS_Subset, RoutingAssumption
<1>3. others \subseteq Int /\ key \in [others -> Int]
  <2> HIDE DEF others
  <2>1. others \subseteq Int
    BY <1>1, RoutingAssumption
  <2>2. QED BY <2>1
<1>4. Neighbors(g, t) = InOrder(others, key)
  BY DEF Neighbors
<1>5. /\ n \in Nat
      /\ InOrder(others, key) \in [1..n -> others]
      /\ \A i, j \in 1..n : InOrder(others, key)[i] = InOrder(others, key)[j] => i = j
      /\ \A o \in others : \E i \in 1..n : InOrder(others, key)[i] = o
  <2> HIDE DEF others, key
  <2>1. QED BY <1>2, <1>3, OrderEnumerates
<1>6. Neighbors(g, t) \in [1..n -> Tokens]
  <2> HIDE DEF others, key
  <2>1. QED BY <1>1, <1>4, <1>5
<1>7. Neighbors(g, t) \in Seq(Tokens) /\ Len(Neighbors(g, t)) = n
  <2> HIDE DEF others, n
  <2>1. QED BY <1>5, <1>6
<1>8. \A o : o \in others <=> Linked(g, t, o)
  BY DEF Linked
<1>9. \A i \in 1..n : Linked(g, t, Neighbors(g, t)[i])
  <2> HIDE DEF others, key, n
  <2>1. QED BY <1>4, <1>5, <1>8
<1>10. \A o : Linked(g, t, o) => \E i \in 1..n : Neighbors(g, t)[i] = o
  <2> HIDE DEF others, key, n
  <2>1. QED BY <1>4, <1>5, <1>8
<1>11. \A i, j \in 1..n : Neighbors(g, t)[i] = Neighbors(g, t)[j] => i = j
  <2> HIDE DEF others, key, n
  <2>1. QED BY <1>4, <1>5
<1>12. QED
  <2> HIDE DEF others, key, n
  <2>1. QED BY <1>2, <1>7, <1>9, <1>10, <1>11

LEMMA NeighborFound ==
    ASSUME NEW g, IsGraph(g), NEW t, NEW o, Linked(g, t, o),
           NEW list, list = Neighbors(g, t)
    PROVE  \E i \in 1..Len(list) : list[i] = o
BY NeighborsListed

\* What the search of f has found when the first of the neighbors left is done.
Entered(f, g, end, maxHops, s) ==
    LET longer == Append(s.path, Head(s.left))
    IN  IF Head(s.left) \in Range(s.path) \/ HopsSpent(longer, maxHops) THEN s.found
        ELSE IF Head(s.left) = end THEN Append(s.found, longer)
        ELSE IF Len(s.found) >= MaxRoutes THEN s.found
        ELSE f[At(longer, Neighbors(g, Head(s.left)), s.found)]

Searched(f, g, end, maxHops, s) ==
    IF s.left = <<>> THEN s.found
    ELSE f[At(s.path, Tail(s.left), Entered(f, g, end, maxHops, s))]

IsSearch(f, g, end, maxHops) == f = [s \in Search |-> Searched(f, g, end, maxHops, s)]

LEMMA SearchDefinition ==
    ASSUME NEW g, NEW end, NEW start, NEW maxHops
    PROVE  PathsFrom(g, end, start, maxHops) =
             (CHOOSE f : IsSearch(f, g, end, maxHops))[At(<<start>>, Neighbors(g, start), <<>>)]
BY Zenon DEF PathsFrom, IsSearch, Searched, Entered

\* The places the search may go on to from s.
Enters(g, s) == At(Append(s.path, Head(s.left)), Neighbors(g, Head(s.left)), s.found)

LEMMA SearchPlaces ==
    ASSUME NEW g, IsGraph(g), NEW s \in Search, s.left # <<>>
    PROVE  /\ Enters(g, s) \in Search
           /\ Append(s.path, Head(s.left)) \in Seq(Tokens)
           /\ \A found \in Seq(Seq(Tokens)) : At(s.path, Tail(s.left), found) \in Search
<1>1. s.path \in Seq(Tokens) /\ s.left \in Seq(Tokens) /\ s.found \in Seq(Seq(Tokens))
  BY DEF Search
<1>2. Head(s.left) \in Tokens /\ Tail(s.left) \in Seq(Tokens)
  BY <1>1
<1>3. Append(s.path, Head(s.left)) \in Seq(Tokens)
  BY <1>1, <1>2
<1>4. Neighbors(g, Head(s.left)) \in Seq(Tokens)
  BY NeighborsListed
<1>5. QED BY <1>1, <1>2, <1>3, <1>4 DEF Search, At, Enters

\* How far the search may still go from s: no further than this.
SearchRank(maxHops) ==
    [s \in Search |->
        (IF Len(s.path) < maxHops THEN maxHops - Len(s.path) ELSE 0) * (Cardinality(Tokens) + 1)
          + Len(s.left)]

LEMMA SearchRankType ==
    ASSUME NEW maxHops \in Nat
    PROVE  SearchRank(maxHops) \in [Search -> Nat]
<1> DEFINE K == Cardinality(Tokens)
           Room(path) == IF Len(path) < maxHops THEN maxHops - Len(path) ELSE 0
<1>1. K \in Nat
  BY RoutingAssumption, FS_CardinalityType
<1>2. ASSUME NEW z \in Search PROVE Room(z.path) * (K + 1) + Len(z.left) \in Nat
  <2>1. PICK a \in Nat : a = Room(z.path)
    <3>1. Len(z.path) \in Nat
      BY DEF Search
    <3>2. Room(z.path) \in Nat
      BY <3>1
    <3> HIDE DEF Room
    <3>3. QED BY <3>2
  <2>2. Len(z.left) \in Nat
    BY DEF Search
  <2> HIDE DEF K, Room
  <2>3. a * (K + 1) \in Nat
    BY <1>1
  <2>4. a * (K + 1) + Len(z.left) \in Nat
    BY <2>2, <2>3
  <2>5. QED BY <2>1, <2>4
<1>3. QED
  <2>1. SearchRank(maxHops) = [z \in Search |-> Room(z.path) * (K + 1) + Len(z.left)]
    BY DEF SearchRank
  <2> HIDE DEF K, Room
  <2>2. QED BY <1>2, <2>1

LEMMA SearchDescends ==
    ASSUME NEW g, IsGraph(g), NEW maxHops \in Nat, NEW s \in Search, s.left # <<>>
    PROVE  /\ \A found \in Seq(Seq(Tokens)) :
                 SearchRank(maxHops)[At(s.path, Tail(s.left), found)] < SearchRank(maxHops)[s]
           /\ ~HopsSpent(Append(s.path, Head(s.left)), maxHops) =>
                 SearchRank(maxHops)[Enters(g, s)] < SearchRank(maxHops)[s]
<1> DEFINE K == Cardinality(Tokens)
           Room(path) == IF Len(path) < maxHops THEN maxHops - Len(path) ELSE 0
<1>1. K \in Nat
  BY RoutingAssumption, FS_CardinalityType
<1>2. \A z \in Search : /\ z.path \in Seq(Tokens) /\ z.left \in Seq(Tokens)
                        /\ Len(z.path) \in Nat /\ Len(z.left) \in Nat
  BY DEF Search
<1>3. \A z \in Search : Room(z.path) \in Nat
  BY <1>2
<1>4. \A a \in Nat : a * (K + 1) \in Nat
  BY <1>1
<1>5. \A z \in Search : SearchRank(maxHops)[z] = Room(z.path) * (K + 1) + Len(z.left)
  BY DEF SearchRank
<1>7. ASSUME NEW found \in Seq(Seq(Tokens))
      PROVE  SearchRank(maxHops)[At(s.path, Tail(s.left), found)] < SearchRank(maxHops)[s]
  <2>1. PICK z \in Search : z = At(s.path, Tail(s.left), found)
    BY SearchPlaces
  <2>2. z.path = s.path /\ Len(z.left) < Len(s.left)
    BY <1>2, <2>1 DEF At
  <2>3. SearchRank(maxHops)[z] = Room(s.path) * (K + 1) + Len(z.left)
        /\ SearchRank(maxHops)[s] = Room(s.path) * (K + 1) + Len(s.left)
        /\ Room(s.path) * (K + 1) \in Nat
    BY <1>3, <1>4, <1>5, <2>2
  <2> HIDE DEF K, Room
  <2>4. QED BY <1>2, <2>1, <2>2, <2>3
<1>8. ASSUME ~HopsSpent(Append(s.path, Head(s.left)), maxHops)
      PROVE  SearchRank(maxHops)[Enters(g, s)] < SearchRank(maxHops)[s]
  <2>1. PICK z \in Search : z = Enters(g, s)
    BY SearchPlaces
  <2>2. z.path = Append(s.path, Head(s.left)) /\ z.left = Neighbors(g, Head(s.left))
    BY <2>1 DEF Enters, At
  <2>3. Len(Append(s.path, Head(s.left))) = Len(s.path) + 1
    BY <1>2
  <2>4. Len(s.path) < maxHops /\ Room(s.path) = Room(z.path) + 1
    <3>1. PICK n \in Nat : n = Len(s.path)
      BY <1>2
    <3>2. Len(z.path) = n + 1
      BY <2>2, <2>3, <3>1
    <3>3. ~(n + 1 - 1 >= maxHops)
      BY <1>8, <2>3, <3>1 DEF HopsSpent
    <3>4. QED BY <3>1, <3>2, <3>3
  <2>5. Len(z.left) <= K
    BY <2>2, NeighborsListed
  <2>6. PICK a \in Nat : a = Room(z.path)
    BY <1>3
  <2>7. SearchRank(maxHops)[z] = a * (K + 1) + Len(z.left)
        /\ SearchRank(maxHops)[s] = (a + 1) * (K + 1) + Len(s.left)
    BY <1>5, <2>4, <2>6
  <2> HIDE DEF K, Room
  <2>8. (a + 1) * (K + 1) = a * (K + 1) + K + 1
    BY <1>1, <2>6
  <2>9. PICK b \in Nat, k \in Nat, m \in Nat, n \in Nat :
            b = a * (K + 1) /\ k = K /\ m = Len(z.left) /\ n = Len(s.left)
    BY <1>1, <1>2, <1>4, <2>6
  <2>10. SearchRank(maxHops)[z] = b + m /\ SearchRank(maxHops)[s] = b + k + 1 + n
    BY <2>7, <2>8, <2>9
  <2>11. m <= k
    BY <2>5, <2>9
  <2>12. b + m < b + k + 1 + n
    BY <2>11
  <2>13. QED BY <2>1, <2>10, <2>12
<1>9. QED BY <1>7, <1>8

LEMMA EnteredType ==
    ASSUME NEW g, IsGraph(g), NEW end, NEW maxHops, NEW s \in Search, s.left # <<>>, NEW f,
           ~HopsSpent(Append(s.path, Head(s.left)), maxHops) => f[Enters(g, s)] \in Seq(Seq(Tokens))
    PROVE  Entered(f, g, end, maxHops, s) \in Seq(Seq(Tokens))
<1>1. s.found \in Seq(Seq(Tokens)) /\ Append(s.path, Head(s.left)) \in Seq(Tokens)
  BY SearchPlaces DEF Search
<1>2. Append(s.found, Append(s.path, Head(s.left))) \in Seq(Seq(Tokens))
  BY <1>1
<1>3. QED BY <1>1, <1>2, Zenon DEF Entered, Enters

LEMMA SearchExists ==
    ASSUME NEW g, IsGraph(g), NEW end, NEW maxHops \in Nat
    PROVE  \E f \in [Search -> Seq(Seq(Tokens))] : IsSearch(f, g, end, maxHops)
<1> DEFINE V == Seq(Seq(Tokens))
           Body == [f \in [Search -> V] |-> [s \in Search |-> Searched(f, g, end, maxHops, s)]]
<1>1. ASSUME NEW f \in [Search -> V], NEW s \in Search
      PROVE  Searched(f, g, end, maxHops, s) \in V
  <2>1. CASE s.left = <<>>
    BY <2>1 DEF Searched, Search
  <2>2. CASE s.left # <<>>
    <3>1. Entered(f, g, end, maxHops, s) \in V
      BY <2>2, EnteredType, SearchPlaces
    <3>2. At(s.path, Tail(s.left), Entered(f, g, end, maxHops, s)) \in Search
      BY <2>2, <3>1, SearchPlaces
    <3>3. QED BY <2>2, <3>2 DEF Searched
  <2>3. QED BY <2>1, <2>2
<1>2. Body \in [[Search -> V] -> [Search -> V]]
  <2>1. \A f \in [Search -> V] : [s \in Search |-> Searched(f, g, end, maxHops, s)] \in [Search -> V]
    <3> HIDE DEF V
    <3>1. QED BY <1>1
  <2> HIDE DEF V
  <2>2. QED BY <2>1
<1>3. ASSUME NEW f \in [Search -> V], NEW h \in [Search -> V], NEW s \in Search,
             \A z \in Search : SearchRank(maxHops)[z] < SearchRank(maxHops)[s] => f[z] = h[z]
      PROVE  Body[f][s] = Body[h][s]
  <2>1. Searched(f, g, end, maxHops, s) = Searched(h, g, end, maxHops, s)
    <3>1. CASE s.left = <<>>
      BY <3>1, Zenon DEF Searched
    <3>2. CASE s.left # <<>>
      <4>1. Entered(f, g, end, maxHops, s) = Entered(h, g, end, maxHops, s)
        <5>1. CASE HopsSpent(Append(s.path, Head(s.left)), maxHops)
          BY <5>1, Zenon DEF Entered
        <5>2. CASE ~HopsSpent(Append(s.path, Head(s.left)), maxHops)
          <6>1. f[Enters(g, s)] = h[Enters(g, s)]
            BY <1>3, <3>2, <5>2, SearchPlaces, SearchDescends
          <6>2. QED BY <6>1, Zenon DEF Entered, Enters
        <5>3. QED BY <5>1, <5>2
      <4>2. PICK found \in V : found = Entered(f, g, end, maxHops, s)
        BY <3>2, EnteredType, SearchPlaces
      <4>3. f[At(s.path, Tail(s.left), found)] = h[At(s.path, Tail(s.left), found)]
        BY <1>3, <3>2, SearchPlaces, SearchDescends
      <4>4. QED BY <3>2, <4>1, <4>2, <4>3, Zenon DEF Searched
    <3>3. QED BY <3>1, <3>2
  <2>2. Body[f][s] = Searched(f, g, end, maxHops, s) /\ Body[h][s] = Searched(h, g, end, maxHops, s)
    OBVIOUS
  <2>3. QED BY <2>1, <2>2
<1>4. SearchRank(maxHops) \in [Search -> Nat] /\ <<>> \in V
  BY SearchRankType
<1>5. \E f \in [Search -> V] : f = Body[f]
  <2>1. \A f, h \in [Search -> V], s \in Search :
           (\A z \in Search : SearchRank(maxHops)[z] < SearchRank(maxHops)[s] => f[z] = h[z])
             => Body[f][s] = Body[h][s]
    <3> HIDE DEF V, Body
    <3>1. QED BY <1>3
  <2> HIDE DEF V, Body
  <2>2. V # {}
    BY <1>4
  <2>3. IsRecursion(Search, V, SearchRank(maxHops), Body)
    BY <1>2, <1>4, <2>1 DEF IsRecursion
  <2>4. QED BY <2>2, <2>3, RankedRecursion
<1>6. QED BY <1>5 DEF IsSearch

\* A path of the graph without a cycle.
IsPath(g, p) ==
    /\ p \in Seq(Tokens) /\ p # <<>>
    /\ \A i, j \in 1..Len(p) : p[i] = p[j] => i = j
    /\ \A i \in 1..(Len(p) - 1) : Linked(g, p[i], p[i + 1])

\* The paths to end that continue path with the token t.
Via(g, end, maxHops, path, t) ==
    {p \in Seq(Tokens) :
        /\ IsPath(g, p)
        /\ Len(path) < Len(p) /\ Len(p) <= maxHops
        /\ \A i \in 1..Len(path) : p[i] = path[i]
        /\ p[Len(path) + 1] = t
        /\ p[Len(p)] = end}

\* Those that the search has before it at s.
Beyond(g, end, maxHops, s) ==
    {p \in Seq(Tokens) : \E i \in 1..Len(s.left) : p \in Via(g, end, maxHops, s.path, s.left[i])}

\* result continues found with the members of B, each once; with all of them,
\* or until there are MaxRoutes.
Adds(found, result, B) ==
    /\ found \in Seq(Seq(Tokens)) /\ result \in Seq(Seq(Tokens))
    /\ Len(found) <= Len(result)
    /\ \A i \in 1..Len(found) : result[i] = found[i]
    /\ \A i \in (Len(found) + 1)..Len(result) : result[i] \in B
    /\ \A i, j \in (Len(found) + 1)..Len(result) : result[i] = result[j] => i = j
    /\ \/ Len(result) >= MaxRoutes
       \/ \A p \in B : \E i \in (Len(found) + 1)..Len(result) : result[i] = p

LEMMA AddsNothing ==
    ASSUME NEW found \in Seq(Seq(Tokens)), NEW B, B = {} \/ Len(found) >= MaxRoutes
    PROVE  Adds(found, found, B)
<1>1. PICK n \in Nat : n = Len(found)
  OBVIOUS
<1>2. (n + 1)..n = {}
  OBVIOUS
<1>3. QED BY <1>1, <1>2 DEF Adds

LEMMA AddsOne ==
    ASSUME NEW found \in Seq(Seq(Tokens)), NEW p \in Seq(Tokens)
    PROVE  Adds(found, Append(found, p), {p})
<1>1. PICK n \in Nat : n = Len(found)
  OBVIOUS
<1>2. PICK result \in Seq(Seq(Tokens)) : result = Append(found, p)
  <2>1. Append(found, p) \in Seq(Seq(Tokens))
    OBVIOUS
  <2>2. QED BY <2>1, Zenon
<1>3. Len(result) = n + 1 /\ result[n + 1] = p /\ \A i \in 1..n : result[i] = found[i]
  BY <1>1, <1>2
<1>4. (n + 1)..(n + 1) = {n + 1} /\ n <= n + 1 /\ n + 1 \in (n + 1)..(n + 1)
  OBVIOUS
<1>5. Adds(found, result, {p})
  BY <1>1, <1>3, <1>4 DEF Adds
<1>6. QED BY <1>2, <1>5

LEMMA AddsBoth ==
    ASSUME NEW found, NEW entered, NEW result, NEW A, NEW B, A \cap B = {},
           Adds(found, entered, A), Adds(entered, result, B)
    PROVE  Adds(found, result, A \cup B)
<1>1. PICK k \in Nat, m \in Nat, n \in Nat :
         k = Len(found) /\ m = Len(entered) /\ n = Len(result)
  BY DEF Adds
<1>2. /\ found \in Seq(Seq(Tokens)) /\ entered \in Seq(Seq(Tokens)) /\ result \in Seq(Seq(Tokens))
      /\ k <= m /\ m <= n
  BY <1>1 DEF Adds
<1>3. /\ \A i \in 1..k : entered[i] = found[i]
      /\ \A i \in (k + 1)..m : entered[i] \in A
      /\ \A i, j \in (k + 1)..m : entered[i] = entered[j] => i = j
      /\ m >= MaxRoutes \/ \A p \in A : \E i \in (k + 1)..m : entered[i] = p
  BY <1>1 DEF Adds
<1>4. /\ \A i \in 1..m : result[i] = entered[i]
      /\ \A i \in (m + 1)..n : result[i] \in B
      /\ \A i, j \in (m + 1)..n : result[i] = result[j] => i = j
      /\ n >= MaxRoutes \/ \A p \in B : \E i \in (m + 1)..n : result[i] = p
  BY <1>1 DEF Adds
<1>5. /\ \A i \in 1..k : i \in 1..m
      /\ \A i \in (k + 1)..m : i \in 1..m /\ i \in (k + 1)..n
      /\ \A i \in (m + 1)..n : i \in (k + 1)..n
      /\ \A i \in (k + 1)..n : i \in (k + 1)..m \/ i \in (m + 1)..n
  BY <1>2
<1>6. \A i \in 1..k : result[i] = found[i]
  BY <1>3, <1>4, <1>5
<1>7. /\ \A i \in (k + 1)..m : result[i] = entered[i] /\ result[i] \in A
      /\ \A i \in (m + 1)..n : result[i] \in B
  BY <1>3, <1>4, <1>5
<1>8. \A i \in (k + 1)..n : result[i] \in A \cup B
  BY <1>5, <1>7
<1>9. \A i, j \in (k + 1)..n : result[i] = result[j] => i = j
  <2> SUFFICES ASSUME NEW i \in (k + 1)..n, NEW j \in (k + 1)..n, result[i] = result[j]
               PROVE  i = j
    OBVIOUS
  <2>1. CASE i \in (k + 1)..m /\ j \in (k + 1)..m
    BY <1>3, <1>7, <2>1
  <2>2. CASE i \in (m + 1)..n /\ j \in (m + 1)..n
    BY <1>4, <2>2
  <2>3. CASE i \in (k + 1)..m /\ j \in (m + 1)..n
    BY <1>7, <2>3
  <2>4. CASE i \in (m + 1)..n /\ j \in (k + 1)..m
    BY <1>7, <2>4
  <2>5. QED BY <1>5, <2>1, <2>2, <2>3, <2>4
<1>10. n >= MaxRoutes \/ \A p \in A \cup B : \E i \in (k + 1)..n : result[i] = p
  <2> SUFFICES ASSUME ~(n >= MaxRoutes), NEW p \in A \cup B PROVE \E i \in (k + 1)..n : result[i] = p
    OBVIOUS
  <2>1. ~(m >= MaxRoutes)
    BY <1>2, RoutingAssumption
  <2>2. CASE p \in A
    <3>1. PICK i \in (k + 1)..m : entered[i] = p
      BY <1>3, <2>1, <2>2
    <3>2. QED BY <1>5, <1>7, <3>1
  <2>3. CASE p \in B
    <3>1. PICK i \in (m + 1)..n : result[i] = p
      BY <1>4, <2>3
    <3>2. QED BY <1>5, <3>1
  <2>4. QED BY <2>2, <2>3
<1>11. k <= n
  BY <1>2
<1>12. QED BY <1>1, <1>2, <1>6, <1>8, <1>9, <1>10, <1>11 DEF Adds

\* A place the search comes to: its path is one, and the neighbors left are
\* some of those of its end, each once.
IsPlace(g, s) ==
    /\ s \in Search /\ IsPath(g, s.path)
    /\ \A i, j \in 1..Len(s.left) : s.left[i] = s.left[j] => i = j
    /\ \A i \in 1..Len(s.left) : Linked(g, s.path[Len(s.path)], s.left[i])

\* A path that is extended by a neighbor that is not on it.
LEMMA PathExtended ==
    ASSUME NEW g, NEW path, IsPath(g, path), NEW t \in Tokens, t \notin Range(path),
           Linked(g, path[Len(path)], t)
    PROVE  /\ IsPath(g, Append(path, t))
           /\ Len(Append(path, t)) = Len(path) + 1
           /\ Append(path, t)[Len(path) + 1] = t
           /\ \A i \in 1..Len(path) : Append(path, t)[i] = path[i]
<1>1. PICK n \in Nat \ {0} : n = Len(path) /\ path \in Seq(Tokens) /\ DOMAIN path = 1..n
  BY DEF IsPath
<1>2. PICK p \in Seq(Tokens) : p = Append(path, t)
  <2>1. Append(path, t) \in Seq(Tokens)
    BY <1>1
  <2>2. QED BY <2>1, Zenon
<1>3. Len(p) = n + 1 /\ p[n + 1] = t /\ \A i \in 1..n : p[i] = path[i]
  BY <1>1, <1>2
<1>4. \A i \in 1..n : path[i] # t
  BY <1>1 DEF Range
<1>5. \A i \in 1..(n + 1) : i \in 1..n \/ i = n + 1
  OBVIOUS
<1>6. \A i, j \in 1..n : path[i] = path[j] => i = j
  BY <1>1 DEF IsPath
<1>7. \A i, j \in 1..(n + 1) : p[i] = p[j] => i = j
  <2> SUFFICES ASSUME NEW i \in 1..(n + 1), NEW j \in 1..(n + 1), p[i] = p[j] PROVE i = j
    OBVIOUS
  <2>1. QED BY <1>3, <1>4, <1>5, <1>6
<1>8. ASSUME NEW i \in 1..n PROVE Linked(g, p[i], p[i + 1])
  <2>1. CASE i = n
    BY <1>1, <1>3, <2>1
  <2>2. CASE i # n
    <3>1. i \in 1..(n - 1) /\ i + 1 \in 1..n
      BY <2>2
    <3>2. Linked(g, path[i], path[i + 1])
      BY <1>1, <3>1 DEF IsPath
    <3>3. QED BY <1>3, <3>1, <3>2
  <2>3. QED BY <2>1, <2>2
<1>9. n + 1 - 1 = n /\ p # <<>>
  BY <1>3
<1>10. IsPath(g, p)
  BY <1>3, <1>7, <1>8, <1>9 DEF IsPath
<1>11. QED BY <1>1, <1>2, <1>3, <1>10

\* Of the paths before the search those through the first neighbor left and
\* those through the others are different ones.
LEMMA BeyondSplits ==
    ASSUME NEW g, NEW end, NEW maxHops, NEW s, IsPlace(g, s), s.left # <<>>,
           NEW found \in Seq(Seq(Tokens))
    PROVE  /\ Beyond(g, end, maxHops, s) =
                 Via(g, end, maxHops, s.path, Head(s.left))
                   \cup Beyond(g, end, maxHops, At(s.path, Tail(s.left), found))
           /\ Via(g, end, maxHops, s.path, Head(s.left))
                   \cap Beyond(g, end, maxHops, At(s.path, Tail(s.left), found)) = {}
           /\ Linked(g, s.path[Len(s.path)], Head(s.left)) /\ Head(s.left) \in Tokens
           /\ At(s.path, Tail(s.left), found) \in Search => IsPlace(g, At(s.path, Tail(s.left), found))
<1>1. PICK left \in Seq(Tokens), n \in Nat \ {0} : left = s.left /\ n = Len(left)
  BY DEF IsPlace, Search
<1>2. PICK tail \in Seq(Tokens), t \in Tokens : tail = Tail(s.left) /\ t = Head(s.left)
  <2>1. Tail(left) \in Seq(Tokens) /\ Head(left) \in Tokens
    BY <1>1
  <2>2. QED BY <1>1, <2>1, Zenon
<1>3. t = left[1] /\ Len(tail) = n - 1 /\ \A i \in 1..(n - 1) : tail[i] = left[i + 1]
  BY <1>1, <1>2
<1>4. \A i \in 1..n : i = 1 \/ \E j \in 1..(n - 1) : i = j + 1
  <2> SUFFICES ASSUME NEW i \in 1..n, i # 1 PROVE \E j \in 1..(n - 1) : i = j + 1
    OBVIOUS
  <2>1. i - 1 \in 1..(n - 1) /\ i = (i - 1) + 1
    OBVIOUS
  <2>2. QED BY <2>1
<1>5. \A j \in 1..(n - 1) : j + 1 \in 1..n /\ j + 1 # 1
  OBVIOUS
<1>6. 1 \in 1..n
  OBVIOUS
<1>7. PICK z : z = At(s.path, Tail(s.left), found)
  OBVIOUS
<1>8. z.path = s.path /\ z.left = tail
  BY <1>2, <1>7 DEF At
<1> DEFINE Through(o) == Via(g, end, maxHops, s.path, o)
<1>9. Beyond(g, end, maxHops, s) = {p \in Seq(Tokens) : \E i \in 1..n : p \in Through(left[i])}
  BY <1>1, Zenon DEF Beyond
<1>10. Beyond(g, end, maxHops, z) = {p \in Seq(Tokens) : \E j \in 1..(n - 1) : p \in Through(tail[j])}
  BY <1>3, <1>8, Zenon DEF Beyond
<1>11. \A o : \A p \in Through(o) : p \in Seq(Tokens) /\ p[Len(s.path) + 1] = o
  BY DEF Via
<1>12. \A i, j \in 1..n : left[i] = left[j] => i = j
  BY <1>1 DEF IsPlace
<1>13. \A i \in 1..n : Linked(g, s.path[Len(s.path)], left[i])
  BY <1>1 DEF IsPlace
<1> HIDE DEF Through
<1>14. Beyond(g, end, maxHops, s) = Through(t) \cup Beyond(g, end, maxHops, z)
  <2>1. ASSUME NEW p \in Seq(Tokens), NEW i \in 1..n, p \in Through(left[i])
        PROVE  p \in Through(t) \/ \E j \in 1..(n - 1) : p \in Through(tail[j])
    <3>1. CASE i = 1
      BY <1>3, <2>1, <3>1
    <3>2. CASE i # 1
      <4>1. PICK j \in 1..(n - 1) : i = j + 1
        BY <1>4, <3>2
      <4>2. tail[j] = left[i]
        BY <1>3, <4>1
      <4>3. QED BY <2>1, <4>2
    <3>3. QED BY <3>1, <3>2
  <2>2. ASSUME NEW j \in 1..(n - 1) PROVE \E i \in 1..n : tail[j] = left[i]
    BY <1>3, <1>5
  <2>3. \A p \in Through(t) : p \in Through(left[1])
    BY <1>3
  <2>4. ASSUME NEW p \in Beyond(g, end, maxHops, s)
        PROVE  p \in Through(t) \cup Beyond(g, end, maxHops, z)
    BY <1>9, <1>10, <2>1
  <2>5. ASSUME NEW p \in Through(t) \cup Beyond(g, end, maxHops, z)
        PROVE  p \in Beyond(g, end, maxHops, s)
    <3>1. CASE p \in Through(t)
      BY <1>6, <1>9, <1>11, <2>3, <3>1
    <3>2. CASE p \in Beyond(g, end, maxHops, z)
      BY <1>9, <1>10, <2>2, <3>2
    <3>3. QED BY <2>5, <3>1, <3>2
  <2>6. QED BY <2>4, <2>5
<1>15. Through(t) \cap Beyond(g, end, maxHops, z) = {}
  <2> SUFFICES ASSUME NEW p \in Through(t), NEW j \in 1..(n - 1), p \in Through(tail[j]) PROVE FALSE
    BY <1>10
  <2>1. left[1] = left[j + 1]
    BY <1>3, <1>11, ZenonT(60)
  <2>2. j + 1 \in 1..n /\ j + 1 # 1
    BY <1>5
  <2>3. 1 = j + 1
    BY <1>6, <1>12, <2>1, <2>2
  <2>4. QED BY <2>2, <2>3
<1>16. z \in Search => IsPlace(g, z)
  <2>1. \A i, j \in 1..(n - 1) : tail[i] = tail[j] => i = j
    <3> SUFFICES ASSUME NEW i \in 1..(n - 1), NEW j \in 1..(n - 1), tail[i] = tail[j] PROVE i = j
      OBVIOUS
    <3>1. left[i + 1] = left[j + 1]
      BY <1>3
    <3>2. i + 1 \in 1..n /\ j + 1 \in 1..n
      BY <1>5
    <3>3. i + 1 = j + 1
      BY <1>12, <3>1, <3>2
    <3>4. QED BY <3>3
  <2>2. \A i \in 1..(n - 1) : Linked(g, s.path[Len(s.path)], tail[i])
    BY <1>3, <1>5, <1>13
  <2>3. IsPath(g, s.path)
    BY DEF IsPlace
  <2>4. QED BY <1>3, <1>8, <2>1, <2>2, <2>3 DEF IsPlace
<1>17. QED BY <1>2, <1>3, <1>6, <1>7, <1>13, <1>14, <1>15, <1>16 DEF Through

\* What is added while the first neighbor left is tried: the paths through it.
LEMMA EnteredAdds ==
    ASSUME NEW g, IsGraph(g), NEW end, NEW maxHops \in Nat, NEW s, IsPlace(g, s), s.left # <<>>,
           NEW f \in [Search -> Seq(Seq(Tokens))],
           ~HopsSpent(Append(s.path, Head(s.left)), maxHops) /\ IsPlace(g, Enters(g, s)) =>
              Adds(s.found, f[Enters(g, s)], Beyond(g, end, maxHops, Enters(g, s)))
    PROVE  Adds(s.found, Entered(f, g, end, maxHops, s),
                Via(g, end, maxHops, s.path, Head(s.left)))
<1>1. PICK path \in Seq(Tokens), n \in Nat \ {0} : path = s.path /\ n = Len(path)
  BY DEF IsPlace, IsPath, Search
<1>2. PICK t \in Tokens : t = Head(s.left)
  BY BeyondSplits, <1>1 DEF IsPlace, Search
<1>3. Linked(g, path[n], t)
  BY <1>1, <1>2, BeyondSplits DEF IsPlace, Search
<1>4. PICK longer \in Seq(Tokens) : longer = Append(s.path, Head(s.left))
  BY SearchPlaces DEF IsPlace
<1>5. s.found \in Seq(Seq(Tokens)) /\ IsPath(g, path)
  BY <1>1 DEF IsPlace, Search
<1> DEFINE Through == Via(g, end, maxHops, s.path, Head(s.left))
<1>6. \A p \in Through : /\ p \in Seq(Tokens) /\ IsPath(g, p) /\ n < Len(p) /\ Len(p) <= maxHops
                         /\ \A i \in 1..n : p[i] = path[i]
                         /\ p[n + 1] = t /\ p[Len(p)] = end
  BY <1>1, <1>2 DEF Via
<1>7. Len(longer) = n + 1
  BY <1>1, <1>2, <1>4
<1>8. HopsSpent(longer, maxHops) <=> n >= maxHops
  <2>1. n + 1 - 1 = n
    OBVIOUS
  <2>2. QED BY <1>7, <2>1 DEF HopsSpent
<1>9. CASE t \in Range(path) \/ HopsSpent(longer, maxHops)
  <2>1. Entered(f, g, end, maxHops, s) = s.found
    BY <1>1, <1>2, <1>4, <1>9, Zenon DEF Entered
  <2>2. ASSUME NEW p \in Through PROVE FALSE
    <3>1. PICK m \in Nat : m = Len(p)
      BY <1>6
    <3>2. n < m /\ m <= maxHops
      BY <1>6, <3>1
    <3>3. CASE t \in Range(path)
      <4>1. PICK i \in 1..n : path[i] = t
        BY <1>1, <3>3 DEF Range
      <4>2. i \in 1..m /\ n + 1 \in 1..m /\ p[i] = p[n + 1] /\ i # n + 1
        BY <1>6, <3>2, <4>1
      <4>3. QED BY <1>6, <3>1, <4>2 DEF IsPath
    <3>4. CASE HopsSpent(longer, maxHops)
      BY <1>8, <3>2, <3>4
    <3>5. QED BY <1>9, <3>3, <3>4
  <2>3. Through = {}
    BY <2>2
  <2> HIDE DEF Through
  <2>4. Adds(s.found, s.found, Through)
    BY <1>5, <2>3, AddsNothing
  <2>5. QED BY <2>1, <2>4 DEF Through
<1>10. CASE ~(t \in Range(path) \/ HopsSpent(longer, maxHops))
  <2>1. /\ IsPath(g, longer) /\ longer[n + 1] = t
        /\ \A i \in 1..n : longer[i] = path[i]
    BY <1>1, <1>2, <1>3, <1>4, <1>5, <1>10, PathExtended
  <2>2. n < maxHops
    BY <1>8, <1>10
  <2>3. CASE t = end
    <3>1. Entered(f, g, end, maxHops, s) = Append(s.found, longer)
      BY <1>1, <1>2, <1>4, <1>10, <2>3, Zenon DEF Entered
    <3>2. n + 1 <= maxHops
      BY <2>2
    <3>3. longer \in Through
      BY <1>1, <1>2, <1>7, <2>1, <2>3, <3>2 DEF Via
    <3>4. ASSUME NEW p \in Through PROVE p = longer
      <4>1. PICK m \in Nat : m = Len(p) /\ n < m /\ p[n + 1] = p[m]
        BY <1>6, <2>3
      <4>2. m = n + 1
        <5>1. n + 1 \in 1..m /\ m \in 1..m
          BY <4>1
        <5>2. QED BY <1>6, <4>1, <5>1 DEF IsPath
      <4>3. \A i \in 1..(n + 1) : p[i] = longer[i]
        <5>1. \A i \in 1..(n + 1) : i \in 1..n \/ i = n + 1
          OBVIOUS
        <5>2. QED BY <1>6, <2>1, <5>1
      <4>4. p \in Seq(Tokens)
        BY <1>6
      <4> HIDE DEF Through
      <4>5. QED BY <1>7, <4>1, <4>2, <4>3, <4>4, SeqEqual
    <3>5. Through = {longer}
      BY <3>3, <3>4
    <3> HIDE DEF Through
    <3>6. Adds(s.found, Append(s.found, longer), Through)
      BY <1>5, <3>5, AddsOne
    <3>7. QED BY <3>1, <3>6 DEF Through
  <2>4. CASE t # end /\ Len(s.found) >= MaxRoutes
    <3>1. Entered(f, g, end, maxHops, s) = s.found
      BY <1>1, <1>2, <1>4, <1>10, <2>4, Zenon DEF Entered
    <3> HIDE DEF Through
    <3>2. Adds(s.found, s.found, Through)
      BY <1>5, <2>4, AddsNothing
    <3>3. QED BY <3>1, <3>2 DEF Through
  <2>5. CASE t # end /\ ~(Len(s.found) >= MaxRoutes)
    <3>1. Entered(f, g, end, maxHops, s) = f[Enters(g, s)]
      BY <1>1, <1>2, <1>4, <1>10, <2>5, Zenon DEF Entered, Enters
    <3>2. PICK z \in Search : z = Enters(g, s)
      BY SearchPlaces DEF IsPlace
    <3>3. z.path = longer /\ z.left = Neighbors(g, t)
      BY <1>2, <1>4, <3>2 DEF Enters, At
    <3>4. IsPlace(g, z)
      <4>1. z.path[Len(z.path)] = t /\ IsPath(g, z.path)
        BY <1>7, <2>1, <3>3
      <4>2. /\ \A i, j \in 1..Len(z.left) : z.left[i] = z.left[j] => i = j
            /\ \A i \in 1..Len(z.left) : Linked(g, t, z.left[i])
        BY <3>3, NeighborsListed
      <4>3. QED BY <4>1, <4>2 DEF IsPlace
    <3>5. ASSUME NEW p \in Through PROVE p \in Beyond(g, end, maxHops, z)
      <4>1. PICK m \in Nat : m = Len(p) /\ n < m /\ m <= maxHops /\ p \in Seq(Tokens)
        BY <1>6
      <4>2. m # n + 1
        BY <1>6, <2>5, <4>1
      <4>3. n + 1 \in 1..(m - 1) /\ n + 1 < m
        BY <4>1, <4>2
      <4>4. Linked(g, t, p[n + 2])
        <5>1. Linked(g, p[n + 1], p[(n + 1) + 1])
          BY <1>6, <4>1, <4>3 DEF IsPath
        <5>2. (n + 1) + 1 = n + 2
          OBVIOUS
        <5>3. QED BY <1>6, <5>1, <5>2
      <4>5. PICK i \in 1..Len(z.left) : z.left[i] = p[n + 2]
        <5>1. PICK list, o : list = Neighbors(g, t) /\ o = p[n + 2]
          OBVIOUS
        <5>2. \E i \in 1..Len(list) : list[i] = o
          BY <4>4, <5>1, NeighborFound, SMTT(30)
        <5>3. QED BY <3>3, <5>1, <5>2
      <4>6. \A k \in 1..(n + 1) : p[k] = longer[k]
        <5>1. \A k \in 1..(n + 1) : k \in 1..n \/ k = n + 1
          OBVIOUS
        <5>2. QED BY <1>6, <2>1, <5>1
      <4>7. Len(z.path) + 1 = n + 2 /\ Len(z.path) < m
        <5>1. Len(z.path) = n + 1
          BY <1>7, <3>3
        <5>2. (n + 1) + 1 = n + 2
          OBVIOUS
        <5>3. QED BY <4>3, <5>1, <5>2
      <4>8. p \in Via(g, end, maxHops, z.path, z.left[i])
        BY <1>6, <1>7, <3>3, <4>1, <4>5, <4>6, <4>7 DEF Via
      <4>9. QED BY <4>1, <4>8 DEF Beyond
    <3>6. ASSUME NEW p \in Beyond(g, end, maxHops, z) PROVE p \in Through
      <4>1. PICK i \in 1..Len(z.left) : p \in Via(g, end, maxHops, z.path, z.left[i])
        BY DEF Beyond
      <4>2. /\ p \in Seq(Tokens) /\ IsPath(g, p) /\ n + 1 < Len(p) /\ Len(p) <= maxHops
            /\ \A k \in 1..(n + 1) : p[k] = longer[k]
            /\ p[Len(p)] = end
        BY <1>7, <3>3, <4>1 DEF Via
      <4>3. n < Len(p) /\ p[n + 1] = t /\ \A k \in 1..n : p[k] = path[k]
        <5>1. n + 1 \in 1..(n + 1) /\ \A k \in 1..n : k \in 1..(n + 1)
          OBVIOUS
        <5>2. Len(p) \in Nat
          BY <4>2
        <5>3. QED BY <2>1, <4>2, <5>1, <5>2
      <4>4. QED BY <1>1, <1>2, <4>2, <4>3 DEF Via
    <3>7. Through = Beyond(g, end, maxHops, z)
      <4> HIDE DEF Through
      <4>1. QED BY <3>5, <3>6
    <3> HIDE DEF Through
    <3>8. Adds(s.found, f[z], Through)
      BY <1>4, <1>10, <3>2, <3>4, <3>7
    <3>9. QED BY <3>1, <3>2, <3>8 DEF Through
  <2>6. QED BY <2>3, <2>4, <2>5
<1>11. QED BY <1>9, <1>10

LEMMA SearchTyped ==
    ASSUME NEW g, IsGraph(g), NEW end, NEW maxHops \in Nat, NEW f, IsSearch(f, g, end, maxHops)
    PROVE  f \in [Search -> Seq(Seq(Tokens))]
<1> DEFINE V == Seq(Seq(Tokens))
           T == {s \in Search : f[s] \in V}
<1>1. PICK rank \in [Search -> Nat] : rank = SearchRank(maxHops)
  BY SearchRankType
<1>2. \A s \in Search : f[s] = Searched(f, g, end, maxHops, s)
  BY DEF IsSearch
<1>3. ASSUME NEW s \in Search, \A z \in Search : rank[z] < rank[s] => z \in T
      PROVE  s \in T
  <2>1. CASE s.left = <<>>
    BY <1>2, <2>1 DEF Searched, Search
  <2>2. CASE s.left # <<>>
    <3>1. PICK found \in V : found = Entered(f, g, end, maxHops, s)
      <4>1. ~HopsSpent(Append(s.path, Head(s.left)), maxHops) => f[Enters(g, s)] \in V
        BY <1>1, <1>3, <2>2, SearchPlaces, SearchDescends
      <4>2. QED BY <2>2, <4>1, EnteredType
    <3>2. f[At(s.path, Tail(s.left), found)] \in V
      BY <1>1, <1>3, <2>2, SearchPlaces, SearchDescends
    <3>3. QED BY <1>2, <2>2, <3>1, <3>2 DEF Searched
  <2>3. QED BY <2>1, <2>2
<1>4. Search \subseteq T
  <2> HIDE DEF T
  <2>1. QED BY <1>3, RankInduction
<1>5. f = [s \in Search |-> f[s]]
  <2>1. f = [s \in Search |-> Searched(f, g, end, maxHops, s)]
    BY DEF IsSearch
  <2>2. QED BY <1>2, <2>1
<1>6. QED BY <1>4, <1>5

\* From every place the search adds the paths before it to those it had.
LEMMA SearchAdds ==
    ASSUME NEW g, IsGraph(g), NEW end, NEW maxHops \in Nat, NEW f, IsSearch(f, g, end, maxHops),
           NEW start, IsPlace(g, start)
    PROVE  Adds(start.found, f[start], Beyond(g, end, maxHops, start))
<1> DEFINE T == {s \in Search : IsPlace(g, s) => Adds(s.found, f[s], Beyond(g, end, maxHops, s))}
<1>1. PICK rank \in [Search -> Nat] : rank = SearchRank(maxHops)
  BY SearchRankType
<1>2. \A s \in Search : f[s] = Searched(f, g, end, maxHops, s)
  BY DEF IsSearch
<1>3. f \in [Search -> Seq(Seq(Tokens))]
  BY SearchTyped
<1>4. ASSUME NEW s \in Search, \A z \in Search : rank[z] < rank[s] => z \in T, IsPlace(g, s)
      PROVE  Adds(s.found, f[s], Beyond(g, end, maxHops, s))
  <2>1. CASE s.left = <<>>
    <3>1. Beyond(g, end, maxHops, s) = {}
      BY <2>1 DEF Beyond
    <3>2. s.found \in Seq(Seq(Tokens)) /\ f[s] = s.found
      BY <1>2, <2>1 DEF Searched, Search
    <3>3. QED BY <3>1, <3>2, AddsNothing
  <2>2. CASE s.left # <<>>
    <3>1. PICK entered \in Seq(Seq(Tokens)) : entered = Entered(f, g, end, maxHops, s)
      BY <1>3, <2>2, EnteredType, SearchPlaces
    <3>2. Adds(s.found, entered, Via(g, end, maxHops, s.path, Head(s.left)))
      <4>1. ~HopsSpent(Append(s.path, Head(s.left)), maxHops) /\ IsPlace(g, Enters(g, s)) =>
               Adds(Enters(g, s).found, f[Enters(g, s)], Beyond(g, end, maxHops, Enters(g, s)))
        BY <1>1, <1>4, <2>2, SearchPlaces, SearchDescends
      <4>2. Enters(g, s).found = s.found
        BY DEF Enters, At
      <4>3. QED BY <1>3, <1>4, <2>2, <3>1, <4>1, <4>2, EnteredAdds
    <3>3. PICK z \in Search : z = At(s.path, Tail(s.left), entered)
      BY <2>2, SearchPlaces
    <3>4. Adds(entered, f[z], Beyond(g, end, maxHops, z))
      <4>1. IsPlace(g, z)
        BY <1>4, <2>2, <3>3, BeyondSplits
      <4>2. rank[z] < rank[s]
        BY <1>1, <2>2, <3>3, SearchDescends
      <4>3. Adds(z.found, f[z], Beyond(g, end, maxHops, z))
        BY <1>4, <4>1, <4>2
      <4>4. z.found = entered
        BY <3>3 DEF At
      <4>5. QED BY <4>3, <4>4
    <3>5. f[s] = f[z]
      BY <1>2, <2>2, <3>1, <3>3, Zenon DEF Searched
    <3>6. /\ Beyond(g, end, maxHops, s) = Via(g, end, maxHops, s.path, Head(s.left))
                                              \cup Beyond(g, end, maxHops, z)
          /\ Via(g, end, maxHops, s.path, Head(s.left)) \cap Beyond(g, end, maxHops, z) = {}
      <4>1. IsPlace(g, s) /\ s.left # <<>>
        BY <1>4, <2>2
      <4>2. entered \in Seq(Seq(Tokens))
        BY <3>1
      <4>3. /\ Beyond(g, end, maxHops, s) =
                   Via(g, end, maxHops, s.path, Head(s.left))
                     \cup Beyond(g, end, maxHops, At(s.path, Tail(s.left), entered))
            /\ Via(g, end, maxHops, s.path, Head(s.left))
                  \cap Beyond(g, end, maxHops, At(s.path, Tail(s.left), entered)) = {}
        BY ONLY <4>1, <4>2, BeyondSplits, ZenonT(60)
      <4>4. QED BY <3>3, <4>3
    <3>7. Adds(s.found, f[z], Via(g, end, maxHops, s.path, Head(s.left))
                                  \cup Beyond(g, end, maxHops, z))
      BY <3>2, <3>4, <3>6, AddsBoth
    <3>8. QED BY <3>5, <3>6, <3>7, Zenon
  <2>3. QED BY <2>1, <2>2
<1>5. Search \subseteq T
  <2>1. \A s \in Search : (\A z \in Search : rank[z] < rank[s] => z \in T) => s \in T
    BY <1>4
  <2> HIDE DEF T
  <2>2. QED BY <2>1, RankInduction
<1>6. QED BY <1>5 DEF IsPlace

\* The paths from start to end of fewer than maxHops hops.
PathsBetween(g, start, end, maxHops) ==
    {p \in Seq(Tokens) : /\ IsPath(g, p) /\ 1 < Len(p) /\ Len(p) <= maxHops
                         /\ p[1] = start /\ p[Len(p)] = end}

LEMMA PathsFound ==
    ASSUME NEW g, IsGraph(g), NEW end, NEW start \in Tokens, NEW maxHops \in Nat
    PROVE  Adds(<<>>, PathsFrom(g, end, start, maxHops), PathsBetween(g, start, end, maxHops))
<1> DEFINE f == CHOOSE h : IsSearch(h, g, end, maxHops)
<1>1. IsSearch(f, g, end, maxHops)
  BY SearchExists
<1>2. <<start>> \in Seq(Tokens) /\ Len(<<start>>) = 1 /\ <<start>>[1] = start /\ <<start>> # <<>>
  OBVIOUS
<1>3. IsPath(g, <<start>>)
  <2>1. 1..(1 - 1) = {}
    OBVIOUS
  <2>2. QED BY <1>2, <2>1 DEF IsPath
<1>4. PICK z \in Search : z = At(<<start>>, Neighbors(g, start), <<>>)
  <2>1. Neighbors(g, start) \in Seq(Tokens) /\ <<>> \in Seq(Seq(Tokens))
    BY NeighborsListed
  <2>2. At(<<start>>, Neighbors(g, start), <<>>) \in Search
    BY <1>2, <2>1 DEF Search, At
  <2>3. QED BY <2>2, Zenon
<1>5. z.path = <<start>> /\ z.left = Neighbors(g, start) /\ z.found = <<>>
  BY <1>4 DEF At
<1>6. IsPlace(g, z)
  BY <1>2, <1>3, <1>5, NeighborsListed DEF IsPlace
<1>7. PathsFrom(g, end, start, maxHops) = f[z]
  BY <1>4, SearchDefinition
<1>8. Adds(<<>>, f[z], Beyond(g, end, maxHops, z))
  <2> HIDE DEF f
  <2>1. QED BY <1>1, <1>5, <1>6, SearchAdds
<1>9. ASSUME NEW p \in Seq(Tokens)
      PROVE  p \in Beyond(g, end, maxHops, z) <=> p \in PathsBetween(g, start, end, maxHops)
  <2>1. \A i \in 1..Len(z.left) :
           p \in Via(g, end, maxHops, z.path, z.left[i]) <=>
             /\ IsPath(g, p) /\ 1 < Len(p) /\ Len(p) <= maxHops
             /\ p[1] = start /\ p[2] = z.left[i] /\ p[Len(p)] = end
    <3>1. 1..1 = {1} /\ 1 + 1 = 2
      OBVIOUS
    <3>2. QED BY <1>2, <1>5, <3>1 DEF Via
  <2>2. ASSUME IsPath(g, p), 1 < Len(p), p[1] = start
        PROVE  \E i \in 1..Len(z.left) : z.left[i] = p[2]
    <3>1. 1 \in 1..(Len(p) - 1) /\ 1 + 1 = 2
      BY <2>2
    <3>2. Linked(g, start, p[2])
      BY <2>2, <3>1 DEF IsPath
    <3>3. QED BY <1>5, <3>2, NeighborsListed
  <2>3. QED BY <2>1, <2>2 DEF Beyond, PathsBetween
<1>10. Beyond(g, end, maxHops, z) = PathsBetween(g, start, end, maxHops)
  BY <1>9 DEF Beyond, PathsBetween
<1>11. QED BY <1>7, <1>8, <1>10

LEMMA ShortestFirstKeeps ==
    ASSUME NEW found, NEW B, Adds(<<>>, found, B)
    PROVE  /\ ShortestFirst(found) \in Seq(Seq(Tokens))
           /\ Len(ShortestFirst(found)) = FewerOf(Len(found), MaxRoutes)
           /\ DOMAIN ShortestFirst(found) = 1..Len(ShortestFirst(found))
           /\ \A i \in 1..Len(ShortestFirst(found)) : ShortestFirst(found)[i] \in B
           /\ \A i, j \in 1..Len(ShortestFirst(found)) :
                 ShortestFirst(found)[i] = ShortestFirst(found)[j] => i = j
<1>1. PICK n \in Nat, k \in Nat : n = Len(found) /\ k = FewerOf(n, MaxRoutes) /\ k <= n
  <2>1. Len(found) \in Nat
    BY DEF Adds
  <2>2. FewerOf(Len(found), MaxRoutes) \in Nat /\ FewerOf(Len(found), MaxRoutes) <= Len(found)
    BY <2>1, RoutingAssumption DEF FewerOf
  <2>3. QED BY <2>1, <2>2
<1>2. found \in Seq(Seq(Tokens)) /\ DOMAIN found = 1..n /\ \A i \in 1..n : found[i] \in Seq(Tokens)
  BY <1>1 DEF Adds
<1>3. (\A i \in 1..n : found[i] \in B) /\ \A i, j \in 1..n : found[i] = found[j] => i = j
  <2>1. Len(<<>>) = 0 /\ 0 + 1 = 1
    OBVIOUS
  <2>2. QED BY <1>1, <2>1 DEF Adds
<1>4. PICK key \in [1..n -> Int] : key = [i \in DOMAIN found |-> Len(found[i])]
  <2>1. [i \in DOMAIN found |-> Len(found[i])] \in [1..n -> Int]
    BY <1>2
  <2>2. QED BY <2>1, Zenon
<1>5. PICK order : order = InOrder(1..n, key)
  OBVIOUS
<1>6. /\ order \in [1..n -> 1..n]
      /\ \A i, j \in 1..n : order[i] = order[j] => i = j
  <2>1. IsFiniteSet(1..n) /\ Cardinality(1..n) = n
    <3>1. PICK one \in Int : one = 1
      OBVIOUS
    <3>2. IsFiniteSet(one..n) /\ Cardinality(one..n) = IF one > n THEN 0 ELSE n - one + 1
      BY FS_Interval
    <3>3. QED BY <3>1, <3>2
  <2>2. 1..n \in SUBSET Int
    OBVIOUS
  <2>3. QED BY <1>5, <2>1, <2>2, OrderEnumerates
<1>7. PICK F : F = ShortestFirst(found)
  OBVIOUS
<1>8. F = [i \in 1..k |-> found[order[i]]]
  BY <1>1, <1>2, <1>4, <1>5, <1>7, Zenon DEF ShortestFirst
<1>9. \A i \in 1..k : i \in 1..n /\ order[i] \in 1..n /\ F[i] = found[order[i]]
  BY <1>1, <1>6, <1>8
<1>10. F \in [1..k -> Seq(Tokens)]
  BY <1>2, <1>8, <1>9
<1>11. F \in Seq(Seq(Tokens)) /\ Len(F) = k /\ DOMAIN F = 1..k
  BY <1>10
<1>12. \A i \in 1..k : F[i] \in B
  BY <1>3, <1>9
<1>13. ASSUME NEW i \in 1..k, NEW j \in 1..k, F[i] = F[j] PROVE i = j
  <2>1. found[order[i]] = found[order[j]] /\ order[i] \in 1..n /\ order[j] \in 1..n
    BY <1>9, <1>13
  <2>2. order[i] = order[j]
    BY <1>3, <2>1
  <2>3. QED BY <1>6, <1>9, <2>2
<1>14. QED BY <1>1, <1>7, <1>11, <1>12, <1>13

\* There are finitely many paths.
LEMMA PathsFinite ==
    ASSUME NEW g, NEW start, NEW end, NEW maxHops \in Nat
    PROVE  IsFiniteSet(PathsBetween(g, start, end, maxHops))
<1> DEFINE B == PathsBetween(g, start, end, maxHops)
           Hops == (1..maxHops) \X Tokens
           Steps(p) == {h \in Hops : h[1] <= Len(p) /\ p[h[1]] = h[2]}
<1>1. IsFiniteSet(Hops)
  <2>1. PICK one \in Int : one = 1
    OBVIOUS
  <2>2. IsFiniteSet(one..maxHops)
    BY FS_Interval
  <2>3. QED BY <2>1, <2>2, FS_Product, RoutingAssumption
<1>2. IsFiniteSet(SUBSET Hops)
  <2> HIDE DEF Hops
  <2>1. QED BY <1>1, FS_SUBSET
<1>3. ASSUME NEW p \in B, NEW p2 \in B, Steps(p) = Steps(p2) PROVE p = p2
  <2>1. PICK n \in Nat, n2 \in Nat : /\ n = Len(p) /\ n2 = Len(p2) /\ n <= maxHops /\ n2 <= maxHops
                                      /\ p \in Seq(Tokens) /\ p2 \in Seq(Tokens)
    BY DEF PathsBetween
  <2>2. ASSUME NEW i \in 1..maxHops, NEW t \in Tokens
        PROVE  /\ <<i, t>> \in Steps(p) <=> i <= n /\ p[i] = t
               /\ <<i, t>> \in Steps(p2) <=> i <= n2 /\ p2[i] = t
    BY <2>1
  <2>3. ASSUME NEW i \in 1..n PROVE i <= n2 /\ p2[i] = p[i]
    <3>1. p[i] \in Tokens /\ i \in 1..maxHops /\ i <= n
      BY <2>1
    <3>2. <<i, p[i]>> \in Steps(p)
      BY <2>2, <3>1
    <3> HIDE DEF Steps
    <3>3. QED BY <1>3, <2>2, <3>1, <3>2
  <2>4. ASSUME NEW i \in 1..n2 PROVE i <= n
    <3>1. p2[i] \in Tokens /\ i \in 1..maxHops /\ i <= n2
      BY <2>1
    <3>2. <<i, p2[i]>> \in Steps(p2)
      BY <2>2, <3>1
    <3> HIDE DEF Steps
    <3>3. QED BY <1>3, <2>2, <3>1, <3>2
  <2>5. n = n2
    <3>1. n <= n2
      <4>1. CASE n = 0
        BY <4>1
      <4>2. CASE n # 0
        BY <2>3, <4>2
      <4>3. QED BY <4>1, <4>2
    <3>2. n2 <= n
      <4>1. CASE n2 = 0
        BY <4>1
      <4>2. CASE n2 # 0
        BY <2>4, <4>2
      <4>3. QED BY <4>1, <4>2
    <3>3. QED BY <3>1, <3>2
  <2>6. QED BY <2>1, <2>3, <2>5, SeqEqual
<1>4. \A p \in B : Steps(p) \in SUBSET Hops
  OBVIOUS
<1> DEFINE J == [p \in B |-> Steps(p)]
<1>5. J \in Injection(B, SUBSET Hops)
  <2>1. J \in [B -> SUBSET Hops]
    <3> HIDE DEF B, Steps, Hops
    <3>1. QED BY <1>4
  <2>2. IsInjective(J)
    <3> HIDE DEF B, Steps, Hops
    <3>1. QED BY <1>3 DEF IsInjective
  <2>3. QED BY <2>1, <2>2 DEF Injection
<1>6. QED
  <2> HIDE DEF J, B, Hops
  <2>1. IsFiniteSet(B)
    BY <1>2, <1>5, FS_Injection
  <2>2. QED BY <2>1 DEF B

\* The search finds every path, or as many as it may.
LEMMA AllPathsFound ==
    ASSUME NEW g, IsGraph(g), NEW start, NEW end, NEW maxHops \in Nat
    PROVE  LET found == FindAllPaths(g, start, end, maxHops)
               B == PathsBetween(g, start, end, maxHops)
           IN  /\ found \in Seq(Seq(Tokens)) /\ DOMAIN found = 1..Len(found)
               /\ \A i \in 1..Len(found) : found[i] \in B
               /\ \A i, j \in 1..Len(found) : found[i] = found[j] => i = j
               /\ Len(found) = FewerOf(Cardinality(B), MaxRoutes)
<1> DEFINE B == PathsBetween(g, start, end, maxHops)
<1>1. CASE ~HasNode(g, start) \/ ~HasNode(g, end)
  <2>1. FindAllPaths(g, start, end, maxHops) = <<>>
    BY <1>1, Zenon DEF FindAllPaths
  <2>2. ASSUME NEW p \in B PROVE FALSE
    <3>1. PICK n \in Nat : /\ n = Len(p) /\ 1 < n /\ p[1] = start /\ p[n] = end
                           /\ \A i \in 1..(n - 1) : Linked(g, p[i], p[i + 1])
      BY DEF PathsBetween, IsPath
    <3>2. 1 \in 1..(n - 1) /\ n - 1 \in 1..(n - 1) /\ (n - 1) + 1 = n
      BY <3>1
    <3>3. HasNode(g, start)
      BY <3>1, <3>2 DEF HasNode, Linked
    <3>4. PICK e \in g : e.tokenOut = end
      BY <3>1, <3>2 DEF Linked
    <3>5. PICK e2 \in g : e2.tokenIn = e.tokenOut
      BY DEF IsGraph
    <3>6. HasNode(g, end)
      BY <3>4, <3>5 DEF HasNode
    <3>7. QED BY <1>1, <3>3, <3>6
  <2>3. B = {}
    BY <2>2
  <2>4. Cardinality(B) = 0
    <3> HIDE DEF B
    <3>1. QED BY <2>3, FS_EmptySet
  <2>5. FewerOf(Cardinality(B), MaxRoutes) = 0
    BY <2>4, RoutingAssumption DEF FewerOf
  <2>6. 1..0 = {} /\ Len(<<>>) = 0 /\ <<>> \in Seq(Seq(Tokens)) /\ DOMAIN <<>> = 1..0
    OBVIOUS
  <2>7. QED BY <2>1, <2>5, <2>6
<1>2. CASE HasNode(g, start) /\ HasNode(g, end)
  <2>1. start \in Tokens
    BY <1>2, GraphTokens DEF HasNode
  <2>2. PICK all : all = PathsFrom(g, end, start, maxHops)
    OBVIOUS
  <2>3. Adds(<<>>, all, B)
    BY <2>1, <2>2, PathsFound
  <2>4. PICK found : found = FindAllPaths(g, start, end, maxHops) /\ found = ShortestFirst(all)
    BY <1>2, <2>2, Zenon DEF FindAllPaths
  <2>5. PICK n \in Nat : n = Len(all)
    BY <2>3 DEF Adds
  <2>6. /\ found \in Seq(Seq(Tokens)) /\ Len(found) = FewerOf(n, MaxRoutes)
        /\ DOMAIN found = 1..Len(found)
        /\ \A i \in 1..Len(found) : found[i] \in B
        /\ \A i, j \in 1..Len(found) : found[i] = found[j] => i = j
    <3> HIDE DEF B
    <3>1. QED BY <2>3, <2>4, <2>5, ShortestFirstKeeps
  <2>7. /\ all \in Seq(Seq(Tokens)) /\ \A i \in 1..n : all[i] \in B
        /\ \A i, j \in 1..n : all[i] = all[j] => i = j
        /\ n >= MaxRoutes \/ \A p \in B : \E i \in 1..n : all[i] = p
    <3>1. Len(<<>>) = 0 /\ 0 + 1 = 1
      OBVIOUS
    <3> HIDE DEF B
    <3>2. QED BY <2>3, <2>5, <3>1 DEF Adds
  <2>8. IsFiniteSet(B) /\ Cardinality(B) \in Nat
    <3>1. IsFiniteSet(B)
      BY PathsFinite
    <3> HIDE DEF B
    <3>2. QED BY <3>1, FS_CardinalityType
  <2>9. DOMAIN all = 1..n /\ all \in [1..n -> B]
    <3>1. DOMAIN all = 1..n /\ all = [i \in 1..n |-> all[i]]
      BY <2>5, <2>7
    <3> HIDE DEF B
    <3>2. QED BY <2>7, <3>1
  <2>10. IsFiniteSet(1..n) /\ Cardinality(1..n) = n
    <3>1. PICK one \in Int : one = 1
      OBVIOUS
    <3>2. IsFiniteSet(one..n) /\ Cardinality(one..n) = IF one > n THEN 0 ELSE n - one + 1
      BY FS_Interval
    <3>3. QED BY <3>1, <3>2
  <2>11. all \in Injection(1..n, B)
    <3> HIDE DEF B
    <3>1. QED BY <2>7, <2>9 DEF Injection, IsInjective
  <2>12. n <= Cardinality(B)
    <3> HIDE DEF B
    <3>1. QED BY <2>8, <2>10, <2>11, FS_Injection
  <2>13. n >= MaxRoutes \/ n = Cardinality(B)
    <3>1. ASSUME ~(n >= MaxRoutes) PROVE all \in Surjection(1..n, B)
      <4> HIDE DEF B
      <4>1. QED BY <2>7, <2>9, <3>1 DEF Surjection
    <3> HIDE DEF B
    <3>2. QED BY <2>8, <2>10, <2>11, <3>1, FS_Injection
  <2>14. FewerOf(n, MaxRoutes) = FewerOf(Cardinality(B), MaxRoutes)
    <3> HIDE DEF B
    <3>1. QED BY <2>8, <2>12, <2>13, RoutingAssumption DEF FewerOf
  <2>15. QED
    <3> HIDE DEF B
    <3>1. /\ found \in Seq(Seq(Tokens)) /\ DOMAIN found = 1..Len(found)
          /\ \A i \in 1..Len(found) : found[i] \in B
          /\ \A i, j \in 1..Len(found) : found[i] = found[j] => i = j
          /\ Len(found) = FewerOf(Cardinality(B), MaxRoutes)
      BY <2>6, <2>14
    <3>2. QED BY <2>4, <3>1, Zenon DEF B
<1>3. QED BY <1>1, <1>2

LEMMA PathsAsSequences ==
    ASSUME NEW g, NEW start, NEW end, NEW maxHops \in Nat
    PROVE  {p \in SeqOf(Tokens, maxHops) :
                /\ Len(p) > 1
                /\ p[1] = start /\ Last(p) = end
                /\ IsInjective(p)
                /\ \A i \in 1..(Len(p) - 1) : Linked(g, p[i], p[i + 1])}
             = PathsBetween(g, start, end, maxHops)
<1>1. ASSUME NEW p PROVE p \in SeqOf(Tokens, maxHops) <=> p \in Seq(Tokens) /\ Len(p) <= maxHops
  <2>1. ASSUME p \in SeqOf(Tokens, maxHops) PROVE p \in Seq(Tokens) /\ Len(p) <= maxHops
    <3>1. PICK m \in 0..maxHops : p \in [1..m -> Tokens]
      BY <2>1 DEF SeqOf
    <3>2. m \in Nat
      OBVIOUS
    <3>3. p \in Seq(Tokens) /\ Len(p) = m
      BY <3>1, <3>2
    <3>4. QED BY <3>3
  <2>2. ASSUME p \in Seq(Tokens), Len(p) <= maxHops PROVE p \in SeqOf(Tokens, maxHops)
    <3>1. PICK m \in 0..maxHops : m = Len(p)
      BY <2>2
    <3>2. p \in [1..m -> Tokens]
      BY <2>2, <3>1
    <3>3. QED BY <3>2 DEF SeqOf
  <2>3. QED BY <2>1, <2>2
<1>2. ASSUME NEW p \in Seq(Tokens), Len(p) > 1
      PROVE  (IsInjective(p) /\ \A i \in 1..(Len(p) - 1) : Linked(g, p[i], p[i + 1])) <=> IsPath(g, p)
  <2>1. DOMAIN p = 1..Len(p) /\ p # <<>>
    BY <1>2
  <2>2. QED BY <2>1 DEF IsInjective, IsPath
<1>3. \A p : Last(p) = p[Len(p)]
  BY DEF Last
<1>4. \A p \in Seq(Tokens) : Len(p) > 1 <=> 1 < Len(p)
  OBVIOUS
<1>5. QED BY <1>1, <1>2, <1>3, <1>4 DEF PathsBetween

LEMMA GraphSearchComplete ==
    ASSUME NEW g, IsGraph(g), NEW start, NEW end, NEW maxHops \in Nat
    PROVE  LET found == FindAllPaths(g, start, end, maxHops)
               paths == {p \in SeqOf(Tokens, maxHops) :
                            /\ Len(p) > 1
                            /\ p[1] = start /\ Last(p) = end
                            /\ IsInjective(p)
                            /\ \A i \in 1..(Len(p) - 1) : Linked(g, p[i], p[i + 1])}
           IN  /\ Range(found) \subseteq paths
               /\ IsInjective(found)
               /\ Len(found) = FewerOf(Cardinality(paths), MaxRoutes)
<1>1. PICK found : found = FindAllPaths(g, start, end, maxHops)
  OBVIOUS
<1>2. PICK B : B = PathsBetween(g, start, end, maxHops)
  OBVIOUS
<1>3. /\ DOMAIN found = 1..Len(found)
      /\ \A i \in 1..Len(found) : found[i] \in B
      /\ \A i, j \in 1..Len(found) : found[i] = found[j] => i = j
      /\ Len(found) = FewerOf(Cardinality(B), MaxRoutes)
  BY <1>1, <1>2, AllPathsFound
<1>4. Range(found) \subseteq B /\ IsInjective(found)
  BY <1>3 DEF Range, IsInjective
<1>5. QED BY <1>1, <1>2, <1>3, <1>4, PathsAsSequences, ZenonT(40)

-----------------------------------------------------------------------------
(* The simulation of a path. *)

\* A pool is of the two tokens of a hop.
Joins(p, from, to) ==
    \/ Listing[p].token0 = from /\ Listing[p].token1 = to
    \/ Listing[p].token0 = to /\ Listing[p].token1 = from

\* The best pool of a pair is one of the pair.
LEMMA BestEdgeFound ==
    ASSUME NEW g, IsGraph(g), NEW from, NEW to, Linked(g, from, to)
    PROVE  LET e == FindBestEdge(g, from, to)
           IN  /\ e \in g /\ e.poolId \in Pools /\ Joins(e.poolId, from, to)
               /\ from \in Tokens /\ to \in Tokens
               /\ e.reserveIn \in Nat /\ e.reserveOut \in Nat /\ e.feeBps \in 0..FEE_DENOMINATOR
<1> DEFINE candidates == {e \in g : e.tokenIn = from /\ e.tokenOut = to}
           F == {T \in SUBSET candidates :
                    T # {} => \E e \in T : \A f \in T : f.tvlUsd <= e.tvlUsd}
<1>1. IsFiniteSet(candidates)
  BY FS_Subset DEF IsGraph
<1>2. \A e \in candidates : e.tvlUsd \in Int
  BY DEF IsGraph
<1>3. ASSUME NEW T \in SUBSET candidates, \A e \in T : T \ {e} \in F PROVE T \in F
  <2> SUFFICES ASSUME T # {} PROVE \E e \in T : \A f \in T : f.tvlUsd <= e.tvlUsd
    OBVIOUS
  <2>1. PICK e \in T : TRUE
    OBVIOUS
  <2>2. CASE T \ {e} = {}
    <3>1. \A f \in T : f = e /\ e.tvlUsd \in Int
      BY <1>2, <2>2
    <3>2. \A f \in T : f.tvlUsd <= e.tvlUsd
      BY <3>1
    <3>3. QED BY <3>2
  <2>3. CASE T \ {e} # {}
    <3>1. PICK c \in T \ {e} : \A f \in T \ {e} : f.tvlUsd <= c.tvlUsd
      BY <1>3, <2>3
    <3>2. e.tvlUsd \in Int /\ c.tvlUsd \in Int /\ \A f \in T : f.tvlUsd \in Int
      BY <1>2
    <3>3. CASE e.tvlUsd <= c.tvlUsd
      BY <3>1, <3>3
    <3>4. CASE ~(e.tvlUsd <= c.tvlUsd)
      <4>1. \A f \in T : f.tvlUsd <= e.tvlUsd
        BY <3>1, <3>2, <3>4
      <4>2. QED BY <4>1
    <3>5. QED BY <3>3, <3>4
  <2>4. QED BY <2>2, <2>3
<1>4. candidates \in F
  <2>1. \A T \in SUBSET candidates : (\A e \in T : T \ {e} \in F) => T \in F
    BY <1>3
  <2> HIDE DEF F, candidates
  <2>2. SUBSET candidates \subseteq F
    BY <1>1, <2>1, InductiveFamily
  <2>3. QED BY <2>2
<1>5. PICK best : best = FindBestEdge(g, from, to)
  OBVIOUS
<1>6. best \in candidates
  <2>1. candidates # {}
    BY DEF Linked
  <2>2. \E e \in candidates : \A f \in candidates : f.tvlUsd <= e.tvlUsd
    BY <1>4, <2>1
  <2>3. best = CHOOSE e \in candidates : \A f \in candidates : f.tvlUsd <= e.tvlUsd
    BY <1>5, Zenon DEF FindBestEdge
  <2> HIDE DEF candidates
  <2>4. QED BY <2>2, <2>3
<1>7. best \in g /\ best.poolId \in Pools /\ Joins(best.poolId, from, to)
  BY <1>6 DEF IsGraph, Joins
<1>8. from \in Tokens /\ to \in Tokens
  BY <1>6, GraphTokens
<1>9. best.reserveIn \in Nat /\ best.reserveOut \in Nat /\ best.feeBps \in 0..FEE_DENOMINATOR
  BY <1>6 DEF IsGraph
<1>10. QED BY <1>5, <1>7, <1>8, <1>9, Zenon

\* What the hop after place i of a path pays.
HopPaid(g, path, i, amount) ==
    GetAmountOut(amount, FindBestEdge(g, path[i], path[i + 1]).reserveIn,
                 FindBestEdge(g, path[i], path[i + 1]).reserveOut,
                 FindBestEdge(g, path[i], path[i + 1]).feeBps)

IsAmounts(f, g, path, amountIn, n) ==
    f = [i \in 1..n |-> IF i = 1 THEN amountIn ELSE HopPaid(g, path, i - 1, f[i - 1])]

LEMMA AmountsExist ==
    ASSUME NEW g, NEW path, NEW amountIn, NEW n \in Nat
    PROVE  \E f : IsAmounts(f, g, path, amountIn, n)
<1> DEFINE N == {m \in Nat : \E f : IsAmounts(f, g, path, amountIn, m)}
           Val(f, i) == IF i = 1 THEN amountIn ELSE HopPaid(g, path, i - 1, f[i - 1])
<1>0. \A f, m : IsAmounts(f, g, path, amountIn, m) <=> f = [i \in 1..m |-> Val(f, i)]
  BY DEF IsAmounts
<1>1. 0 \in N
  <2> DEFINE none == [i \in 1..0 |-> amountIn]
  <2>1. 1..0 = {}
    OBVIOUS
  <2>2. none = [i \in 1..0 |-> Val(none, i)]
    <3> HIDE DEF Val
    <3>1. QED BY <2>1
  <2> HIDE DEF none, Val
  <2>3. IsAmounts(none, g, path, amountIn, 0)
    BY <1>0, <2>2
  <2>4. QED BY <2>3
<1>2. ASSUME NEW m \in Nat, m \in N PROVE m + 1 \in N
  <2>1. PICK f : IsAmounts(f, g, path, amountIn, m)
    BY <1>2
  <2>2. f = [i \in 1..m |-> Val(f, i)]
    BY <1>0, <2>1
  <2> DEFINE h == [i \in 1..(m + 1) |-> IF i = m + 1 THEN Val(f, m + 1) ELSE f[i]]
  <2>3. ASSUME NEW i \in 1..(m + 1) PROVE h[i] = Val(h, i)
    <3>1. CASE i = 1
      <4>1. Val(h, i) = amountIn /\ Val(f, i) = amountIn
        BY <3>1
      <4>2. CASE i = m + 1
        BY <4>1, <4>2
      <4>3. CASE i # m + 1
        <5>1. i \in 1..m
          BY <4>3
        <5>2. f[i] = Val(f, i)
          <6> HIDE DEF Val
          <6>1. QED BY <2>2, <5>1
        <5>3. QED BY <4>1, <4>3, <5>2
      <4>4. QED BY <4>2, <4>3
    <3>2. CASE i # 1
      <4>1. i - 1 \in 1..m /\ i - 1 # m + 1 /\ i - 1 \in 1..(m + 1)
        BY <3>2
      <4>2. h[i - 1] = f[i - 1]
        BY <4>1
      <4>3. Val(h, i) = Val(f, i)
        <5> HIDE DEF h
        <5>1. QED BY <4>2
      <4>4. CASE i = m + 1
        <5> HIDE DEF Val
        <5>1. h[i] = Val(f, i)
          BY <4>4
        <5>2. QED BY <4>3, <5>1
      <4>5. CASE i # m + 1
        <5>1. i \in 1..m
          BY <4>5
        <5>2. f[i] = Val(f, i)
          <6> HIDE DEF Val
          <6>1. QED BY <2>2, <5>1
        <5>3. h[i] = f[i]
          BY <4>5
        <5> HIDE DEF Val, h
        <5>4. QED BY <4>3, <5>2, <5>3
      <4>6. QED BY <4>4, <4>5
    <3>3. QED BY <3>1, <3>2
  <2>4. h = [i \in 1..(m + 1) |-> h[i]]
    OBVIOUS
  <2> HIDE DEF h, Val
  <2>5. h = [i \in 1..(m + 1) |-> Val(h, i)]
    BY <2>3, <2>4
  <2>6. IsAmounts(h, g, path, amountIn, m + 1)
    BY <1>0, <2>5
  <2>7. QED BY <2>6
<1>3. Nat \subseteq N
  <2>1. \A m \in Nat : m \in N => m + 1 \in N
    BY <1>2
  <2> HIDE DEF N
  <2>2. QED BY <1>1, <2>1, InductiveSet
<1>4. QED BY <1>3

\* The route along a path, when the amounts before and after its hops are those.
RouteOf(g, path, amounts) ==
    IF \A i \in 1..(Len(path) - 1) :
          Linked(g, path[i], path[i + 1]) /\ HopPays(amounts[i], FindBestEdge(g, path[i], path[i + 1]))
    THEN [ok |-> TRUE, amountOut |-> amounts[Len(path)],
          steps |-> [i \in 1..(Len(path) - 1) |->
              [poolId |-> FindBestEdge(g, path[i], path[i + 1]).poolId,
               tokenIn |-> path[i], tokenOut |-> path[i + 1],
               amountIn |-> amounts[i], amountOut |-> amounts[i + 1]]]]
    ELSE NoRoute

LEMMA SimulationDefinition ==
    ASSUME NEW g, NEW path, NEW amountIn
    PROVE  SimulatePath(g, path, amountIn)
             = RouteOf(g, path, CHOOSE f : IsAmounts(f, g, path, amountIn, Len(path)))
BY Zenon DEF SimulatePath, RouteOf, IsAmounts, HopPaid

Hop == [poolId : Pools, tokenIn : Tokens, tokenOut : Tokens, amountIn : Int, amountOut : Int]

\* The hops of a route follow the path, each through a pool of its two tokens
\* and with what the hop before pays.
IsRoute(route, path, amountIn) ==
    /\ route.ok = TRUE
    /\ route.steps \in Seq(Hop) /\ Len(route.steps) = Len(path) - 1
    /\ \A i \in 1..(Len(path) - 1) :
          /\ route.steps[i].tokenIn = path[i] /\ route.steps[i].tokenOut = path[i + 1]
          /\ Joins(route.steps[i].poolId, path[i], path[i + 1])
    /\ \A i \in 2..(Len(path) - 1) : route.steps[i].amountIn = route.steps[i - 1].amountOut
    /\ route.steps[1].amountIn = amountIn
    /\ route.steps[Len(path) - 1].amountOut = route.amountOut

LEMMA HopPaysInteger ==
    ASSUME NEW g, IsGraph(g), NEW from, NEW to, Linked(g, from, to), NEW amount \in Int,
           HopPays(amount, FindBestEdge(g, from, to))
    PROVE  GetAmountOut(amount, FindBestEdge(g, from, to).reserveIn,
                        FindBestEdge(g, from, to).reserveOut,
                        FindBestEdge(g, from, to).feeBps) \in Int
<1>1. PICK e : e = FindBestEdge(g, from, to) /\ e.reserveIn \in Nat /\ e.reserveOut \in Nat
                /\ e.feeBps \in 0..FEE_DENOMINATOR
  BY BestEdgeFound
<1>2. PICK rin \in Nat, rout \in Nat, fee \in 0..FEE_DENOMINATOR :
         rin = e.reserveIn /\ rout = e.reserveOut /\ fee = e.feeBps
  BY <1>1
<1>3. amount > 0 /\ rin > 0 /\ rout > 0 /\ amount \in Nat
  BY <1>1, <1>2 DEF HopPays, GetAmountOutOk
<1>4. FEE_DENOMINATOR \in Nat \ {0} /\ FEE_DENOMINATOR - fee \in Nat
  BY OffchainAssumption
<1>5. PICK paid \in Nat : paid = amount * (FEE_DENOMINATOR - fee)
  <2>1. amount * (FEE_DENOMINATOR - fee) \in Nat
    BY <1>3, <1>4
  <2>2. QED BY <2>1
<1>6. PICK base \in Nat \ {0} : base = rin * FEE_DENOMINATOR
  <2>1. rin * FEE_DENOMINATOR \in Nat \ {0}
    BY <1>3, <1>4, ProductPositive
  <2>2. QED BY <2>1
<1>7. paid * rout \in Int /\ base + paid \in Nat \ {0}
  BY <1>5, <1>6
<1>8. (paid * rout) \div (base + paid) \in Int
  <2>1. PICK a \in Int, b \in Nat \ {0} : a = paid * rout /\ b = base + paid
    BY <1>7
  <2>2. a \div b \in Int
    OBVIOUS
  <2>3. QED BY <2>1, <2>2
<1>9. GetAmountOut(amount, rin, rout, fee) = (paid * rout) \div (base + paid)
  BY <1>5, <1>6, Zenon DEF GetAmountOut
<1>10. QED BY <1>1, <1>2, <1>8, <1>9

LEMMA PathSimulated ==
    ASSUME NEW g, IsGraph(g), NEW path \in Seq(Tokens), 1 < Len(path), NEW amountIn \in Int
    PROVE  LET route == SimulatePath(g, path, amountIn)
           IN  route = NoRoute \/ IsRoute(route, path, amountIn)
<1>1. PICK n \in Nat : n = Len(path) /\ 1 < n
  OBVIOUS
<1>2. PICK amounts : /\ IsAmounts(amounts, g, path, amountIn, n)
                     /\ SimulatePath(g, path, amountIn) = RouteOf(g, path, amounts)
  <2> DEFINE A == CHOOSE f : IsAmounts(f, g, path, amountIn, n)
  <2>1. IsAmounts(A, g, path, amountIn, n)
    BY AmountsExist
  <2>2. SimulatePath(g, path, amountIn) = RouteOf(g, path, A)
    BY <1>1, SimulationDefinition
  <2> HIDE DEF A
  <2>3. QED BY <2>1, <2>2
<1>3. \A i \in 1..n : amounts[i] = IF i = 1 THEN amountIn ELSE HopPaid(g, path, i - 1, amounts[i - 1])
  BY <1>2 DEF IsAmounts
<1> DEFINE Edge(i) == FindBestEdge(g, path[i], path[i + 1])
           Paid == \A i \in 1..(n - 1) : Linked(g, path[i], path[i + 1]) /\ HopPays(amounts[i], Edge(i))
<1>4. CASE ~Paid
  <2>1. RouteOf(g, path, amounts) = NoRoute
    BY <1>1, <1>4, Zenon DEF RouteOf
  <2>2. QED BY <1>2, <2>1
<1>5. CASE Paid
  <2>0. \A i \in 1..(n - 1) : Linked(g, path[i], path[i + 1]) /\ HopPays(amounts[i], Edge(i))
    BY <1>5
  <2> HIDE DEF Paid
  <2> DEFINE N == {i \in Nat : i + 1 \in 1..n => amounts[i + 1] \in Int}
  <2>1. 0 \in N
    <3>1. 0 + 1 = 1 /\ 1 \in 1..n
      BY <1>1
    <3>2. QED BY <1>3, <3>1
  <2>2. ASSUME NEW i \in Nat, i \in N PROVE i + 1 \in N
    <3> SUFFICES ASSUME i + 2 \in 1..n PROVE amounts[i + 2] \in Int
      <4>1. (i + 1) + 1 = i + 2
        OBVIOUS
      <4>2. QED BY <4>1
    <3>1. i + 1 \in 1..(n - 1) /\ i + 1 \in 1..n /\ i + 2 # 1 /\ (i + 2) - 1 = i + 1
      BY <1>1
    <3>2. amounts[i + 1] \in Int
      BY <2>2, <3>1
    <3>3. amounts[i + 2] = HopPaid(g, path, i + 1, amounts[i + 1])
      BY <1>3, <3>1
    <3>4. HopPaid(g, path, i + 1, amounts[i + 1]) \in Int
      <4>1. PICK k \in 1..(n - 1), amount \in Int : k = i + 1 /\ amount = amounts[k]
        BY <3>1, <3>2
      <4>2. Linked(g, path[k], path[k + 1]) /\ HopPays(amount, FindBestEdge(g, path[k], path[k + 1]))
        BY <2>0, <4>1
      <4>3. HopPaid(g, path, k, amount) \in Int
        BY <4>2, HopPaysInteger DEF HopPaid
      <4>4. QED BY <4>1, <4>3
    <3>5. QED BY <3>3, <3>4
  <2>3. Nat \subseteq N
    <3>1. \A i \in Nat : i \in N => i + 1 \in N
      BY <2>2
    <3> HIDE DEF N
    <3>2. QED BY <2>1, <3>1, InductiveSet
  <2>4. \A i \in 1..n : amounts[i] \in Int
    <3> SUFFICES ASSUME NEW i \in 1..n PROVE amounts[i] \in Int
      OBVIOUS
    <3>1. i - 1 \in Nat /\ (i - 1) + 1 = i
      OBVIOUS
    <3>2. QED BY <2>3, <3>1
  <2> DEFINE steps == [i \in 1..(n - 1) |->
                        [poolId |-> Edge(i).poolId, tokenIn |-> path[i], tokenOut |-> path[i + 1],
                         amountIn |-> amounts[i], amountOut |-> amounts[i + 1]]]
  <2>5. RouteOf(g, path, amounts) = [ok |-> TRUE, amountOut |-> amounts[n], steps |-> steps]
    BY <1>1, <2>0, Zenon DEF RouteOf
  <2>6. ASSUME NEW i \in 1..(n - 1)
        PROVE  /\ Edge(i).poolId \in Pools /\ path[i] \in Tokens /\ path[i + 1] \in Tokens
               /\ amounts[i] \in Int /\ amounts[i + 1] \in Int
               /\ Joins(Edge(i).poolId, path[i], path[i + 1])
    <3>1. i \in 1..n /\ i + 1 \in 1..n
      BY <1>1
    <3>2. path[i] \in Tokens /\ path[i + 1] \in Tokens
      BY <1>1, <3>1
    <3>3. Linked(g, path[i], path[i + 1])
      BY <2>0
    <3>4. QED BY <2>4, <3>1, <3>2, <3>3, BestEdgeFound
  <2>7. steps \in [1..(n - 1) -> Hop]
    <3>1. \A i \in 1..(n - 1) :
             [poolId |-> Edge(i).poolId, tokenIn |-> path[i], tokenOut |-> path[i + 1],
              amountIn |-> amounts[i], amountOut |-> amounts[i + 1]] \in Hop
      <4> HIDE DEF Edge
      <4>1. QED BY <2>6 DEF Hop
    <3> HIDE DEF Edge
    <3>2. QED BY <3>1
  <2>8. /\ \A i \in 1..(n - 1) : /\ steps[i].tokenIn = path[i] /\ steps[i].tokenOut = path[i + 1]
                                 /\ steps[i].amountIn = amounts[i] /\ steps[i].amountOut = amounts[i + 1]
                                 /\ Joins(steps[i].poolId, path[i], path[i + 1])
    <3>1. \A i \in 1..(n - 1) : steps[i].poolId = Edge(i).poolId
      <4> HIDE DEF Edge
      <4>1. QED OBVIOUS
    <3> HIDE DEF Edge
    <3>2. QED BY <2>6
  <2> HIDE DEF steps, Edge
  <2>9. PICK m \in Nat \ {0} : m = n - 1
    BY <1>1
  <2>10. steps \in Seq(Hop) /\ Len(steps) = m
    BY <2>7, <2>9
  <2>11. \A i \in 2..m : steps[i].amountIn = steps[i - 1].amountOut
    <3> SUFFICES ASSUME NEW i \in 2..m PROVE steps[i].amountIn = steps[i - 1].amountOut
      OBVIOUS
    <3>1. i \in 1..m /\ i - 1 \in 1..m /\ (i - 1) + 1 = i
      OBVIOUS
    <3>2. QED BY <2>8, <2>9, <3>1
  <2>12. steps[1].amountIn = amountIn /\ steps[m].amountOut = amounts[n]
    <3>1. 1 \in 1..m /\ m \in 1..m /\ 1 \in 1..n /\ m + 1 = n
      BY <1>1, <2>9
    <3>2. QED BY <1>3, <2>8, <2>9, <3>1
  <2>13. PICK route : route = [ok |-> TRUE, amountOut |-> amounts[n], steps |-> steps]
    OBVIOUS
  <2>14. IsRoute(route, path, amountIn)
    BY <1>1, <2>8, <2>9, <2>10, <2>11, <2>12, <2>13 DEF IsRoute
  <2>15. QED BY <1>2, <2>5, <2>13, <2>14
<1>6. QED BY <1>4, <1>5

-----------------------------------------------------------------------------
(* What makes an answer executable. *)

\* A path from one token to another that meets no token twice.
IsTrail(path, from, to) ==
    /\ path \in Seq(Tokens) /\ 1 < Len(path)
    /\ \A i, j \in 1..Len(path) : path[i] = path[j] => i = j
    /\ path[1] = from /\ path[Len(path)] = to

LEMMA SamePair ==
    ASSUME NEW p, NEW a, NEW b, NEW c, NEW d, Joins(p, a, b), Joins(p, c, d)
    PROVE  (a = c /\ b = d) \/ (a = d /\ b = c)
BY DEF Joins

\* No two hops of one trail use the same pool.
LEMMA TrailPools ==
    ASSUME NEW path, NEW from, NEW to, IsTrail(path, from, to), NEW route, NEW amountIn,
           IsRoute(route, path, amountIn), NEW i \in 1..(Len(path) - 1), NEW j \in 1..(Len(path) - 1),
           route.steps[i].poolId = route.steps[j].poolId
    PROVE  i = j
<1>1. PICK n \in Nat : n = Len(path)
  BY DEF IsTrail
<1>2. /\ Joins(route.steps[i].poolId, path[i], path[i + 1])
      /\ Joins(route.steps[i].poolId, path[j], path[j + 1])
  BY DEF IsRoute
<1>3. i \in 1..n /\ i + 1 \in 1..n /\ j \in 1..n /\ j + 1 \in 1..n
  BY <1>1
<1>4. CASE path[i] = path[j]
  BY <1>1, <1>3, <1>4 DEF IsTrail
<1>5. CASE path[i] = path[j + 1] /\ path[i + 1] = path[j]
  <2>1. i = j + 1 /\ i + 1 = j
    BY <1>1, <1>3, <1>5 DEF IsTrail
  <2>2. QED BY <2>1
<1>6. QED BY <1>2, <1>4, <1>5, SamePair

LEMMA RouteLength ==
    ASSUME NEW path, NEW from, NEW to, IsTrail(path, from, to), NEW route, NEW amountIn,
           IsRoute(route, path, amountIn)
    PROVE  /\ route.steps \in Seq(Hop) /\ Len(route.steps) \in Nat \ {0}
           /\ Len(path) = Len(route.steps) + 1
<1>1. PICK k \in Nat : k = Len(path) /\ 1 < k
  BY DEF IsTrail
<1>2. route.steps \in Seq(Hop) /\ Len(route.steps) = k - 1
  BY <1>1, Zenon DEF IsRoute
<1>3. k - 1 \in Nat \ {0} /\ k = (k - 1) + 1
  BY <1>1
<1>4. QED BY <1>1, <1>2, <1>3, Zenon

\* One route alone can be carried out.
LEMMA RouteExecutable ==
    ASSUME NEW path, NEW ask, IsTrail(path, ask.tokenIn, ask.tokenOut), NEW route,
           IsRoute(route, path, ask.amountIn), NEW quote,
           quote.steps = route.steps, quote.amountOut = route.amountOut
    PROVE  Executable(quote, ask)
<1>1. PICK s \in Seq(Hop), n \in Nat \ {0} : s = route.steps /\ n = Len(s) /\ Len(path) = n + 1
  BY RouteLength, Zenon
<1>2. DOMAIN s = 1..n /\ (n + 1) - 1 = n /\ 1 \in 1..n /\ n \in 1..n
  BY <1>1
<1>3. /\ \A i \in 1..n : s[i].tokenIn = path[i] /\ s[i].tokenOut = path[i + 1]
      /\ \A i \in 2..n : s[i].amountIn = s[i - 1].amountOut
      /\ s[1].amountIn = ask.amountIn /\ s[n].amountOut = quote.amountOut
  <2>1. Len(path) - 1 = n
    BY <1>1, <1>2
  <2>2. /\ \A i \in 1..n : s[i].tokenIn = path[i] /\ s[i].tokenOut = path[i + 1]
        /\ s[1].amountIn = ask.amountIn /\ s[n].amountOut = route.amountOut
    BY <1>1, <2>1, Zenon DEF IsRoute
  <2>3. \A i \in 2..n : s[i].amountIn = s[i - 1].amountOut
    BY <1>1, <2>1, Zenon DEF IsRoute
  <2>4. QED BY <2>2, <2>3
<1>4. /\ \A i, j \in 1..(n + 1) : path[i] = path[j] => i = j
      /\ path[1] = ask.tokenIn /\ path[n + 1] = ask.tokenOut
  BY <1>1 DEF IsTrail
<1>5. \A i \in 1..n : s[i] \in Hop /\ s[i].amountIn \in Int /\ s[i].amountOut \in Int
  <2>1. \A i \in 1..n : s[i] \in Hop
    BY <1>1
  <2>2. QED BY <2>1 DEF Hop
<1>6. {i \in 1..n : s[i].tokenIn = ask.tokenIn} = {1}
  <2>1. \A i \in 1..n : i \in 1..(n + 1) /\ 1 \in 1..(n + 1)
    OBVIOUS
  <2>2. QED BY <1>2, <1>3, <1>4, <2>1
<1>7. {i \in 1..n : s[i].tokenOut = ask.tokenOut} = {n}
  <2>1. \A i \in 1..n : i + 1 \in 1..(n + 1) /\ (i + 1 = n + 1 => i = n)
    OBVIOUS
  <2>2. n + 1 \in 1..(n + 1)
    OBVIOUS
  <2>3. ASSUME NEW i \in 1..n, s[i].tokenOut = ask.tokenOut PROVE i = n
    <3>1. path[i + 1] = path[n + 1]
      BY <1>3, <1>4, <2>3
    <3>2. QED BY <1>4, <2>1, <2>2, <3>1
  <2>4. s[n].tokenOut = ask.tokenOut
    BY <1>2, <1>3, <1>4
  <2>5. QED BY <1>2, <2>3, <2>4
<1>8. \A i, j \in 1..n : i # j => s[i].poolId # s[j].poolId
  BY <1>1, <1>2, TrailPools
<1>9. \A i \in (1..n) \ {1} : s[i].amountIn = s[i - 1].amountOut /\ s[i].tokenIn = s[i - 1].tokenOut
  <2> SUFFICES ASSUME NEW i \in (1..n) \ {1}
               PROVE  s[i].amountIn = s[i - 1].amountOut /\ s[i].tokenIn = s[i - 1].tokenOut
    OBVIOUS
  <2>1. i \in 2..n /\ i \in 1..n /\ i - 1 \in 1..n /\ (i - 1) + 1 = i
    OBVIOUS
  <2>2. QED BY <1>3, <2>1
<1>10. SumFunctionOnSet([i \in 1..n |-> s[i].amountIn], {1}) = ask.amountIn
  <2>1. PICK f : f = [i \in 1..n |-> s[i].amountIn]
    OBVIOUS
  <2>2. f[1] = ask.amountIn /\ f[1] \in Int
    BY <1>2, <1>3, <1>5, <2>1
  <2>3. QED BY <2>1, <2>2, SumOfOne
<1>11. SumFunctionOnSet([i \in 1..n |-> s[i].amountOut], {n}) = quote.amountOut
  <2>1. PICK f : f = [i \in 1..n |-> s[i].amountOut]
    OBVIOUS
  <2>2. f[n] = quote.amountOut /\ f[n] \in Int
    BY <1>2, <1>3, <1>5, <2>1
  <2>3. QED BY <2>1, <2>2, SumOfOne
<1>12. Cardinality({1}) = 1 /\ Cardinality({n}) = 1
  BY FS_Singleton
<1>13. quote.steps = s
  BY <1>1
<1>14. QED BY <1>2, <1>6, <1>7, <1>8, <1>9, <1>10, <1>11, <1>12, <1>13, Zenon DEF Executable

\* Two trails of at most two hops between the same tokens share no pool: each
\* has at most one token between its ends, and those are not the same.
LEMMA TrailsApart ==
    ASSUME NEW path, NEW other, NEW from, NEW to,
           IsTrail(path, from, to), IsTrail(other, from, to), path # other,
           Len(path) <= 3, Len(other) <= 3,
           NEW i \in 1..(Len(path) - 1), NEW j \in 1..(Len(other) - 1), NEW p,
           Joins(p, path[i], path[i + 1]), Joins(p, other[j], other[j + 1])
    PROVE  FALSE
<1>1. PICK m \in {2, 3}, n \in {2, 3} : m = Len(path) /\ n = Len(other)
  <2>1. Len(path) \in Nat /\ 1 < Len(path) /\ Len(other) \in Nat /\ 1 < Len(other)
    BY DEF IsTrail
  <2>2. PICK k \in Nat, l \in Nat : k = Len(path) /\ l = Len(other) /\ 1 < k /\ 1 < l
    BY <2>1
  <2>3. k <= 3 /\ l <= 3
    BY <2>2, Zenon
  <2>4. \A i2 \in Nat : 1 < i2 /\ i2 <= 3 => i2 \in {2, 3}
    OBVIOUS
  <2>5. k \in {2, 3} /\ l \in {2, 3}
    BY <2>2, <2>3, <2>4
  <2>6. QED BY <2>2, <2>5
<1>2. /\ path \in Seq(Tokens) /\ other \in Seq(Tokens)
      /\ path[1] = from /\ path[m] = to /\ other[1] = from /\ other[n] = to
  BY <1>1 DEF IsTrail
<1>3. /\ \A a, b \in 1..m : path[a] = path[b] => a = b
      /\ \A a, b \in 1..n : other[a] = other[b] => a = b
  BY <1>1 DEF IsTrail
<1>4. /\ from # to
      /\ m = 3 => path[2] # from /\ path[2] # to
      /\ n = 3 => other[2] # from /\ other[2] # to
  <2>1. 1 \in 1..m /\ m \in 1..m /\ 1 # m /\ 1 \in 1..n /\ n \in 1..n
    BY <1>1
  <2>2. from # to
    BY <1>2, <1>3, <2>1
  <2>3. ASSUME m = 3 PROVE path[2] # from /\ path[2] # to
    <3>1. 2 \in 1..m /\ 2 # 1 /\ 2 # m
      BY <2>3
    <3>2. QED BY <1>2, <1>3, <2>1, <3>1
  <2>4. ASSUME n = 3 PROVE other[2] # from /\ other[2] # to
    <3>1. 2 \in 1..n /\ 2 # 1 /\ 2 # n
      BY <2>4
    <3>2. QED BY <1>2, <1>3, <2>1, <3>1
  <2>5. QED BY <2>2, <2>3, <2>4
<1>5. ~(m = 2 /\ n = 2)
  <2> SUFFICES ASSUME m = 2, n = 2 PROVE FALSE
    OBVIOUS
  <2>1. \A a \in 1..2 : a = 1 \/ a = 2
    OBVIOUS
  <2>2. \A a \in 1..2 : path[a] = other[a]
    BY <1>2, <2>1
  <2>3. QED BY <1>1, <1>2, <2>2, SeqEqual
<1>6. m = 3 /\ n = 3 => path[2] # other[2]
  <2> SUFFICES ASSUME m = 3, n = 3, path[2] = other[2] PROVE FALSE
    OBVIOUS
  <2>1. \A a \in 1..3 : a = 1 \/ a = 2 \/ a = 3
    OBVIOUS
  <2>2. \A a \in 1..3 : path[a] = other[a]
    BY <1>2, <2>1
  <2>3. QED BY <1>1, <1>2, <2>2, SeqEqual
<1>7. \/ path[i] = other[j] /\ path[i + 1] = other[j + 1]
      \/ path[i] = other[j + 1] /\ path[i + 1] = other[j]
  BY SamePair
<1>8. /\ m = 2 => path[i] = from /\ path[i + 1] = to
      /\ m = 3 => (path[i] = from /\ path[i + 1] = path[2]) \/ (path[i] = path[2] /\ path[i + 1] = to)
  <2>1. m = 2 => i = 1 /\ i + 1 = 2
    BY <1>1
  <2>2. m = 3 => (i = 1 /\ i + 1 = 2) \/ (i = 2 /\ i + 1 = 3)
    BY <1>1
  <2>3. QED BY <1>2, <2>1, <2>2
<1>9. /\ n = 2 => other[j] = from /\ other[j + 1] = to
      /\ n = 3 => (other[j] = from /\ other[j + 1] = other[2]) \/ (other[j] = other[2] /\ other[j + 1] = to)
  <2>1. n = 2 => j = 1 /\ j + 1 = 2
    BY <1>1
  <2>2. n = 3 => (j = 1 /\ j + 1 = 2) \/ (j = 2 /\ j + 1 = 3)
    BY <1>1
  <2>3. QED BY <1>2, <2>1, <2>2
<1>10. (m = 2 \/ m = 3) /\ (n = 2 \/ n = 3)
  BY <1>1
<1>11. QED BY <1>4, <1>5, <1>6, <1>7, <1>8, <1>9, <1>10

\* A split over two such trails can be carried out.
LEMMA SplitExecutable ==
    ASSUME NEW ask, ask.amountIn \in Int,
           NEW pathA, IsTrail(pathA, ask.tokenIn, ask.tokenOut), Len(pathA) <= 3,
           NEW pathB, IsTrail(pathB, ask.tokenIn, ask.tokenOut), Len(pathB) <= 3,
           pathA # pathB,
           NEW a, NEW b, NEW amountA \in Int,
           IsRoute(a, pathA, amountA), IsRoute(b, pathB, ask.amountIn - amountA),
           NEW quote, quote.steps = a.steps \o b.steps,
           quote.amountOut = a.amountOut + b.amountOut
    PROVE  Executable(quote, ask)
<1>1. PICK sA \in Seq(Hop), sB \in Seq(Hop), m \in Nat \ {0}, n \in Nat \ {0} :
         /\ sA = a.steps /\ m = Len(sA) /\ Len(pathA) = m + 1
         /\ sB = b.steps /\ n = Len(sB) /\ Len(pathB) = n + 1
  <2>1. a.steps \in Seq(Hop) /\ Len(a.steps) \in Nat \ {0} /\ Len(pathA) = Len(a.steps) + 1
    BY RouteLength, Zenon
  <2>2. b.steps \in Seq(Hop) /\ Len(b.steps) \in Nat \ {0} /\ Len(pathB) = Len(b.steps) + 1
    BY RouteLength, Zenon
  <2>3. QED BY <2>1, <2>2, Zenon
<1>2. PICK s \in Seq(Hop) : s = sA \o sB
  <2>1. sA \o sB \in Seq(Hop)
    OBVIOUS
  <2>2. QED BY <2>1, Zenon
<1>3. /\ Len(s) = m + n /\ DOMAIN s = 1..(m + n)
      /\ \A i \in 1..m : s[i] = sA[i]
      /\ \A j \in 1..n : s[m + j] = sB[j]
  <2>1. Len(s) = m + n
    BY <1>1, <1>2
  <2>2. DOMAIN s = 1..(m + n)
    BY <2>1
  <2>3. ASSUME NEW i \in 1..m PROVE s[i] = sA[i]
    <3>1. i \in 1..(m + n) /\ i <= m
      OBVIOUS
    <3>2. QED BY <1>1, <1>2, <3>1
  <2>4. ASSUME NEW j \in 1..n PROVE s[m + j] = sB[j]
    <3>1. m + j \in 1..(m + n) /\ ~(m + j <= m) /\ (m + j) - m = j
      OBVIOUS
    <3>2. QED BY <1>1, <1>2, <3>1
  <2>5. QED BY <2>1, <2>2, <2>3, <2>4
<1>4. \A k \in 1..(m + n) : k \in 1..m \/ \E j \in 1..n : k = m + j
  <2> SUFFICES ASSUME NEW k \in 1..(m + n), k \notin 1..m PROVE \E j \in 1..n : k = m + j
    OBVIOUS
  <2>1. k - m \in 1..n /\ k = m + (k - m)
    OBVIOUS
  <2>2. QED BY <2>1
<1>5. /\ \A i \in 1..m : sA[i].tokenIn = pathA[i] /\ sA[i].tokenOut = pathA[i + 1]
                        /\ Joins(sA[i].poolId, pathA[i], pathA[i + 1])
      /\ \A i \in 2..m : sA[i].amountIn = sA[i - 1].amountOut
      /\ sA[1].amountIn = amountA /\ sA[m].amountOut = a.amountOut
  <2>1. Len(pathA) - 1 = m
    BY <1>1
  <2>2. QED BY <1>1, <2>1, Zenon DEF IsRoute
<1>6. /\ \A i \in 1..n : sB[i].tokenIn = pathB[i] /\ sB[i].tokenOut = pathB[i + 1]
                        /\ Joins(sB[i].poolId, pathB[i], pathB[i + 1])
      /\ \A i \in 2..n : sB[i].amountIn = sB[i - 1].amountOut
      /\ sB[1].amountIn = ask.amountIn - amountA /\ sB[n].amountOut = b.amountOut
  <2>1. Len(pathB) - 1 = n
    BY <1>1
  <2>2. QED BY <1>1, <2>1, Zenon DEF IsRoute
<1>7. /\ \A i, j \in 1..(m + 1) : pathA[i] = pathA[j] => i = j
      /\ pathA[1] = ask.tokenIn /\ pathA[m + 1] = ask.tokenOut
  BY <1>1 DEF IsTrail
<1>8. /\ \A i, j \in 1..(n + 1) : pathB[i] = pathB[j] => i = j
      /\ pathB[1] = ask.tokenIn /\ pathB[n + 1] = ask.tokenOut
  BY <1>1 DEF IsTrail
<1>9. \A k \in 1..(m + n) : s[k] \in Hop /\ s[k].amountIn \in Int /\ s[k].amountOut \in Int
  <2>1. \A k \in 1..(m + n) : s[k] \in Hop
    BY <1>3
  <2>2. QED BY <2>1 DEF Hop
<1>10. /\ 1 \in 1..m /\ m \in 1..m /\ 1 \in 1..n /\ n \in 1..n
       /\ 1 \in 1..(m + n) /\ m \in 1..(m + n) /\ m + 1 \in 1..(m + n) /\ m + n \in 1..(m + n)
       /\ 1 # m + 1 /\ m # m + n
  OBVIOUS
<1>11. \A k \in 1..(m + n) : s[k].tokenIn = ask.tokenIn <=> (k = 1 \/ k = m + 1)
  <2>1. ASSUME NEW i \in 1..m PROVE sA[i].tokenIn = ask.tokenIn <=> i = 1
    <3>1. i \in 1..(m + 1) /\ 1 \in 1..(m + 1)
      OBVIOUS
    <3>2. sA[i].tokenIn = pathA[i]
      BY <1>5
    <3>3. QED BY <1>7, <3>1, <3>2
  <2>2. ASSUME NEW j \in 1..n PROVE sB[j].tokenIn = ask.tokenIn <=> j = 1
    <3>1. j \in 1..(n + 1) /\ 1 \in 1..(n + 1)
      OBVIOUS
    <3>2. sB[j].tokenIn = pathB[j]
      BY <1>6
    <3>3. QED BY <1>8, <3>1, <3>2
  <2> SUFFICES ASSUME NEW k \in 1..(m + n) PROVE s[k].tokenIn = ask.tokenIn <=> (k = 1 \/ k = m + 1)
    OBVIOUS
  <2>3. CASE k \in 1..m
    <3>1. k # m + 1
      BY <2>3
    <3>2. QED BY <1>3, <2>1, <2>3, <3>1
  <2>4. CASE k \notin 1..m
    <3>1. PICK j \in 1..n : k = m + j
      BY <1>4, <2>4
    <3>2. k # 1 /\ (k = m + 1 <=> j = 1)
      BY <3>1
    <3>3. QED BY <1>3, <2>2, <3>1, <3>2
  <2>5. QED BY <2>3, <2>4
<1>12. \A k \in 1..(m + n) : s[k].tokenOut = ask.tokenOut <=> (k = m \/ k = m + n)
  <2>1. ASSUME NEW i \in 1..m PROVE sA[i].tokenOut = ask.tokenOut <=> i = m
    <3>1. i + 1 \in 1..(m + 1) /\ m + 1 \in 1..(m + 1) /\ (i + 1 = m + 1 <=> i = m)
      OBVIOUS
    <3>2. sA[i].tokenOut = pathA[i + 1]
      BY <1>5
    <3>3. QED BY <1>7, <3>1, <3>2
  <2>2. ASSUME NEW j \in 1..n PROVE sB[j].tokenOut = ask.tokenOut <=> j = n
    <3>1. j + 1 \in 1..(n + 1) /\ n + 1 \in 1..(n + 1) /\ (j + 1 = n + 1 <=> j = n)
      OBVIOUS
    <3>2. sB[j].tokenOut = pathB[j + 1]
      BY <1>6
    <3>3. QED BY <1>8, <3>1, <3>2
  <2> SUFFICES ASSUME NEW k \in 1..(m + n)
               PROVE  s[k].tokenOut = ask.tokenOut <=> (k = m \/ k = m + n)
    OBVIOUS
  <2>3. CASE k \in 1..m
    <3>1. k # m + n
      BY <2>3
    <3>2. QED BY <1>3, <2>1, <2>3, <3>1
  <2>4. CASE k \notin 1..m
    <3>1. PICK j \in 1..n : k = m + j
      BY <1>4, <2>4
    <3>2. k # m /\ (k = m + n <=> j = n)
      BY <3>1
    <3>3. QED BY <1>3, <2>2, <3>1, <3>2
  <2>5. QED BY <2>3, <2>4
<1>13. {k \in 1..(m + n) : s[k].tokenIn = ask.tokenIn} = {1, m + 1}
  BY <1>10, <1>11
<1>14. {k \in 1..(m + n) : s[k].tokenOut = ask.tokenOut} = {m, m + n}
  BY <1>10, <1>12
<1>15. \A k, l \in 1..(m + n) : k # l => s[k].poolId # s[l].poolId
  <2>1. Len(pathA) - 1 = m /\ Len(pathB) - 1 = n
    BY <1>1
  <2>2. \A i, j \in 1..m : sA[i].poolId = sA[j].poolId => i = j
    BY <1>1, <2>1, TrailPools
  <2>3. \A i, j \in 1..n : sB[i].poolId = sB[j].poolId => i = j
    BY <1>1, <2>1, TrailPools
  <2>4. ASSUME NEW i \in 1..m, NEW j \in 1..n, sA[i].poolId = sB[j].poolId PROVE FALSE
    <3>1. PICK p : p = sA[i].poolId /\ Joins(p, pathA[i], pathA[i + 1]) /\ Joins(p, pathB[j], pathB[j + 1])
      BY <1>5, <1>6, <2>4
    <3>2. i \in 1..(Len(pathA) - 1) /\ j \in 1..(Len(pathB) - 1)
      BY <2>1
    <3>3. QED BY <3>1, <3>2, TrailsApart
  <2> SUFFICES ASSUME NEW k \in 1..(m + n), NEW l \in 1..(m + n), s[k].poolId = s[l].poolId
               PROVE  k = l
    OBVIOUS
  <2>5. CASE k \in 1..m /\ l \in 1..m
    BY <1>3, <2>2, <2>5
  <2>6. CASE k \in 1..m /\ l \notin 1..m
    <3>1. PICK j \in 1..n : l = m + j
      BY <1>4, <2>6
    <3>2. s[l] = sB[j] /\ s[k] = sA[k]
      BY <1>3, <2>6, <3>1
    <3>3. QED BY <2>4, <2>6, <3>2
  <2>7. CASE k \notin 1..m /\ l \in 1..m
    <3>1. PICK j \in 1..n : k = m + j
      BY <1>4, <2>7
    <3>2. s[k] = sB[j] /\ s[l] = sA[l]
      BY <1>3, <2>7, <3>1
    <3>3. QED BY <2>4, <2>7, <3>2
  <2>8. CASE k \notin 1..m /\ l \notin 1..m
    <3>1. PICK i \in 1..n, j \in 1..n : k = m + i /\ l = m + j
      BY <1>4, <2>8
    <3>2. s[k] = sB[i] /\ s[l] = sB[j]
      BY <1>3, <3>1
    <3>3. QED BY <2>3, <3>1, <3>2
  <2>9. QED BY <2>5, <2>6, <2>7, <2>8
<1>16. \A k \in (1..(m + n)) \ {1, m + 1} :
          s[k].amountIn = s[k - 1].amountOut /\ s[k].tokenIn = s[k - 1].tokenOut
  <2> SUFFICES ASSUME NEW k \in (1..(m + n)) \ {1, m + 1}
               PROVE  s[k].amountIn = s[k - 1].amountOut /\ s[k].tokenIn = s[k - 1].tokenOut
    OBVIOUS
  <2>1. CASE k \in 1..m
    <3>1. k \in 2..m /\ k - 1 \in 1..m /\ (k - 1) + 1 = k
      BY <2>1
    <3>2. s[k] = sA[k] /\ s[k - 1] = sA[k - 1]
      BY <1>3, <2>1, <3>1
    <3>3. sA[k].amountIn = sA[k - 1].amountOut /\ sA[k].tokenIn = pathA[k] /\ sA[k - 1].tokenOut = pathA[k]
      BY <1>5, <2>1, <3>1
    <3>4. QED BY <3>2, <3>3
  <2>2. CASE k \notin 1..m
    <3>1. PICK j \in 1..n : k = m + j /\ j # 1
      BY <1>4, <2>2
    <3>2. j \in 2..n /\ j - 1 \in 1..n /\ (j - 1) + 1 = j /\ k - 1 = m + (j - 1)
      BY <3>1
    <3>3. s[k] = sB[j] /\ s[k - 1] = sB[j - 1]
      BY <1>3, <3>1, <3>2
    <3>4. QED BY <1>6, <3>2, <3>3
  <2>3. QED BY <2>1, <2>2
<1>17. SumFunctionOnSet([k \in 1..(m + n) |-> s[k].amountIn], {1, m + 1}) = ask.amountIn
  <2>1. PICK f : f = [k \in 1..(m + n) |-> s[k].amountIn]
    OBVIOUS
  <2>2. f[1] = amountA /\ f[m + 1] = ask.amountIn - amountA
    BY <1>3, <1>5, <1>6, <1>10, <2>1
  <2>3. SumFunctionOnSet(f, {1, m + 1}) = f[1] + f[m + 1]
    <3>1. PICK k, l : k = 1 /\ l = m + 1
      OBVIOUS
    <3>2. k # l /\ f[k] \in Int /\ f[l] \in Int
      <4>1. ask.amountIn - amountA \in Int
        OBVIOUS
      <4>2. k # l
        BY <1>10, <3>1
      <4>3. QED BY <2>2, <3>1, <4>1, <4>2, Zenon
    <3>3. SumFunctionOnSet(f, {k, l}) = f[k] + f[l]
      BY <3>2, SumOfTwo
    <3>4. QED BY <3>1, <3>3
  <2>4. amountA + (ask.amountIn - amountA) = ask.amountIn
    OBVIOUS
  <2>5. QED BY <2>1, <2>2, <2>3, <2>4, Zenon
<1>18. SumFunctionOnSet([k \in 1..(m + n) |-> s[k].amountOut], {m, m + n}) = quote.amountOut
  <2>1. PICK f : f = [k \in 1..(m + n) |-> s[k].amountOut]
    OBVIOUS
  <2>2. f[m] = a.amountOut /\ f[m + n] = b.amountOut /\ f[m] \in Int /\ f[m + n] \in Int
    BY <1>3, <1>5, <1>6, <1>9, <1>10, <2>1
  <2>3. SumFunctionOnSet(f, {m, m + n}) = f[m] + f[m + n]
    BY <1>10, <2>2, SumOfTwo
  <2>4. QED BY <2>1, <2>2, <2>3, Zenon
<1>19. Cardinality({1, m + 1}) = Cardinality({m, m + n})
  <2>1. \A k, l : k # l => Cardinality({k, l}) = 2
    BY CardinalityOfTwo
  <2>2. QED BY <1>10, <2>1, Zenon
<1>20. quote.steps = s
  BY <1>1, <1>2
<1>21. DOMAIN s = 1..(m + n)
  BY <1>3
<1>22. QED BY <1>13, <1>14, <1>15, <1>16, <1>17, <1>18, <1>19, <1>20, <1>21, Zenon DEF Executable

\* The best of several routes is one of them, or none.
LEMMA BestIsOne ==
    ASSUME NEW routes, DOMAIN routes \subseteq Nat
    PROVE  \/ BestOf(routes) = NoRoute
           \/ \E i \in DOMAIN routes : BestOf(routes) = routes[i] /\ routes[i].ok
<1> DEFINE best == {i \in DOMAIN routes :
                      routes[i].ok /\ \A j \in DOMAIN routes :
                                        routes[j].amountOut <= routes[i].amountOut}
<1>1. CASE best = {}
  BY <1>1, Zenon DEF BestOf
<1>2. CASE best # {}
  <2>1. BestOf(routes) = routes[Min(best)]
    BY <1>2, Zenon DEF BestOf
  <2>2. best \in SUBSET Nat
    OBVIOUS
  <2>3. Min(best) \in best
    <3> HIDE DEF best
    <3>1. \E i \in best : \A j \in best : i <= j
      BY <1>2, <2>2, LeastNatural
    <3>2. QED BY <3>1 DEF Min
  <2>4. QED BY <2>1, <2>3
<1>3. QED BY <1>1, <1>2

\* The paths found for a question are trails, no two the same.
LEMMA TrailsFound ==
    ASSUME NEW g, IsGraph(g), NEW start, NEW end, NEW maxHops \in Nat
    PROVE  LET found == FindAllPaths(g, start, end, maxHops)
           IN  /\ DOMAIN found \subseteq Nat
               /\ \A i \in DOMAIN found : IsTrail(found[i], start, end) /\ Len(found[i]) <= maxHops
               /\ \A i, j \in DOMAIN found : found[i] = found[j] => i = j
<1>1. PICK found : found = FindAllPaths(g, start, end, maxHops)
  OBVIOUS
<1>2. /\ DOMAIN found = 1..Len(found) /\ Len(found) \in Nat
      /\ \A i \in 1..Len(found) : found[i] \in PathsBetween(g, start, end, maxHops)
      /\ \A i, j \in 1..Len(found) : found[i] = found[j] => i = j
  BY <1>1, AllPathsFound
<1>3. \A p \in PathsBetween(g, start, end, maxHops) : IsTrail(p, start, end) /\ Len(p) <= maxHops
  BY DEF PathsBetween, IsPath, IsTrail
<1>4. QED BY <1>1, <1>2, <1>3

LEMMA TrailSimulated ==
    ASSUME NEW g, IsGraph(g), NEW path, NEW start, NEW end, IsTrail(path, start, end),
           NEW amountIn \in Int
    PROVE  LET route == SimulatePath(g, path, amountIn)
           IN  /\ route.amountOut \in Int
               /\ route.ok => IsRoute(route, path, amountIn)
<1>1. PICK route : route = SimulatePath(g, path, amountIn)
  OBVIOUS
<1>2. path \in Seq(Tokens) /\ 1 < Len(path)
  BY DEF IsTrail
<1>3. route = NoRoute \/ IsRoute(route, path, amountIn)
  BY <1>1, <1>2, PathSimulated
<1>4. CASE route = NoRoute
  BY <1>1, <1>4 DEF NoRoute
<1>5. CASE IsRoute(route, path, amountIn)
  <2>1. PICK s \in Seq(Hop), n \in Nat \ {0} : s = route.steps /\ n = Len(s) /\ Len(path) = n + 1
    BY <1>5, RouteLength, Zenon
  <2>2. s[n] \in Hop
    BY <2>1
  <2>3. Len(path) - 1 = n
    BY <2>1
  <2>4. route.amountOut = s[n].amountOut
    BY <1>5, <2>1, <2>3, Zenon DEF IsRoute
  <2>5. route.amountOut \in Int
    BY <2>2, <2>4 DEF Hop
  <2>6. QED BY <1>1, <1>5, <2>5
<1>6. QED BY <1>3, <1>4, <1>5

LEMMA BestRouteFound ==
    ASSUME NEW searched, IsGraph(searched), NEW g, IsGraph(g), NEW ask, ask.amountIn \in Int,
           NEW maxHops \in Nat
    PROVE  LET route == FindBestRoute(searched, g, ask, maxHops)
           IN  route.ok => \E path : /\ IsTrail(path, ask.tokenIn, ask.tokenOut)
                                     /\ IsRoute(route, path, ask.amountIn)
<1>1. PICK paths : paths = FindAllPaths(searched, ask.tokenIn, ask.tokenOut, maxHops)
  OBVIOUS
<1>2. PICK routes : routes = [i \in DOMAIN paths |-> SimulatePath(g, paths[i], ask.amountIn)]
  OBVIOUS
<1>3. PICK route : route = FindBestRoute(searched, g, ask, maxHops) /\ route = BestOf(routes)
  BY <1>1, <1>2, Zenon DEF FindBestRoute
<1>4. SUFFICES ASSUME route.ok
               PROVE  \E path : IsTrail(path, ask.tokenIn, ask.tokenOut) /\ IsRoute(route, path, ask.amountIn)
  BY <1>3, Zenon
<1>5. route # NoRoute
  BY <1>4 DEF NoRoute
<1>6. DOMAIN routes = DOMAIN paths /\ DOMAIN paths \subseteq Nat
  BY <1>1, <1>2, TrailsFound
<1>7. PICK i \in DOMAIN paths : route = routes[i]
  BY <1>3, <1>5, <1>6, BestIsOne
<1>8. route = SimulatePath(g, paths[i], ask.amountIn)
  BY <1>2, <1>7
<1>9. IsTrail(paths[i], ask.tokenIn, ask.tokenOut)
  BY <1>1, TrailsFound
<1>10. IsRoute(route, paths[i], ask.amountIn)
  BY <1>4, <1>8, <1>9, TrailSimulated
<1>11. QED BY <1>9, <1>10

\* The ranking is one of different trails of at most two hops.
LEMMA TrailsRanked ==
    ASSUME NEW g, IsGraph(g), NEW ask, ask.amountIn \in Int
    PROVE  LET ranked == RankedPaths(g, ask)
           IN  /\ Len(ranked) \in Nat
               /\ \A k \in 1..Len(ranked) : /\ IsTrail(ranked[k], ask.tokenIn, ask.tokenOut)
                                            /\ Len(ranked[k]) <= 3
               /\ \A k, l \in 1..Len(ranked) : ranked[k] = ranked[l] => k = l
<1>1. PICK paths : paths = FindAllPaths(g, ask.tokenIn, ask.tokenOut, SplitHops)
  OBVIOUS
<1>2. /\ DOMAIN paths \subseteq Nat
      /\ \A i \in DOMAIN paths : IsTrail(paths[i], ask.tokenIn, ask.tokenOut) /\ Len(paths[i]) <= 3
      /\ \A i, j \in DOMAIN paths : paths[i] = paths[j] => i = j
  <2>1. SplitHops \in Nat /\ SplitHops = 3
    BY DEF SplitHops
  <2>2. QED BY <1>1, <2>1, TrailsFound
<1>3. PICK out : out = [i \in DOMAIN paths |-> SimulatePath(g, paths[i], ask.amountIn).amountOut]
  OBVIOUS
<1>4. \A i \in DOMAIN paths : out[i] \in Int
  BY <1>2, <1>3, TrailSimulated
<1> DEFINE paying == {i \in DOMAIN paths : out[i] > 0}
           key == [i \in paying |-> -out[i]]
           n == Cardinality(paying)
<1>5. paying \in SUBSET Int /\ key \in [paying -> Int]
  BY <1>2, <1>4
<1>6. IsFiniteSet(paying)
  <2>1. IsFiniteSet(DOMAIN paths)
    <3>1. DOMAIN paths = 1..Len(paths) /\ Len(paths) \in Nat
      <4>1. SplitHops \in Nat
        BY DEF SplitHops
      <4>2. QED BY <1>1, <4>1, AllPathsFound
    <3>2. PICK one \in Int : one = 1
      OBVIOUS
    <3>3. IsFiniteSet(one..Len(paths))
      BY <3>1, FS_Interval
    <3>4. QED BY <3>1, <3>2, <3>3
  <2>2. QED BY <2>1, FS_Subset
<1>7. PICK order : order = InOrder(paying, key)
  OBVIOUS
<1>8. /\ n \in Nat /\ order \in [1..n -> paying]
      /\ \A k, l \in 1..n : order[k] = order[l] => k = l
  <2> HIDE DEF paying, key
  <2>1. QED BY <1>5, <1>6, <1>7, OrderEnumerates
<1>9. PICK ranked : ranked = RankedPaths(g, ask)
  OBVIOUS
<1>10. ranked = [k \in DOMAIN order |-> paths[order[k]]]
  BY <1>1, <1>3, <1>7, <1>9, Zenon DEF RankedPaths
<1>11. \A k \in 1..n : order[k] \in DOMAIN paths /\ ranked[k] = paths[order[k]]
  <2>1. DOMAIN order = 1..n /\ \A k \in 1..n : order[k] \in paying
    BY <1>8
  <2>2. QED BY <1>10, <2>1
<1>12. Len(ranked) = n
  <2>1. \A k \in 1..n : paths[order[k]] \in Seq(Tokens)
    BY <1>2, <1>11 DEF IsTrail
  <2>2. DOMAIN order = 1..n
    BY <1>8
  <2> HIDE DEF n
  <2>3. ranked \in [1..n -> Seq(Tokens)]
    BY <1>10, <2>1, <2>2
  <2>4. QED BY <1>8, <2>3
<1>13. ASSUME NEW k \in 1..n, NEW l \in 1..n, ranked[k] = ranked[l] PROVE k = l
  <2>1. order[k] = order[l]
    BY <1>2, <1>11, <1>13
  <2>2. QED BY <1>8, <2>1
<1>14. \A k \in 1..n : IsTrail(ranked[k], ask.tokenIn, ask.tokenOut) /\ Len(ranked[k]) <= 3
  BY <1>2, <1>11
<1>15. QED
  <2> HIDE DEF n
  <2>1. QED BY <1>8, <1>9, <1>12, <1>13, <1>14

\* A split is one of the amount over two such trails.
LEMMA SplitFound ==
    ASSUME NEW g, IsGraph(g), NEW ask, ask.amountIn \in Int,
           SplitOver(g, ask, RankedPaths(g, ask)).ok
    PROVE  \E quote : /\ Executable(quote, ask)
                     /\ quote = [amountOut |-> SplitOver(g, ask, RankedPaths(g, ask)).amountOut,
                                 steps |-> SplitOver(g, ask, RankedPaths(g, ask)).steps,
                                 pricedBy |-> g]
<1>1. PICK ranked : ranked = RankedPaths(g, ask)
  OBVIOUS
<1> DEFINE AmountA(i) == (ask.amountIn * Ratios[i]) \div 100
<1>2. PICK splits : splits = [i \in DOMAIN Ratios |->
                               SplitAt(g, ranked[1], ranked[2], AmountA(i), ask.amountIn - AmountA(i))]
  OBVIOUS
<1>3. PICK split : split = SplitOver(g, ask, ranked) /\ split.ok
  BY <1>1
<1>4. split # NoRoute
  BY <1>3 DEF NoRoute
<1>5. Len(ranked) \in Nat /\ ~(Len(ranked) < 2) /\ split = BestOf(splits)
  <2>1. Len(ranked) \in Nat
    BY <1>1, TrailsRanked
  <2>2. split = IF Len(ranked) < 2 THEN NoRoute ELSE BestOf(splits)
    BY <1>2, <1>3, Zenon DEF SplitOver
  <2>3. QED BY <1>4, <2>1, <2>2
<1>6. PICK pathA, pathB : pathA = ranked[1] /\ pathB = ranked[2]
  OBVIOUS
<1>7. /\ IsTrail(pathA, ask.tokenIn, ask.tokenOut) /\ Len(pathA) <= 3
      /\ IsTrail(pathB, ask.tokenIn, ask.tokenOut) /\ Len(pathB) <= 3
      /\ pathA # pathB
  <2>1. 1 \in 1..Len(ranked) /\ 2 \in 1..Len(ranked) /\ 1 # 2
    BY <1>5
  <2>2. QED BY <1>1, <1>6, <2>1, TrailsRanked
<1>8. DOMAIN Ratios = 1..18 /\ \A i \in 1..18 : Ratios[i] \in Int
  BY DEF Ratios
<1>9. PICK i \in 1..18 : split = splits[i]
  <2>1. DOMAIN splits = 1..18 /\ 1..18 \subseteq Nat
    BY <1>2, <1>8
  <2>2. QED BY <1>4, <1>5, <2>1, BestIsOne
<1>10. PICK amountA \in Int : amountA = AmountA(i)
  <2>1. PICK n \in Int : n = ask.amountIn * Ratios[i]
    BY <1>8
  <2>2. n \div 100 \in Int
    OBVIOUS
  <2>3. QED BY <2>1, <2>2
<1>11. split = SplitAt(g, pathA, pathB, amountA, ask.amountIn - amountA)
  <2> HIDE DEF AmountA
  <2>1. QED BY <1>2, <1>6, <1>8, <1>9, <1>10
<1>12. PICK a, b : /\ a = SimulatePath(g, pathA, amountA)
                   /\ b = SimulatePath(g, pathB, ask.amountIn - amountA)
  OBVIOUS
<1>13. split = IF a.ok /\ b.ok
               THEN [ok |-> TRUE, steps |-> a.steps \o b.steps,
                     amountOut |-> a.amountOut + b.amountOut]
               ELSE NoRoute
  BY <1>11, <1>12, Zenon DEF SplitAt
<1>14. a.ok /\ b.ok /\ split.steps = a.steps \o b.steps /\ split.amountOut = a.amountOut + b.amountOut
  BY <1>4, <1>13
<1>15. ask.amountIn - amountA \in Int
  OBVIOUS
<1>16. IsRoute(a, pathA, amountA) /\ IsRoute(b, pathB, ask.amountIn - amountA)
  BY <1>7, <1>12, <1>14, <1>15, TrailSimulated
<1>17. PICK quote : quote = [amountOut |-> split.amountOut, steps |-> split.steps, pricedBy |-> g]
  OBVIOUS
<1>18. quote.steps = a.steps \o b.steps /\ quote.amountOut = a.amountOut + b.amountOut
  BY <1>14, <1>17
<1>19. Executable(quote, ask)
  BY <1>7, <1>16, <1>18, SplitExecutable
<1>20. QED BY <1>1, <1>3, <1>17, <1>19, Zenon

\* An answer is none or can be carried out, whatever graph the paths were
\* searched in and whatever graph they are priced by.
LEMMA BestQuoteExecutable ==
    ASSUME NEW searched, IsGraph(searched), NEW g, IsGraph(g), NEW ask, ask.amountIn \in Int
    PROVE  BestQuote(searched, g, ask) = NoQuote \/ Executable(BestQuote(searched, g, ask), ask)
<1>1. PICK single : single = FindBestRoute(searched, g, ask, MaxHops)
  OBVIOUS
<1>2. PICK over : over = SplitOver(g, ask, RankedPaths(g, ask))
  OBVIOUS
<1>3. PICK split : split = OptimizeSplit(g, ask) /\ (split = over \/ split = NoRoute)
  BY <1>2, Zenon DEF OptimizeSplit, PaysMore
<1>4. BestQuote(searched, g, ask) = Answer(single, split, g)
  BY <1>1, <1>3, Zenon DEF BestQuote
<1>5. CASE ~single.ok
  BY <1>4, <1>5, Zenon DEF Answer
<1>6. CASE single.ok /\ split.ok /\ split.amountOut > single.amountOut
  <2>1. split = over
    BY <1>3, <1>6 DEF NoRoute
  <2>2. BestQuote(searched, g, ask)
          = [amountOut |-> over.amountOut, steps |-> over.steps, pricedBy |-> g]
    BY <1>4, <1>6, <2>1, Zenon DEF Answer
  <2>3. PICK quote : /\ Executable(quote, ask)
                     /\ quote = [amountOut |-> over.amountOut, steps |-> over.steps, pricedBy |-> g]
    BY <1>2, <1>6, <2>1, SplitFound
  <2>4. QED BY <2>2, <2>3
<1>7. CASE single.ok /\ ~(split.ok /\ split.amountOut > single.amountOut)
  <2>1. BestQuote(searched, g, ask)
          = [amountOut |-> single.amountOut, steps |-> single.steps, pricedBy |-> g]
    BY <1>4, <1>7, Zenon DEF Answer
  <2>2. MaxHops \in Nat
    BY RoutingAssumption
  <2>3. PICK path : IsTrail(path, ask.tokenIn, ask.tokenOut) /\ IsRoute(single, path, ask.amountIn)
    BY <1>1, <1>7, <2>2, BestRouteFound
  <2>4. PICK quote : quote = [amountOut |-> single.amountOut, steps |-> single.steps, pricedBy |-> g]
    OBVIOUS
  <2>5. quote.steps = single.steps /\ quote.amountOut = single.amountOut
    BY <2>4
  <2>6. Executable(quote, ask)
    BY <2>3, <2>5, RouteExecutable
  <2>7. QED BY <2>1, <2>4, <2>6
<1>8. QED BY <1>5, <1>6, <1>7

-----------------------------------------------------------------------------
(* The invariant of the tasks. *)

GraphOrNone(g) == g = NoGraph \/ IsGraph(g)

\* What a task holds where it waits.
Held(z) ==
    \/ z = Idle
    \/ /\ z.at \in {"rebuilt", "storing"} /\ z = [at |-> z.at, graph |-> z.graph]
       /\ IsGraph(z.graph)
    \/ /\ z.at \in {"copied", "built", "sharing"} /\ z = [at |-> z.at, q |-> z.q, graph |-> z.graph]
       /\ z.q \in Questions /\ IsGraph(z.graph)
    \/ /\ z.at = "missed" /\ z = [at |-> z.at, q |-> z.q]
       /\ z.q \in Questions
    \/ /\ z.at = "quoted" /\ z = [at |-> z.at, q |-> z.q, quote |-> z.quote]
       /\ z.q \in Questions /\ Executable(z.quote, z.q)

\* Wherever a graph is kept it is one of the pools, wherever an answer is kept
\* it can be carried out, and a request that has put its graph in memory finds
\* one there.
RoutingInv ==
    /\ row \in [Pools -> Row]
    /\ GraphOrNone(memory) /\ GraphOrNone(cachedGraph)
    /\ DOMAIN cachedQuote = Questions
    /\ \A ask \in Questions : cachedQuote[ask] = NoQuote \/ Executable(cachedQuote[ask], ask)
    /\ DOMAIN task = Tasks /\ \A t \in Tasks : Held(task[t])
    /\ \A t \in Tasks : task[t].at = "sharing" => IsGraph(memory)

\* The graph of a table of pools is one.
LEMMA BuiltGraph ==
    ASSUME row \in [Pools -> Row]
    PROVE  IsGraph(BuildGraph)
<1> DEFINE active == {a \in Pools : row[a].isActive}
           built == {EdgesOf(p) : p \in active}
<1>1. BuildGraph = UNION built
  BY Zenon DEF BuildGraph
<1>2. \A p \in Pools : IsFiniteSet(EdgesOf(p))
  <2>1. \A e, f : IsFiniteSet({e, f})
    <3> SUFFICES ASSUME NEW e, NEW f PROVE IsFiniteSet({e, f})
      OBVIOUS
    <3>1. IsFiniteSet({e} \cup {f}) /\ {e} \cup {f} = {e, f}
      BY FS_Singleton, FS_AddElement
    <3>2. QED BY <3>1
  <2>2. QED BY <2>1, Zenon DEF EdgesOf
<1>3. IsFiniteSet(built)
  <2>1. IsFiniteSet(active)
    BY FS_Subset, RoutingAssumption
  <2> DEFINE made == [p \in active |-> EdgesOf(p)]
  <2>2. made \in Surjection(active, built)
    <3> HIDE DEF active
    <3>1. QED BY Zenon DEF Surjection
  <2> HIDE DEF active, built, made
  <2>3. QED BY <2>1, <2>2, FS_Surjection
<1>4. IsFiniteSet(BuildGraph)
  <2>1. \A T \in built : IsFiniteSet(T)
    BY <1>2
  <2> HIDE DEF built
  <2>2. QED BY <1>1, <1>3, <2>1, FS_UNION
<1>5. ASSUME NEW e \in BuildGraph
      PROVE  /\ e.poolId \in Pools
             /\ \/ /\ e.tokenIn = Listing[e.poolId].token0
                   /\ e.tokenOut = Listing[e.poolId].token1
                \/ /\ e.tokenIn = Listing[e.poolId].token1
                   /\ e.tokenOut = Listing[e.poolId].token0
             /\ e.reserveIn \in Nat /\ e.reserveOut \in Nat
             /\ e.feeBps \in 0..FEE_DENOMINATOR /\ e.tvlUsd \in Int
             /\ \E f \in BuildGraph : f.tokenIn = e.tokenOut /\ f.tokenOut = e.tokenIn
  <2>1. PICK p \in active : e \in EdgesOf(p)
    BY <1>1
  <2>2. EdgesOf(p) \subseteq BuildGraph
    BY <1>1
  <2>3. /\ Listing[p].feeBps \in 0..FEE_DENOMINATOR /\ Listing[p].tvlUsd \in Int
        /\ row[p].reserve0 \in Nat /\ row[p].reserve1 \in Nat
    BY MarketAssumption DEF Row
  <2>4. PICK there, back :
           /\ EdgesOf(p) = {there, back}
           /\ there = [poolId |-> p, tokenIn |-> Listing[p].token0, tokenOut |-> Listing[p].token1,
                       reserveIn |-> row[p].reserve0, reserveOut |-> row[p].reserve1,
                       feeBps |-> Listing[p].feeBps, tvlUsd |-> Listing[p].tvlUsd]
           /\ back = [poolId |-> p, tokenIn |-> Listing[p].token1, tokenOut |-> Listing[p].token0,
                      reserveIn |-> row[p].reserve1, reserveOut |-> row[p].reserve0,
                      feeBps |-> Listing[p].feeBps, tvlUsd |-> Listing[p].tvlUsd]
    BY Zenon DEF EdgesOf
  <2>5. there \in BuildGraph /\ back \in BuildGraph
    BY <2>2, <2>4
  <2>6. CASE e = there
    BY <2>3, <2>4, <2>5, <2>6
  <2>7. CASE e = back
    BY <2>3, <2>4, <2>5, <2>7
  <2>8. QED BY <2>1, <2>4, <2>6, <2>7
<1>6. QED BY <1>4, <1>5 DEF IsGraph

\* One task goes on and the others stay where they are.
LEMMA TaskMoves ==
    ASSUME RoutingInv, NEW t \in Tasks, NEW z, Held(z), Goes(t, z)
    PROVE  /\ DOMAIN task' = Tasks
           /\ \A y \in Tasks : Held(task'[y])
           /\ \A y \in Tasks : y # t => task'[y] = task[y]
           /\ task'[t] = z
BY DEF RoutingInv, Goes

LEMMA HeldIdle == Held(Idle)
BY DEF Held

\* What a request holds with its answer, if there is one.
LEMMA HeldQuoted ==
    ASSUME NEW searched, IsGraph(searched), NEW g, IsGraph(g), NEW ask \in Questions, NEW z,
           z = IF BestQuote(searched, g, ask) = NoQuote THEN Idle
               ELSE [at |-> "quoted", q |-> ask, quote |-> BestQuote(searched, g, ask)]
    PROVE  Held(z) /\ z.at # "sharing"
<1>1. PICK quote : quote = BestQuote(searched, g, ask)
  OBVIOUS
<1>2. ask.amountIn \in Int
  BY MarketAssumption
<1>3. quote = NoQuote \/ Executable(quote, ask)
  BY <1>1, <1>2, BestQuoteExecutable
<1>4. CASE quote = NoQuote
  BY <1>1, <1>4, HeldIdle DEF Idle
<1>5. CASE quote # NoQuote
  <2>1. z = [at |-> "quoted", q |-> ask, quote |-> quote]
    BY <1>1, <1>5
  <2>2. z.at = "quoted" /\ z.q = ask /\ z.quote = quote
    BY <2>1
  <2>3. z = [at |-> z.at, q |-> z.q, quote |-> z.quote]
    BY <2>1, <2>2, Zenon
  <2>4. QED BY <1>3, <1>5, <2>2, <2>3 DEF Held
<1>6. QED BY <1>4, <1>5

\* What can be read off a task that waits.
LEMMA HeldFields ==
    ASSUME NEW z, Held(z)
    PROVE  /\ z.at \in {"rebuilt", "storing"} =>
                 /\ z = [at |-> z.at, graph |-> z.graph] /\ IsGraph(z.graph)
           /\ z.at \in {"copied", "built", "sharing"} =>
                 /\ z = [at |-> z.at, q |-> z.q, graph |-> z.graph]
                 /\ z.q \in Questions /\ IsGraph(z.graph)
           /\ z.at = "missed" => z.q \in Questions
           /\ z.at = "quoted" => z.q \in Questions /\ Executable(z.quote, z.q)
<1>1. CASE z = Idle
  BY <1>1 DEF Idle
<1>2. CASE z # Idle
  BY <1>2 DEF Held
<1>3. QED BY <1>1, <1>2

LEMMA RoutingStarts == RoutingInit => RoutingInv
<1> SUFFICES ASSUME RoutingInit PROVE RoutingInv
  OBVIOUS
<1>1. row \in [Pools -> Row]
  BY MarketAssumption DEF RoutingInit
<1>2. \A t \in Tasks : task[t] = Idle
  BY DEF RoutingInit
<1>3. \A t \in Tasks : Held(task[t]) /\ task[t].at # "sharing"
  BY <1>2, HeldIdle DEF Idle
<1>4. QED BY <1>1, <1>3 DEF RoutingInit, RoutingInv, GraphOrNone

\* One lemma for the steps that move one task, and may change what is kept.
LEMMA InvKept ==
    ASSUME RoutingInv, NEW t \in Tasks, NEW z, Held(z), Goes(t, z), UNCHANGED row,
           UNCHANGED memory \/ IsGraph(memory'),
           UNCHANGED cachedGraph \/ IsGraph(cachedGraph'),
           UNCHANGED cachedQuote,
           z.at = "sharing" => IsGraph(memory')
    PROVE  RoutingInv'
<1>1. /\ DOMAIN task' = Tasks
      /\ \A y \in Tasks : Held(task'[y])
      /\ \A y \in Tasks : y # t => task'[y] = task[y]
      /\ task'[t] = z
  BY TaskMoves
<1>2. row' \in [Pools -> Row]
  BY DEF RoutingInv
<1>3. GraphOrNone(memory') /\ GraphOrNone(cachedGraph')
  BY DEF RoutingInv, GraphOrNone
<1>4. ASSUME NEW y \in Tasks, task'[y].at = "sharing" PROVE IsGraph(memory')
  <2>1. CASE y = t
    BY <1>1, <1>4, <2>1
  <2>2. CASE y # t
    BY <1>1, <1>4, <2>2 DEF RoutingInv
  <2>3. QED BY <2>1, <2>2
<1>5. /\ DOMAIN cachedQuote' = Questions
      /\ \A ask \in Questions : cachedQuote'[ask] = NoQuote \/ Executable(cachedQuote'[ask], ask)
  BY DEF RoutingInv
<1>6. (\A y \in Tasks : Held(task[y]))' /\ (GraphOrNone(memory) /\ GraphOrNone(cachedGraph))'
  BY <1>1, <1>3
<1>7. (\A ask \in Questions : cachedQuote[ask] = NoQuote \/ Executable(cachedQuote[ask], ask))'
  BY <1>5
<1>8. (\A y \in Tasks : task[y].at = "sharing" => IsGraph(memory))'
  BY <1>4
<1>9. QED BY <1>1, <1>2, <1>5, <1>6, <1>7, <1>8 DEF RoutingInv

LEMMA RoutingStep == RoutingInv /\ [RoutingNext]_vars => RoutingInv'
<1> SUFFICES ASSUME RoutingInv, [RoutingNext]_vars PROVE RoutingInv'
  OBVIOUS
<1>1. IsGraph(BuildGraph)
  BY BuiltGraph DEF RoutingInv
<1>2. \A t \in Tasks : Held(task[t])
  BY DEF RoutingInv
<1>3. Rebuilds \subseteq Tasks /\ Requests \subseteq Tasks
  BY DEF Tasks
<1>4. ASSUME NEW t \in Rebuilds, RebuildReads(t) PROVE RoutingInv'
  <2>1. PICK z : z = [at |-> "rebuilt", graph |-> BuildGraph]
    OBVIOUS
  <2>2. z.at = "rebuilt" /\ z.graph = BuildGraph
    BY <2>1
  <2>3. z = [at |-> z.at, graph |-> z.graph]
    BY <2>1, <2>2, Zenon
  <2>4. Held(z)
    BY <1>1, <2>2, <2>3 DEF Held
  <2>5. Goes(t, z) /\ UNCHANGED <<row, memory, cachedGraph, cachedQuote>>
    BY <1>4, <2>1 DEF RebuildReads
  <2>6. QED BY <1>3, <2>2, <2>4, <2>5, InvKept
<1>5. ASSUME NEW t \in Requests, NEW ask \in Questions, Ask(t, ask) PROVE RoutingInv'
  <2>1. IsGraph(memory)
    BY <1>5 DEF Ask, RoutingInv, GraphOrNone
  <2>2. PICK z : z = IF BestQuote(memory, memory, ask) = NoQuote THEN Idle
                     ELSE [at |-> "quoted", q |-> ask, quote |-> BestQuote(memory, memory, ask)]
    OBVIOUS
  <2>3. Held(z) /\ z.at # "sharing"
    BY <2>1, <2>2, HeldQuoted
  <2>4. Goes(t, z) /\ UNCHANGED <<row, memory, cachedGraph, cachedQuote>>
    BY <1>5, <2>2, Zenon DEF Ask, Quoted
  <2>5. QED BY <1>3, <2>3, <2>4, InvKept
<1>6. ASSUME NEW t \in Requests, NEW ask \in Questions, AskForGraph(t, ask) PROVE RoutingInv'
  <2>1. UNCHANGED <<row, memory, cachedGraph, cachedQuote>>
    BY <1>6 DEF AskForGraph
  <2>2. CASE cachedGraph # NoGraph
    <3>1. PICK z : z = [at |-> "copied", q |-> ask, graph |-> cachedGraph]
      OBVIOUS
    <3>2. z.at = "copied" /\ z.q = ask /\ z.graph = cachedGraph
      BY <3>1
    <3>3. z = [at |-> z.at, q |-> z.q, graph |-> z.graph]
      BY <3>1, <3>2, Zenon
    <3>4. IsGraph(cachedGraph)
      BY <2>2 DEF RoutingInv, GraphOrNone
    <3>5. Held(z)
      BY <3>2, <3>3, <3>4 DEF Held
    <3>6. Goes(t, z)
      BY <1>6, <2>2, <3>1, Zenon DEF AskForGraph
    <3>7. QED BY <1>3, <2>1, <3>2, <3>5, <3>6, InvKept
  <2>3. CASE cachedGraph = NoGraph
    <3>1. PICK z : z = [at |-> "missed", q |-> ask]
      OBVIOUS
    <3>2. z.at = "missed" /\ z.q = ask
      BY <3>1
    <3>3. z = [at |-> z.at, q |-> z.q]
      BY <3>1, <3>2, Zenon
    <3>4. Held(z)
      BY <3>2, <3>3 DEF Held
    <3>5. Goes(t, z)
      BY <1>6, <2>3, <3>1, Zenon DEF AskForGraph
    <3>6. QED BY <1>3, <2>1, <3>2, <3>4, <3>5, InvKept
  <2>4. QED BY <2>2, <2>3
<1>7. ASSUME NEW t \in Tasks, RebuildAssigns(t) PROVE RoutingInv'
  <2>1. task[t].at = "rebuilt" /\ task[t] = [at |-> task[t].at, graph |-> task[t].graph]
        /\ IsGraph(task[t].graph)
    BY <1>2, <1>7, HeldFields DEF RebuildAssigns
  <2>2. PICK z : z = [at |-> "storing", graph |-> task[t].graph]
    OBVIOUS
  <2>3. z.at = "storing" /\ z.graph = task[t].graph
    BY <2>2
  <2>4. z = [at |-> z.at, graph |-> z.graph]
    BY <2>2, <2>3, Zenon
  <2>5. Held(z)
    BY <2>1, <2>3, <2>4 DEF Held
  <2>6. [task[t] EXCEPT !.at = "storing"] = z
    <3>1. PICK here : here = task[t]
      OBVIOUS
    <3>2. here = [at |-> here.at, graph |-> here.graph]
      BY <2>1, <3>1
    <3>3. [here EXCEPT !.at = "storing"] = [at |-> "storing", graph |-> here.graph]
      BY <3>2
    <3>4. QED BY <2>2, <3>1, <3>3
  <2>7. Goes(t, z) /\ memory' = task[t].graph /\ UNCHANGED <<row, cachedGraph, cachedQuote>>
    BY <1>7, <2>6, Zenon DEF RebuildAssigns
  <2>8. QED BY <2>1, <2>3, <2>5, <2>7, InvKept
<1>8. ASSUME NEW t \in Tasks, RebuildStores(t) PROVE RoutingInv'
  <2>1. IsGraph(task[t].graph)
    BY <1>2, <1>8, HeldFields DEF RebuildStores
  <2>2. Goes(t, Idle) /\ cachedGraph' = task[t].graph /\ UNCHANGED <<row, memory, cachedQuote>>
    BY <1>8 DEF RebuildStores
  <2>3. Idle.at # "sharing"
    BY DEF Idle
  <2>4. QED BY <2>1, <2>2, <2>3, HeldIdle, InvKept
<1>9. ASSUME NEW t \in Tasks, TakeCopy(t) PROVE RoutingInv'
  <2>1. IsGraph(task[t].graph) /\ task[t].q \in Questions
    BY <1>2, <1>9, HeldFields DEF TakeCopy
  <2>2. PICK g, ask : g = task[t].graph /\ ask = task[t].q /\ ask \in Questions
    BY <2>1
  <2>3. PICK z : z = IF BestQuote(g, g, ask) = NoQuote THEN Idle
                     ELSE [at |-> "quoted", q |-> ask, quote |-> BestQuote(g, g, ask)]
    OBVIOUS
  <2>4. Held(z) /\ z.at # "sharing"
    BY <2>1, <2>2, <2>3, HeldQuoted
  <2>5. Goes(t, z) /\ memory' = g /\ UNCHANGED <<row, cachedGraph, cachedQuote>>
    BY <1>9, <2>2, <2>3, Zenon DEF TakeCopy, Quoted
  <2>6. QED BY <2>1, <2>2, <2>4, <2>5, InvKept
<1>10. ASSUME NEW t \in Tasks, RequestReads(t) PROVE RoutingInv'
  <2>1. task[t].q \in Questions
    BY <1>2, <1>10, HeldFields DEF RequestReads
  <2>2. PICK z : z = [at |-> "built", q |-> task[t].q, graph |-> BuildGraph]
    OBVIOUS
  <2>3. z.at = "built" /\ z.q = task[t].q /\ z.graph = BuildGraph
    BY <2>2
  <2>4. z = [at |-> z.at, q |-> z.q, graph |-> z.graph]
    BY <2>2, <2>3, Zenon
  <2>5. Held(z)
    BY <1>1, <2>1, <2>3, <2>4 DEF Held
  <2>6. Goes(t, z) /\ UNCHANGED <<row, memory, cachedGraph, cachedQuote>>
    BY <1>10, <2>2 DEF RequestReads
  <2>7. QED BY <2>3, <2>5, <2>6, InvKept
<1>11. ASSUME NEW t \in Tasks, RequestAssigns(t) PROVE RoutingInv'
  <2>1. /\ task[t].at = "built"
        /\ task[t] = [at |-> task[t].at, q |-> task[t].q, graph |-> task[t].graph]
        /\ task[t].q \in Questions /\ IsGraph(task[t].graph)
    BY <1>2, <1>11, HeldFields DEF RequestAssigns
  <2>2. PICK z : z = [at |-> "sharing", q |-> task[t].q, graph |-> task[t].graph]
    OBVIOUS
  <2>3. z.at = "sharing" /\ z.q = task[t].q /\ z.graph = task[t].graph
    BY <2>2
  <2>4. z = [at |-> z.at, q |-> z.q, graph |-> z.graph]
    BY <2>2, <2>3, Zenon
  <2>5. Held(z)
    BY <2>1, <2>3, <2>4 DEF Held
  <2>6. [task[t] EXCEPT !.at = "sharing"] = z
    <3>1. PICK here : here = task[t]
      OBVIOUS
    <3>2. here = [at |-> here.at, q |-> here.q, graph |-> here.graph]
      BY <2>1, <3>1
    <3>3. [here EXCEPT !.at = "sharing"] = [at |-> "sharing", q |-> here.q, graph |-> here.graph]
      BY <3>2
    <3>4. QED BY <2>2, <3>1, <3>3
  <2>7. Goes(t, z) /\ memory' = task[t].graph /\ UNCHANGED <<row, cachedGraph, cachedQuote>>
    BY <1>11, <2>6, Zenon DEF RequestAssigns
  <2>8. QED BY <2>1, <2>5, <2>7, InvKept
<1>12. ASSUME NEW t \in Tasks, RequestShares(t) PROVE RoutingInv'
  <2>1. IsGraph(task[t].graph) /\ task[t].q \in Questions
    BY <1>2, <1>12, HeldFields DEF RequestShares
  <2>2. IsGraph(memory)
    BY <1>12 DEF RequestShares, RoutingInv
  <2>3. PICK g, ask : g = task[t].graph /\ ask = task[t].q /\ ask \in Questions
    BY <2>1
  <2>4. PICK z : z = IF BestQuote(g, memory, ask) = NoQuote THEN Idle
                     ELSE [at |-> "quoted", q |-> ask, quote |-> BestQuote(g, memory, ask)]
    OBVIOUS
  <2>5. Held(z) /\ z.at # "sharing"
    BY <2>1, <2>2, <2>3, <2>4, HeldQuoted
  <2>6. Goes(t, z) /\ cachedGraph' = g /\ UNCHANGED <<row, memory, cachedQuote>>
    BY <1>12, <2>3, <2>4, Zenon DEF RequestShares, Quoted
  <2>7. QED BY <2>1, <2>3, <2>5, <2>6, InvKept
<1>13. ASSUME NEW t \in Tasks, QuoteStored(t) PROVE RoutingInv'
  <2>1. task[t].q \in Questions /\ Executable(task[t].quote, task[t].q)
    BY <1>2, <1>13, HeldFields DEF QuoteStored
  <2>2. /\ cachedQuote' = [cachedQuote EXCEPT ![task[t].q] = task[t].quote]
        /\ Goes(t, Idle) /\ UNCHANGED <<row, memory, cachedGraph>>
    BY <1>13 DEF QuoteStored
  <2>3. /\ DOMAIN task' = Tasks
        /\ \A y \in Tasks : Held(task'[y])
        /\ \A y \in Tasks : y # t => task'[y] = task[y]
        /\ task'[t] = Idle
    BY <2>2, HeldIdle, TaskMoves
  <2>4. /\ DOMAIN cachedQuote' = Questions
        /\ \A ask \in Questions : cachedQuote'[ask] = NoQuote \/ Executable(cachedQuote'[ask], ask)
    BY <2>1, <2>2 DEF RoutingInv
  <2>5. ASSUME NEW y \in Tasks, task'[y].at = "sharing" PROVE IsGraph(memory')
    <3>1. y # t
      BY <2>3, <2>5 DEF Idle
    <3>2. QED BY <2>2, <2>3, <2>5, <3>1 DEF RoutingInv
  <2>6. row' \in [Pools -> Row] /\ (GraphOrNone(memory) /\ GraphOrNone(cachedGraph))'
    BY <2>2 DEF RoutingInv, GraphOrNone
  <2>7. (\A y \in Tasks : Held(task[y]))'
    BY <2>3
  <2>8. (\A ask \in Questions : cachedQuote[ask] = NoQuote \/ Executable(cachedQuote[ask], ask))'
    BY <2>4
  <2>9. (\A y \in Tasks : task[y].at = "sharing" => IsGraph(memory))'
    BY <2>5
  <2>10. QED BY <2>3, <2>4, <2>6, <2>7, <2>8, <2>9 DEF RoutingInv
<1>14. ASSUME NEW t \in Tasks, TaskFails(t) PROVE RoutingInv'
  <2>1. Goes(t, Idle) /\ UNCHANGED <<row, memory, cachedGraph, cachedQuote>>
    BY <1>14 DEF TaskFails
  <2>2. Idle.at # "sharing"
    BY DEF Idle
  <2>3. QED BY <2>1, <2>2, HeldIdle, InvKept
<1>15. ASSUME UNCHANGED task, UNCHANGED memory, row' \in [Pools -> Row],
              cachedGraph' = cachedGraph \/ cachedGraph' = NoGraph,
              DOMAIN cachedQuote' = Questions,
              \A ask \in Questions : cachedQuote'[ask] = cachedQuote[ask] \/ cachedQuote'[ask] = NoQuote
       PROVE  RoutingInv'
  <2>1. (GraphOrNone(memory) /\ GraphOrNone(cachedGraph))'
    BY <1>15 DEF RoutingInv, GraphOrNone
  <2>2. (\A ask \in Questions : cachedQuote[ask] = NoQuote \/ Executable(cachedQuote[ask], ask))'
    BY <1>15 DEF RoutingInv
  <2>3. DOMAIN task' = Tasks /\ (\A t \in Tasks : Held(task[t]))'
    BY <1>15 DEF RoutingInv
  <2>4. (\A t \in Tasks : task[t].at = "sharing" => IsGraph(memory))'
    BY <1>15 DEF RoutingInv
  <2>5. QED BY <1>15, <2>1, <2>2, <2>3, <2>4 DEF RoutingInv
<1>16. ASSUME NEW ask \in Questions, ExpireQuote(ask) PROVE RoutingInv'
  <2>1. /\ cachedQuote' = [cachedQuote EXCEPT ![ask] = NoQuote]
        /\ UNCHANGED <<row, memory, cachedGraph, task>>
    BY <1>16 DEF ExpireQuote
  <2>2. DOMAIN cachedQuote = Questions /\ row' \in [Pools -> Row]
    BY <2>1 DEF RoutingInv
  <2>3. QED BY <1>15, <2>1, <2>2
<1>17. CASE ExpireGraph
  BY <1>15, <1>17 DEF ExpireGraph, RoutingInv
<1>18. ASSUME NEW p \in Pools, NEW new \in Changes[p], RowChanges(p, new) PROVE RoutingInv'
  <2>1. new \in Row
    BY MarketAssumption
  <2>2. row' = [row EXCEPT ![p] = new] /\ UNCHANGED <<memory, cachedGraph, cachedQuote, task>>
    BY <1>18 DEF RowChanges
  <2>3. row' \in [Pools -> Row] /\ DOMAIN cachedQuote = Questions
    BY <2>1, <2>2 DEF RoutingInv
  <2>4. QED BY <1>15, <2>2, <2>3
<1>19. CASE Restart
  <2>1. /\ task' = [t \in Tasks |-> Idle] /\ memory' = NoGraph
        /\ UNCHANGED <<row, cachedGraph, cachedQuote>>
    BY <1>19 DEF Restart
  <2>2. \A t \in Tasks : task'[t] = Idle
    BY <2>1
  <2>3. (\A t \in Tasks : Held(task[t]))'
    BY <2>2, HeldIdle
  <2>4. (\A t \in Tasks : task[t].at = "sharing" => IsGraph(memory))'
    BY <2>2 DEF Idle
  <2>5. (GraphOrNone(memory) /\ GraphOrNone(cachedGraph))' /\ DOMAIN task' = Tasks
    BY <2>1 DEF RoutingInv, GraphOrNone
  <2>6. (\A ask \in Questions : cachedQuote[ask] = NoQuote \/ Executable(cachedQuote[ask], ask))'
    BY <2>1 DEF RoutingInv
  <2>7. QED BY <2>1, <2>3, <2>4, <2>5, <2>6 DEF RoutingInv
<1>20. CASE UNCHANGED vars
  BY <1>15, <1>20 DEF vars, RoutingInv
<1>21. QED
  <2>1. ASSUME NEW t \in Requests, NEW ask \in Questions, Ask(t, ask) \/ AskForGraph(t, ask)
        PROVE RoutingInv'
    BY <1>5, <1>6, <2>1
  <2>2. ASSUME NEW t \in Tasks, TaskGoesOn(t) \/ TaskFails(t) PROVE RoutingInv'
    BY <1>7, <1>8, <1>9, <1>10, <1>11, <1>12, <1>13, <1>14, <2>2 DEF TaskGoesOn
  <2>3. QED BY <1>4, <1>16, <1>17, <1>18, <1>19, <1>20, <2>1, <2>2, Zenon DEF RoutingNext

-----------------------------------------------------------------------------
(* What the runs check, for every market, question and bound. *)

\* Whatever tasks, failures, restarts and trades do to each other's graphs,
\* the graphs kept in memory and in Redis and the answers of
\* quote-aggregator.service.ts stay well formed.
THEOREM RoutingAlwaysKept == RoutingSpec => []RoutingInv
<1>1. QED BY RoutingStarts, RoutingStep, PTL DEF RoutingSpec

\* Every answer quote-aggregator.service.ts stores or is about to can be
\* carried out as it was simulated, single routes and splits alike.
THEOREM QuotesAlwaysExecutable == RoutingSpec => []QuoteIsExecutable
<1>1. RoutingInv => QuoteIsExecutable
  <2> SUFFICES ASSUME RoutingInv PROVE QuoteIsExecutable
    OBVIOUS
  <2>1. \A t \in Requests : task[t].at = "quoted" => Executable(task[t].quote, task[t].q)
    BY HeldFields DEF RoutingInv, Tasks
  <2>2. \A ask \in Questions : cachedQuote[ask] # NoQuote => Executable(cachedQuote[ask], ask)
    BY DEF RoutingInv
  <2>3. QED BY <2>1, <2>2 DEF QuoteIsExecutable
<1>2. QED BY <1>1, RoutingAlwaysKept, PTL

\* The search of routing.service.ts finds every path there is, each once, or as
\* many as it may, on every graph that is ever in memory.
THEOREM SearchAlwaysComplete == RoutingSpec => []SearchIsComplete
<1>1. RoutingInv => SearchIsComplete
  <2> SUFFICES ASSUME RoutingInv, memory # NoGraph,
                      NEW ask \in Questions, NEW maxHops \in {MaxHops, SplitHops}
               PROVE  LET found == FindAllPaths(memory, ask.tokenIn, ask.tokenOut, maxHops)
                          paths == {p \in SeqOf(Tokens, maxHops) :
                                       /\ Len(p) > 1
                                       /\ p[1] = ask.tokenIn /\ Last(p) = ask.tokenOut
                                       /\ IsInjective(p)
                                       /\ \A i \in 1..(Len(p) - 1) : Linked(memory, p[i], p[i + 1])}
                      IN  /\ Range(found) \subseteq paths
                          /\ IsInjective(found)
                          /\ Len(found) = FewerOf(Cardinality(paths), MaxRoutes)
    BY Zenon DEF SearchIsComplete
  <2>1. IsGraph(memory)
    BY DEF RoutingInv, GraphOrNone
  <2>2. maxHops \in Nat
    BY RoutingAssumption DEF SplitHops
  <2>3. QED BY <2>1, <2>2, GraphSearchComplete
<1>2. QED BY <1>1, RoutingAlwaysKept, PTL
=============================================================================
