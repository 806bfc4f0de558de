---------------------------- MODULE ProofLemmas ----------------------------
(***************************************************************************)
(* Facts that the proofs of several components cite: products and          *)
(* quotients, induction, recursion on a rank, bounded loops, sums, and     *)
(* what the iterations of StableSwapMath compute.                          *)
(***************************************************************************)
EXTENDS StableSwapMath, Ordering, Integers, FiniteSets, Functions, FiniteSetTheorems,
        WellFoundedInduction, TLAPS

-----------------------------------------------------------------------------
(* Products and quotients. *)

\* Multiplying two inequalities between naturals.
LEMMA ProductsCompare ==
    ASSUME NEW p \in Nat, NEW q \in Nat, NEW m \in Nat, NEW n \in Nat,
           p <= q, m <= n
    PROVE  p * m <= q * n
<1>1. p * m <= q * m
  <2>1. PICK d \in Nat : q = p + d
    <3>1. q - p \in Nat /\ q = p + (q - p)  OBVIOUS
    <3>2. QED BY <3>1
  <2>2. q * m = p * m + d * m  BY <2>1
  <2>3. d * m \in Nat /\ p * m \in Nat  OBVIOUS
  <2>4. QED BY <2>2, <2>3
<1>2. q * m <= q * n
  <2>1. PICK d \in Nat : n = m + d
    <3>1. n - m \in Nat /\ n = m + (n - m)  OBVIOUS
    <3>2. QED BY <3>1
  <2>2. q * n = q * m + q * d  BY <2>1
  <2>3. q * d \in Nat /\ q * m \in Nat  OBVIOUS
  <2>4. QED BY <2>2, <2>3
<1>3. p * m \in Nat /\ q * m \in Nat /\ q * n \in Nat  OBVIOUS
<1>4. QED BY <1>1, <1>2, <1>3

\* A positive factor can be cancelled from an inequality.
LEMMA Cancel ==
    ASSUME NEW c \in Nat, c > 0, NEW p \in Nat, NEW q \in Nat,
           p * c <= q * c
    PROVE  p <= q
<1> SUFFICES ASSUME q < p PROVE FALSE
  OBVIOUS
<1>1. q + 1 \in Nat /\ q + 1 <= p  OBVIOUS
<1>2. (q + 1) * c <= p * c  BY <1>1, ProductsCompare
<1>3. (q + 1) * c = q * c + c  OBVIOUS
<1>4. q * c \in Nat /\ p * c \in Nat  OBVIOUS
<1>5. QED BY <1>2, <1>3, <1>4

\* A product of positive naturals is one.
LEMMA ProductPositive ==
    ASSUME NEW m \in Nat \ {0}, NEW n \in Nat \ {0}
    PROVE  m * n \in Nat \ {0}
<1>1. 1 * 1 <= m * n
  BY ProductsCompare
<1>2. QED BY <1>1

\* If a reserve per share falls on neither side, the backing of s shares by the
\* product x * y carries over to s1 shares and x1 * y1.
LEMMA BackingScales ==
    ASSUME NEW x \in Nat, NEW y \in Nat, NEW s \in Nat, s > 0,
           NEW x1 \in Nat, NEW y1 \in Nat, NEW s1 \in Nat,
           s * s <= x * y,
           x * s1 <= x1 * s,
           y * s1 <= y1 * s
    PROVE  s1 * s1 <= x1 * y1
<1>1. /\ x * s1 \in Nat /\ x1 * s \in Nat /\ y * s1 \in Nat /\ y1 * s \in Nat
      /\ x * y \in Nat /\ s * s \in Nat /\ s1 * s1 \in Nat /\ x1 * y1 \in Nat
  OBVIOUS
<1>2. (x * s1) * (y * s1) <= (x1 * s) * (y1 * s)
  BY <1>1, ProductsCompare
<1>3. (s * s) * (s1 * s1) <= (x * y) * (s1 * s1)
  BY <1>1, ProductsCompare
<1>4. (x * s1) * (y * s1) = (x * y) * (s1 * s1)
  OBVIOUS
<1>5. (x1 * s) * (y1 * s) = (x1 * y1) * (s * s)
  OBVIOUS
<1>6. (s1 * s1) * (s * s) = (s * s) * (s1 * s1)
  OBVIOUS
<1>7. /\ (s1 * s1) * (s * s) \in Nat /\ (x * y) * (s1 * s1) \in Nat
      /\ (x1 * y1) * (s * s) \in Nat
  BY <1>1
<1>8. (s1 * s1) * (s * s) <= (x1 * y1) * (s * s)
  BY <1>2, <1>3, <1>4, <1>5, <1>6, <1>7
<1>9. s * s > 0
  OBVIOUS
<1>10. QED BY <1>1, <1>8, <1>9, Cancel

\* What rounding a quotient down leaves.
LEMMA Rounded ==
    ASSUME NEW n \in Nat, NEW d \in Nat, d > 0
    PROVE  /\ n \div d \in Nat
           /\ (n \div d) * d <= n
           /\ n < (n \div d) * d + d
OBVIOUS

-----------------------------------------------------------------------------
(* Induction, with a set in the place of a predicate: a set of naturals has  *)
(* a least element because < is well founded.                                *)

\* A set of naturals has a least element.
LEMMA LeastNatural ==
    ASSUME NEW T \in SUBSET Nat, T # {}
    PROVE  \E x \in T : \A y \in T : x <= y
<1> DEFINE R == OpToRel(<, Nat)
<1>1. IsWellFoundedOn(R, Nat)
  BY NatLessThanWellFounded
<1> HIDE DEF R
<1>2. PICK x \in T : \A y \in T : ~ (<<y, x>> \in R)
  BY <1>1, WFMin
<1>3. \A y \in T : y < x => <<y, x>> \in R
  BY DEF R, OpToRel
<1>4. \A y \in T : x <= y
  <2>1. TAKE y \in T
  <2>2. x \in Nat /\ y \in Nat /\ ~(y < x)
    BY <1>2, <1>3
  <2>3. QED BY <2>2
<1>5. QED BY <1>4

\* Induction over the naturals, for a set in the place of a predicate.
LEMMA InductiveSet ==
    ASSUME NEW S, 0 \in S, \A n \in Nat : n \in S => n + 1 \in S
    PROVE  Nat \subseteq S
<1> DEFINE T == Nat \ S
<1>1. SUFFICES ASSUME T # {} PROVE FALSE
  OBVIOUS
<1>2. PICK x \in T : \A y \in T : x <= y
  BY <1>1, LeastNatural
<1>3. x \in Nat /\ x # 0 /\ x - 1 \in Nat
  BY <1>2
<1>4. x - 1 \notin T
  BY <1>2, <1>3
<1>5. QED BY <1>2, <1>3, <1>4

\* Induction over the subsets of a finite set: a family that holds each subset
\* of which it holds all those with one element less has them all.
LEMMA InductiveFamily ==
    ASSUME NEW S, IsFiniteSet(S), NEW F,
           \A T \in SUBSET S : (\A x \in T : T \ {x} \in F) => T \in F
    PROVE  SUBSET S \subseteq F
<1> DEFINE N == {n \in Nat : \A T \in SUBSET S : Cardinality(T) = n => T \in F}
<1>1. \A T \in SUBSET S : IsFiniteSet(T) /\ Cardinality(T) \in Nat
  BY FS_Subset, FS_CardinalityType
<1>2. 0 \in N
  <2>1. \A T \in SUBSET S : Cardinality(T) = 0 => T = {}
    BY <1>1, FS_EmptySet
  <2>2. {} \in F
    OBVIOUS
  <2>3. QED BY <2>1, <2>2
<1>3. ASSUME NEW n \in Nat, n \in N
      PROVE  n + 1 \in N
  <2>1. SUFFICES ASSUME NEW T \in SUBSET S, Cardinality(T) = n + 1
                 PROVE  T \in F
    OBVIOUS
  <2>2. ASSUME NEW x \in T
        PROVE  T \ {x} \in F
    <3>1. Cardinality(T \ {x}) = Cardinality(T) - 1
      BY <1>1, FS_RemoveElement
    <3>2. QED BY <1>3, <2>1, <3>1
  <2>3. QED BY <2>2
<1>4. Nat \subseteq N
  <2>1. \A n \in Nat : n \in N => n + 1 \in N
    BY <1>3
  <2> HIDE DEF N
  <2>2. QED BY <1>2, <2>1, InductiveSet
<1>5. QED BY <1>1, <1>4

-----------------------------------------------------------------------------
(* Recursion on a rank. *)

\* What holds at a place when it holds at all those of lower rank, holds.
LEMMA RankInduction ==
    ASSUME NEW S, NEW rank \in [S -> Nat], NEW T,
           \A s \in S : (\A z \in S : rank[z] < rank[s] => z \in T) => s \in T
    PROVE  S \subseteq T
<1> DEFINE N == {n \in Nat : \A s \in S : rank[s] < n => s \in T}
<1>1. 0 \in N
  OBVIOUS
<1>2. ASSUME NEW n \in Nat, n \in N PROVE n + 1 \in N
  <2>1. ASSUME NEW s \in S, rank[s] < n + 1 PROVE s \in T
    <3>1. \A z \in S : rank[z] < rank[s] => rank[z] < n
      BY <2>1
    <3>2. QED BY <1>2, <3>1
  <2>2. QED BY <2>1
<1>3. Nat \subseteq N
  <2>1. \A n \in Nat : n \in N => n + 1 \in N
    BY <1>2
  <2> HIDE DEF N
  <2>2. QED BY <1>1, <2>1, InductiveSet
<1>4. ASSUME NEW s \in S PROVE s \in T
  <2>1. rank[s] + 1 \in N /\ rank[s] < rank[s] + 1
    BY <1>3
  <2>2. QED BY <2>1
<1>5. QED BY <1>4

\* Body[f] is a function whose values at a place depend on those of f at places
\* of lower rank,
IsRecursion(S, V, rank, Body) ==
    /\ rank \in [S -> Nat]
    /\ Body \in [[S -> V] -> [S -> V]]
    /\ \A f, h \in [S -> V], s \in S :
          (\A z \in S : rank[z] < rank[s] => f[z] = h[z]) => Body[f][s] = Body[h][s]

\* and then there is a function that Body leaves as it is.
LEMMA RankedRecursion ==
    ASSUME NEW S, NEW V, NEW rank, NEW Body, V # {}, IsRecursion(S, V, rank, Body)
    PROVE  \E f \in [S -> V] : f = Body[f]
<1>0. /\ rank \in [S -> Nat]
      /\ Body \in [[S -> V] -> [S -> V]]
      /\ \A f, h \in [S -> V], s \in S :
            (\A z \in S : rank[z] < rank[s] => f[z] = h[z]) => Body[f][s] = Body[h][s]
  BY DEF IsRecursion
<1> DEFINE Meets(f, n) == \A s \in S : rank[s] < n => f[s] = Body[f][s]
           N == {n \in Nat : \E f \in [S -> V] : Meets(f, n)}
<1>1. 0 \in N
  <2>1. PICK v \in V : TRUE
    BY <1>0
  <2>2. PICK f \in [S -> V] : f = [s \in S |-> v]
    BY <1>0, <2>1
  <2>3. \A s \in S : ~(rank[s] < 0)
    BY <1>0
  <2>4. Meets(f, 0)
    BY <1>0, <2>3
  <2> HIDE DEF Meets
  <2>5. QED BY <1>0, <2>4
<1>2. ASSUME NEW n \in Nat, n \in N PROVE n + 1 \in N
  <2>1. PICK f \in [S -> V] : Meets(f, n)
    BY <1>0, <1>2
  <2>2. PICK h \in [S -> V] : h = Body[f]
    BY <1>0
  <2>3. ASSUME NEW s \in S, rank[s] < n + 1 PROVE h[s] = Body[h][s]
    <3>1. \A z \in S : rank[z] < rank[s] => f[z] = h[z]
      BY <1>0, <2>1, <2>2, <2>3
    <3>2. QED BY <1>0, <2>2, <3>1
  <2>4. Meets(h, n + 1)
    BY <1>0, <2>3
  <2> HIDE DEF Meets
  <2>5. QED BY <1>0, <2>4
<1>3. Nat \subseteq N
  <2>1. \A n \in Nat : n \in N => n + 1 \in N
    BY <1>0, <1>2
  <2> HIDE DEF N
  <2>2. QED BY <1>0, <1>1, <2>1, InductiveSet
<1>4. ASSUME NEW f \in [S -> V], NEW h \in [S -> V], NEW n \in Nat, NEW k \in Nat,
             Meets(f, n), Meets(h, k), NEW s \in S, rank[s] < n, rank[s] < k
      PROVE  f[s] = h[s]
  <2> DEFINE T == {z \in S : rank[z] < n /\ rank[z] < k => f[z] = h[z]}
  <2>1. ASSUME NEW z \in S, \A y \in S : rank[y] < rank[z] => y \in T
        PROVE  z \in T
    <3> SUFFICES ASSUME rank[z] < n, rank[z] < k PROVE f[z] = h[z]
      BY <1>0
    <3>1. \A y \in S : rank[y] < rank[z] => f[y] = h[y]
      BY <1>0, <2>1
    <3>2. Body[f][z] = Body[h][z]
      BY <1>0, <3>1
    <3>3. f[z] = Body[f][z] /\ h[z] = Body[h][z]
      BY <1>0, <1>4
    <3>4. QED BY <1>0, <3>2, <3>3
  <2>2. S \subseteq T
    <3>1. \A z \in S : (\A y \in S : rank[y] < rank[z] => y \in T) => z \in T
      BY <1>0, <2>1
    <3> HIDE DEF T
    <3>2. QED BY <1>0, <3>1, RankInduction
  <2>3. QED BY <1>0, <1>4, <2>2
<1> DEFINE Until(n) == CHOOSE f \in [S -> V] : Meets(f, n)
<1>5. \A n \in Nat : Until(n) \in [S -> V] /\ Meets(Until(n), n)
  <2>1. \A n \in Nat : \E f \in [S -> V] : Meets(f, n)
    BY <1>0, <1>3
  <2> HIDE DEF Meets
  <2>2. QED BY <1>0, <2>1
<1> HIDE DEF Until
<1> DEFINE g == [s \in S |-> Until(rank[s] + 1)[s]]
<1>6. g \in [S -> V]
  <2>1. \A s \in S : rank[s] + 1 \in Nat
    BY <1>0
  <2> HIDE DEF Meets
  <2>2. \A s \in S : Until(rank[s] + 1)[s] \in V
    BY <1>0, <1>5, <2>1
  <2>3. QED BY <1>0, <2>2
<1>7. ASSUME NEW s \in S PROVE g[s] = Body[g][s]
  <2>1. PICK f \in [S -> V] : Meets(f, rank[s] + 1) /\ g[s] = f[s]
    <3>1. rank[s] + 1 \in Nat /\ g[s] = Until(rank[s] + 1)[s]
      BY <1>0
    <3> HIDE DEF Meets, g
    <3>2. QED BY <1>0, <1>5, <3>1
  <2>2. ASSUME NEW z \in S, rank[z] < rank[s] PROVE g[z] = f[z]
    <3>0. rank[z] + 1 \in Nat /\ g[z] = Until(rank[z] + 1)[z]
      BY <1>0
    <3> HIDE DEF Meets, g
    <3>1. PICK h \in [S -> V] : Meets(h, rank[z] + 1) /\ g[z] = h[z]
      BY <1>0, <1>5, <3>0
    <3>2. rank[z] < rank[z] + 1 /\ rank[z] < rank[s] + 1 /\ rank[z] + 1 \in Nat /\ rank[s] + 1 \in Nat
      BY <1>0, <2>2
    <3>3. QED BY <1>0, <1>4, <2>1, <3>1, <3>2
  <2>3. Body[g][s] = Body[f][s]
    <3> HIDE DEF g
    <3>1. QED BY <1>0, <1>6, <2>2
  <2>4. f[s] = Body[f][s]
    BY <1>0, <2>1
  <2>5. QED BY <1>0, <2>1, <2>3, <2>4
<1>8. g = Body[g]
  <2> HIDE DEF g
  <2>1. Body[g] \in [S -> V]
    BY <1>0, <1>6
  <2>2. QED BY <1>0, <1>6, <1>7, <2>1
<1>9. QED BY <1>0, <1>6, <1>8

-----------------------------------------------------------------------------
(* Bounded loops.  One replaces a value by next[value] until the value is one *)
(* of ends or the rounds are used up, and returns the value it computed last; *)
(* a run of it is a recursive function of the round and the value.            *)

LoopStates(next, rounds) == [round : 1..rounds, value : DOMAIN next]

StateAt(k, v) == [round |-> k, value |-> v]

IsRun(f, next, rounds, ends) ==
    f = [s \in LoopStates(next, rounds) |->
            IF s.round = rounds \/ s.value \in ends THEN next[s.value]
            ELSE f[StateAt(s.round + 1, next[s.value])]]

LEMMA RunExists ==
    ASSUME NEW next, NEW rounds \in Nat \ {0}, NEW ends,
           \A v \in DOMAIN next : v \notin ends => next[v] \in DOMAIN next
    PROVE  \E f : IsRun(f, next, rounds, ends)
<1> DEFINE Dom == LoopStates(next, rounds)
           Val(f, s) == IF s.round = rounds \/ s.value \in ends THEN next[s.value]
                        ELSE f[StateAt(s.round + 1, next[s.value])]
           N == {n \in Nat : \E f : \A s \in Dom :
                    rounds - s.round <= n => f[s] = Val(f, s)}
<1>1. \A s \in Dom : /\ s.round \in 1..rounds
                     /\ s.round = rounds \/ s.value \in ends
                        \/ StateAt(s.round + 1, next[s.value]) \in Dom
  BY DEF LoopStates, StateAt
<1>2. \A s : StateAt(s.round + 1, next[s.value]).round = s.round + 1
  BY DEF StateAt
<1> HIDE DEF Dom
<1>3. 0 \in N
  <2> DEFINE z == [s \in Dom |-> next[s.value]]
  <2>1. \A s \in Dom : rounds - s.round <= 0 => z[s] = Val(z, s)
    BY <1>1
  <2> HIDE DEF z
  <2>2. QED BY <2>1
<1>4. ASSUME NEW n \in Nat, n \in N
      PROVE  n + 1 \in N
  <2>1. PICK f : \A s \in Dom : rounds - s.round <= n => f[s] = Val(f, s)
    BY <1>4
  <2> DEFINE h == [s \in Dom |-> IF rounds - s.round <= n THEN f[s] ELSE Val(f, s)]
  <2>2. ASSUME NEW s \in Dom, rounds - s.round <= n + 1
        PROVE  h[s] = Val(h, s)
    <3>1. h[s] = Val(f, s)
      BY <2>1
    <3>2. CASE s.round = rounds \/ s.value \in ends
      BY <3>1, <3>2
    <3>3. CASE ~(s.round = rounds \/ s.value \in ends)
      <4>1. PICK t \in Dom : /\ t = StateAt(s.round + 1, next[s.value])
                             /\ t.round = s.round + 1
        BY <1>1, <1>2, <3>3
      <4>2. rounds - t.round <= n
        BY <1>1, <2>2, <4>1
      <4>3. h[t] = f[t]
        BY <4>2
      <4> HIDE DEF h
      <4>4. QED BY <3>1, <3>3, <4>1, <4>3
    <3>4. QED BY <3>2, <3>3
  <2> HIDE DEF h
  <2>3. QED BY <2>2
<1>5. Nat \subseteq N
  <2>1. \A n \in Nat : n \in N => n + 1 \in N
    BY <1>4
  <2> HIDE DEF N
  <2>2. QED BY <1>3, <2>1, InductiveSet
<1>6. PICK f : \A s \in Dom : rounds - s.round <= rounds => f[s] = Val(f, s)
  BY <1>5
<1>7. \A s \in Dom : f[s] = Val(f, s)
  BY <1>1, <1>6
<1> DEFINE g == [s \in Dom |-> f[s]]
<1>8. \A s \in Dom : g[s] = Val(g, s)
  <2>1. \A s \in Dom : g[s] = f[s]
    OBVIOUS
  <2> HIDE DEF g
  <2>2. QED BY <1>1, <1>7, <2>1
<1>9. g = [s \in Dom |-> Val(g, s)]
  <2>1. g = [s \in Dom |-> g[s]]
    OBVIOUS
  <2> HIDE DEF g, Val
  <2>2. QED BY <1>8, <2>1
<1> HIDE DEF g
<1>10. QED BY <1>9 DEF IsRun, Dom

\* What a loop returns is next of a value it has met.
LEMMA RunResult ==
    ASSUME NEW next, NEW rounds \in Nat \ {0}, NEW ends, NEW f,
           IsRun(f, next, rounds, ends),
           NEW Good, Good \subseteq DOMAIN next,
           \A v \in Good : v \notin ends => next[v] \in Good,
           NEW start \in Good
    PROVE  \E v \in Good : f[StateAt(1, start)] = next[v]
<1> DEFINE N == {n \in Nat : \A k \in 1..rounds, v \in Good : rounds - k <= n =>
                    \E w \in Good : f[StateAt(k, v)] = next[w]}
<1>1. \A k \in 1..rounds, v \in Good :
         f[StateAt(k, v)] = IF k = rounds \/ v \in ends THEN next[v]
                            ELSE f[StateAt(k + 1, next[v])]
  <2>1. ASSUME NEW k \in 1..rounds, NEW v \in Good
        PROVE  f[StateAt(k, v)] = IF k = rounds \/ v \in ends THEN next[v]
                                  ELSE f[StateAt(k + 1, next[v])]
    <3> DEFINE s == StateAt(k, v)
    <3>1. s \in LoopStates(next, rounds) /\ s.round = k /\ s.value = v
      <4>1. v \in DOMAIN next
        OBVIOUS
      <4>2. QED BY <4>1 DEF LoopStates, StateAt
    <3> HIDE DEF s
    <3>2. f[s] = IF s.round = rounds \/ s.value \in ends THEN next[s.value]
                 ELSE f[StateAt(s.round + 1, next[s.value])]
      BY <3>1 DEF IsRun
    <3>3. QED BY <3>1, <3>2 DEF s
  <2>2. QED BY <2>1
<1>2. 0 \in N
  BY <1>1
<1>3. ASSUME NEW n \in Nat, n \in N
      PROVE  n + 1 \in N
  <2>1. ASSUME NEW k \in 1..rounds, NEW v \in Good, rounds - k <= n + 1
        PROVE  \E w \in Good : f[StateAt(k, v)] = next[w]
    <3>1. CASE k = rounds \/ v \in ends
      BY <1>1, <3>1
    <3>2. CASE ~(k = rounds \/ v \in ends)
      <4>1. k + 1 \in 1..rounds /\ rounds - (k + 1) <= n /\ next[v] \in Good
        BY <2>1, <3>2
      <4>2. \E w \in Good : f[StateAt(k + 1, next[v])] = next[w]
        BY <1>3, <4>1
      <4>3. QED BY <1>1, <3>2, <4>2
    <3>3. QED BY <3>1, <3>2
  <2>2. QED BY <2>1
<1>4. Nat \subseteq N
  <2>1. \A n \in Nat : n \in N => n + 1 \in N
    BY <1>3
  <2> HIDE DEF N
  <2>2. QED BY <1>2, <2>1, InductiveSet
<1>5. rounds \in N
  BY <1>4
<1>6. 1 \in 1..rounds /\ rounds - 1 <= rounds
  OBVIOUS
<1>7. QED BY <1>5, <1>6

\* A loop that gets closer to its ends with every round, by a distance that is
\* less than its rounds at the start, ends at one of them.
LEMMA RunSettles ==
    ASSUME NEW next, NEW rounds \in Nat \ {0}, NEW ends, NEW f,
           IsRun(f, next, rounds, ends),
           NEW Good, Good \subseteq DOMAIN next, NEW left \in [Good -> Nat],
           \A v \in Good : v \notin ends => next[v] \in Good /\ left[next[v]] < left[v],
           NEW start \in Good, left[start] < rounds
    PROVE  \E v \in Good : v \in ends /\ f[StateAt(1, start)] = next[v]
<1> DEFINE N == {n \in Nat : \A k \in 1..rounds, v \in Good :
                    left[v] <= n /\ left[v] + k <= rounds =>
                        \E w \in Good : w \in ends /\ f[StateAt(k, v)] = next[w]}
<1>1. \A k \in 1..rounds, v \in Good :
         f[StateAt(k, v)] = IF k = rounds \/ v \in ends THEN next[v]
                            ELSE f[StateAt(k + 1, next[v])]
  <2>1. ASSUME NEW k \in 1..rounds, NEW v \in Good
        PROVE  f[StateAt(k, v)] = IF k = rounds \/ v \in ends THEN next[v]
                                  ELSE f[StateAt(k + 1, next[v])]
    <3> DEFINE s == StateAt(k, v)
    <3>1. s \in LoopStates(next, rounds) /\ s.round = k /\ s.value = v
      <4>1. v \in DOMAIN next
        OBVIOUS
      <4>2. QED BY <4>1 DEF LoopStates, StateAt
    <3> HIDE DEF s
    <3>2. f[s] = IF s.round = rounds \/ s.value \in ends THEN next[s.value]
                 ELSE f[StateAt(s.round + 1, next[s.value])]
      BY <3>1 DEF IsRun
    <3>3. QED BY <3>1, <3>2 DEF s
  <2>2. QED BY <2>1
<1>2. \A v \in Good : left[v] \in Nat /\ (left[v] = 0 => v \in ends)
  OBVIOUS
<1>3. 0 \in N
  BY <1>1, <1>2
<1>4. ASSUME NEW n \in Nat, n \in N
      PROVE  n + 1 \in N
  <2>1. ASSUME NEW k \in 1..rounds, NEW v \in Good,
               left[v] <= n + 1, left[v] + k <= rounds
        PROVE  \E w \in Good : w \in ends /\ f[StateAt(k, v)] = next[w]
    <3>1. CASE v \in ends
      BY <1>1, <3>1
    <3>2. CASE v \notin ends
      <4>1. next[v] \in Good /\ left[next[v]] < left[v]
        BY <3>2
      <4>2. left[next[v]] <= n /\ left[next[v]] + (k + 1) <= rounds /\ k # rounds
            /\ k + 1 \in 1..rounds
        BY <1>2, <2>1, <3>2, <4>1
      <4>3. \E w \in Good : w \in ends /\ f[StateAt(k + 1, next[v])] = next[w]
        BY <1>4, <4>1, <4>2
      <4>4. QED BY <1>1, <3>2, <4>2, <4>3
    <3>3. QED BY <3>1, <3>2
  <2>2. QED BY <2>1
<1>5. Nat \subseteq N
  <2>1. \A n \in Nat : n \in N => n + 1 \in N
    BY <1>4
  <2> HIDE DEF N
  <2>2. QED BY <1>3, <2>1, InductiveSet
<1>6. left[start] \in N /\ 1 \in 1..rounds /\ left[start] + 1 <= rounds
  BY <1>2, <1>5
<1>7. QED BY <1>2, <1>6

\* Two loops do the same to the values they meet, those of Good.
SameRounds(next, ends, next2, ends2, Good) ==
    /\ Good \subseteq DOMAIN next /\ Good \subseteq DOMAIN next2
    /\ \A v \in Good : /\ v \notin ends => next[v] \in Good
                       /\ next2[v] = next[v]
                       /\ v \in ends2 <=> v \in ends

\* Then they return the same.
LEMMA RunsAgree ==
    ASSUME NEW next, NEW rounds \in Nat \ {0}, NEW ends, NEW f,
           IsRun(f, next, rounds, ends),
           NEW next2, NEW ends2, NEW f2, IsRun(f2, next2, rounds, ends2),
           NEW Good, SameRounds(next, ends, next2, ends2, Good),
           NEW start \in Good
    PROVE  f2[StateAt(1, start)] = f[StateAt(1, start)]
<1> USE DEF SameRounds
<1> DEFINE N == {n \in Nat : \A k \in 1..rounds, v \in Good : rounds - k <= n =>
                    f2[StateAt(k, v)] = f[StateAt(k, v)]}
<1>1. \A k \in 1..rounds, v \in Good :
         /\ f[StateAt(k, v)] = IF k = rounds \/ v \in ends THEN next[v]
                               ELSE f[StateAt(k + 1, next[v])]
         /\ f2[StateAt(k, v)] = IF k = rounds \/ v \in ends THEN next[v]
                                ELSE f2[StateAt(k + 1, next[v])]
  <2>1. ASSUME NEW k \in 1..rounds, NEW v \in Good
        PROVE  /\ f[StateAt(k, v)] = IF k = rounds \/ v \in ends THEN next[v]
                                     ELSE f[StateAt(k + 1, next[v])]
               /\ f2[StateAt(k, v)] = IF k = rounds \/ v \in ends THEN next[v]
                                      ELSE f2[StateAt(k + 1, next[v])]
    <3> DEFINE s == StateAt(k, v)
    <3>1. s \in LoopStates(next, rounds) /\ s.round = k /\ s.value = v
      <4>1. v \in DOMAIN next
        OBVIOUS
      <4>2. QED BY <4>1 DEF LoopStates, StateAt
    <3> HIDE DEF s
    <3>2. s \in LoopStates(next2, rounds)
      <4>1. v \in DOMAIN next2
        OBVIOUS
      <4>2. QED BY <4>1 DEF LoopStates, StateAt, s
    <3>3. f[s] = IF s.round = rounds \/ s.value \in ends THEN next[s.value]
                 ELSE f[StateAt(s.round + 1, next[s.value])]
      BY <3>1 DEF IsRun
    <3>4. f2[s] = IF s.round = rounds \/ s.value \in ends2 THEN next2[s.value]
                  ELSE f2[StateAt(s.round + 1, next2[s.value])]
      BY <3>2 DEF IsRun
    <3>5. QED BY <3>1, <3>3, <3>4 DEF s
  <2>2. QED BY <2>1
<1>2. 0 \in N
  BY <1>1
<1>3. ASSUME NEW n \in Nat, n \in N
      PROVE  n + 1 \in N
  <2>1. ASSUME NEW k \in 1..rounds, NEW v \in Good, rounds - k <= n + 1
        PROVE  f2[StateAt(k, v)] = f[StateAt(k, v)]
    <3>1. CASE k = rounds \/ v \in ends
      BY <1>1, <3>1
    <3>2. CASE ~(k = rounds \/ v \in ends)
      <4>1. k + 1 \in 1..rounds /\ rounds - (k + 1) <= n /\ next[v] \in Good
        BY <2>1, <3>2
      <4>2. f2[StateAt(k + 1, next[v])] = f[StateAt(k + 1, next[v])]
        BY <1>3, <4>1
      <4>3. QED BY <1>1, <3>2, <4>2
    <3>3. QED BY <3>1, <3>2
  <2>2. QED BY <2>1
<1>4. Nat \subseteq N
  <2>1. \A n \in Nat : n \in N => n + 1 \in N
    BY <1>3
  <2> HIDE DEF N
  <2>2. QED BY <1>2, <2>1, InductiveSet
<1>5. rounds \in N
  BY <1>4
<1>6. 1 \in 1..rounds /\ rounds - 1 <= rounds
  OBVIOUS
<1>7. QED BY <1>5, <1>6

-----------------------------------------------------------------------------
(* Sums: SumFunctionOnSet is a recursion over the subsets of a set, whose    *)
(* result does not depend on the order in which the elements are taken.      *)

\* What a sum over the subsets of S is: nothing for the empty one, and for the
\* others one chosen element more than for the rest.
Chosen(T) == CHOOSE x \in T : TRUE

IsSum(g, f, S) ==
    g = [T \in SUBSET S |-> IF T = {} THEN 0 ELSE f[Chosen(T)] + g[T \ {Chosen(T)}]]

LEMMA SumDefinition ==
    ASSUME NEW f, NEW S
    PROVE  SumFunctionOnSet(f, S) = (CHOOSE g : IsSum(g, f, S))[S]
BY Zenon DEF SumFunctionOnSet, FoldFunctionOnSet, MapThenFoldSet, IsSum, Chosen

LEMMA ChosenIn == ASSUME NEW T, T # {} PROVE Chosen(T) \in T
BY DEF Chosen

\* The sums over the subsets of a finite set of integers exist.
LEMMA SumExists ==
    ASSUME NEW S, IsFiniteSet(S), NEW f, \A x \in S : f[x] \in Int
    PROVE  \E g \in [SUBSET S -> Int] : IsSum(g, f, S)
<1> DEFINE Val(g, T) == IF T = {} THEN 0 ELSE f[Chosen(T)] + g[T \ {Chosen(T)}]
           N == {n \in Nat : \E g \in [SUBSET S -> Int] :
                    \A T \in SUBSET S : Cardinality(T) <= n => g[T] = Val(g, T)}
<1>1. \A T \in SUBSET S : IsFiniteSet(T) /\ Cardinality(T) \in Nat
  BY FS_Subset, FS_CardinalityType
<1>2. \A T \in SUBSET S : T # {} =>
         /\ Chosen(T) \in S /\ T \ {Chosen(T)} \in SUBSET S
         /\ Cardinality(T \ {Chosen(T)}) = Cardinality(T) - 1
  BY <1>1, ChosenIn, FS_RemoveElement
<1>3. \A T \in SUBSET S : Cardinality(T) <= 0 => T = {}
  BY <1>1, FS_EmptySet
<1>4. 0 \in N
  <2> DEFINE z == [T \in SUBSET S |-> 0]
  <2>1. z \in [SUBSET S -> Int]
    OBVIOUS
  <2>2. \A T \in SUBSET S : Cardinality(T) <= 0 => z[T] = Val(z, T)
    BY <1>3
  <2>3. QED BY <2>1, <2>2
<1>5. ASSUME NEW n \in Nat, n \in N
      PROVE  n + 1 \in N
  <2>1. PICK g \in [SUBSET S -> Int] :
           \A T \in SUBSET S : Cardinality(T) <= n => g[T] = Val(g, T)
    BY <1>5
  <2> DEFINE h == [T \in SUBSET S |-> IF Cardinality(T) <= n THEN g[T] ELSE Val(g, T)]
  <2>2. ASSUME NEW T \in SUBSET S
        PROVE  Val(g, T) \in Int
    <3>1. CASE T = {}
      BY <3>1
    <3>2. CASE T # {}
      <4>1. f[Chosen(T)] \in Int /\ g[T \ {Chosen(T)}] \in Int
        BY <1>2, <3>2
      <4>2. QED BY <3>2, <4>1
    <3>3. QED BY <3>1, <3>2
  <2>3. h \in [SUBSET S -> Int]
    BY <2>2
  <2>4. ASSUME NEW T \in SUBSET S, Cardinality(T) <= n + 1
        PROVE  h[T] = Val(h, T)
    <3>1. CASE T = {}
      BY <2>1, <3>1
    <3>2. CASE T # {}
      <4>1. Cardinality(T \ {Chosen(T)}) <= n /\ T \ {Chosen(T)} \in SUBSET S
        BY <1>1, <1>2, <2>4, <3>2
      <4>2. h[T \ {Chosen(T)}] = g[T \ {Chosen(T)}]
        BY <4>1
      <4>3. Val(h, T) = Val(g, T)
        BY <3>2, <4>2
      <4>4. h[T] = Val(g, T)
        BY <2>1
      <4>5. QED BY <4>3, <4>4
    <3>3. QED BY <3>1, <3>2
  <2>5. \A T \in SUBSET S : Cardinality(T) <= n + 1 => h[T] = Val(h, T)
    BY <2>4
  <2>6. \E k \in [SUBSET S -> Int] :
           \A T \in SUBSET S : Cardinality(T) <= n + 1 => k[T] = Val(k, T)
    <3> HIDE DEF h, Val
    <3>1. QED BY <2>3, <2>5, Zenon
  <2> HIDE DEF Val
  <2>7. QED BY <2>6
<1>6. Nat \subseteq N
  <2>1. \A n \in Nat : n \in N => n + 1 \in N
    BY <1>5
  <2> HIDE DEF N
  <2>2. QED BY <1>4, <2>1, InductiveSet
<1>7. PICK g \in [SUBSET S -> Int] :
         \A T \in SUBSET S : Cardinality(T) <= Cardinality(S) => g[T] = Val(g, T)
  BY <1>1, <1>6
<1>8. \A T \in SUBSET S : Cardinality(T) <= Cardinality(S)
  BY FS_Subset
<1>9. g = [T \in SUBSET S |-> Val(g, T)]
  BY <1>7, <1>8
<1>10. QED BY <1>9 DEF IsSum

\* The sum over a finite set of integers: an integer, nothing for the empty set,
\* and one chosen element more than the rest.
LEMMA SumAt ==
    ASSUME NEW S, IsFiniteSet(S), NEW f, \A x \in S : f[x] \in Int
    PROVE  /\ SumFunctionOnSet(f, S) \in Int
           /\ S = {} => SumFunctionOnSet(f, S) = 0
           /\ S # {} => SumFunctionOnSet(f, S)
                            = f[Chosen(S)] + SumFunctionOnSet(f, S \ {Chosen(S)})
<1>1. PICK g \in [SUBSET S -> Int] : IsSum(g, f, S)
  BY SumExists
<1>2. ASSUME NEW T \in SUBSET S
      PROVE  SumFunctionOnSet(f, T) = g[T]
  <2>1. IsFiniteSet(T)
    BY FS_Subset
  <2>2. \E h : IsSum(h, f, T)
    BY <2>1, SumExists
  <2> DEFINE h == CHOOSE h : IsSum(h, f, T)
  <2>3. IsSum(h, f, T)
    BY <2>2
  <2>4. SumFunctionOnSet(f, T) = h[T]
    BY SumDefinition
  <2> HIDE DEF h
  <2> DEFINE F == {U \in SUBSET T : h[U] = g[U]}
  <2>5. ASSUME NEW U \in SUBSET T, \A x \in U : U \ {x} \in F
        PROVE  U \in F
    <3>1. U \in SUBSET S
      OBVIOUS
    <3>2. /\ h[U] = IF U = {} THEN 0 ELSE f[Chosen(U)] + h[U \ {Chosen(U)}]
          /\ g[U] = IF U = {} THEN 0 ELSE f[Chosen(U)] + g[U \ {Chosen(U)}]
      BY <1>1, <2>3, <3>1 DEF IsSum
    <3>3. U # {} => h[U \ {Chosen(U)}] = g[U \ {Chosen(U)}]
      BY <2>5, ChosenIn
    <3>4. QED BY <3>2, <3>3
  <2>6. \A U \in SUBSET T : (\A x \in U : U \ {x} \in F) => U \in F
    BY <2>5
  <2>7. SUBSET T \subseteq F
    <3> HIDE DEF F
    <3>1. QED BY <2>1, <2>6, InductiveFamily
  <2>8. QED BY <2>4, <2>7
<1>3. SumFunctionOnSet(f, S) = g[S]
  BY <1>2
<1>4. S # {} => SumFunctionOnSet(f, S \ {Chosen(S)}) = g[S \ {Chosen(S)}]
  BY <1>2
<1>5. g[S] = IF S = {} THEN 0 ELSE f[Chosen(S)] + g[S \ {Chosen(S)}]
  BY <1>1 DEF IsSum
<1>6. g[S] \in Int
  BY <1>1
<1>7. QED BY <1>3, <1>4, <1>5, <1>6

\* Any element may be taken out of a sum.
LEMMA SumWithout ==
    ASSUME NEW S, IsFiniteSet(S), NEW f, \A x \in S : f[x] \in Int
    PROVE  \A x \in S : SumFunctionOnSet(f, S) = f[x] + SumFunctionOnSet(f, S \ {x})
<1> DEFINE Total(T) == SumFunctionOnSet(f, T)
           F == {T \in SUBSET S : \A x \in T : Total(T) = f[x] + Total(T \ {x})}
<1>1. \A T \in SUBSET S : /\ Total(T) \in Int
                          /\ T # {} => Total(T) = f[Chosen(T)] + Total(T \ {Chosen(T)})
  <2>1. ASSUME NEW T \in SUBSET S
        PROVE  /\ Total(T) \in Int
               /\ T # {} => Total(T) = f[Chosen(T)] + Total(T \ {Chosen(T)})
    <3>1. IsFiniteSet(T)
      BY FS_Subset
    <3>2. QED BY <3>1, SumAt
  <2>2. QED BY <2>1
<1> HIDE DEF Total
<1>2. ASSUME NEW T \in SUBSET S, \A y \in T : T \ {y} \in F, NEW x \in T
      PROVE  Total(T) = f[x] + Total(T \ {x})
  <2>1. PICK c \in T : c = Chosen(T)
    BY ChosenIn
  <2>2. Total(T) = f[c] + Total(T \ {c})
    BY <1>1, <2>1
  <2>3. CASE x = c
    BY <2>2, <2>3
  <2>4. CASE x # c
    <3>1. Total(T \ {c}) = f[x] + Total((T \ {c}) \ {x})
      <4>1. x \in T \ {c} /\ T \ {c} \in F
        BY <1>2, <2>4
      <4>2. QED BY <4>1
    <3>2. Total(T \ {x}) = f[c] + Total((T \ {x}) \ {c})
      <4>1. c \in T \ {x} /\ T \ {x} \in F
        BY <1>2, <2>4
      <4>2. QED BY <4>1
    <3>3. Total((T \ {c}) \ {x}) = Total((T \ {x}) \ {c})
      <4>1. (T \ {c}) \ {x} = (T \ {x}) \ {c}
        OBVIOUS
      <4>2. QED BY <4>1, Zenon
    <3>4. f[x] \in Int /\ f[c] \in Int /\ Total((T \ {x}) \ {c}) \in Int
      <4>1. (T \ {x}) \ {c} \in SUBSET S
        OBVIOUS
      <4>2. QED BY <1>1, <4>1
    <3>5. PICK rest \in Int : rest = Total((T \ {x}) \ {c})
      BY <3>4
    <3>6. Total(T) = f[c] + (f[x] + rest)
      BY <2>2, <3>1, <3>3, <3>5
    <3>7. Total(T \ {x}) = f[c] + rest
      BY <3>2, <3>5
    <3>8. QED BY <3>4, <3>6, <3>7
  <2>5. QED BY <2>3, <2>4
<1>3. \A T \in SUBSET S : (\A y \in T : T \ {y} \in F) => T \in F
  BY <1>2
<1>4. SUBSET S \subseteq F
  <2> HIDE DEF F
  <2>1. QED BY <1>3, InductiveFamily
<1>5. S \in F
  BY <1>4
<1>6. QED BY <1>5 DEF Total

\* A sum depends on the summands alone.
LEMMA SumSame ==
    ASSUME NEW S, IsFiniteSet(S), NEW f, NEW h,
           \A x \in S : f[x] \in Int /\ h[x] = f[x]
    PROVE  SumFunctionOnSet(h, S) = SumFunctionOnSet(f, S)
<1> DEFINE F == {T \in SUBSET S : SumFunctionOnSet(h, T) = SumFunctionOnSet(f, T)}
<1>1. ASSUME NEW T \in SUBSET S, \A y \in T : T \ {y} \in F
      PROVE  T \in F
  <2>1. /\ IsFiniteSet(T)
        /\ \A x \in T : f[x] \in Int
        /\ \A x \in T : h[x] \in Int
    BY FS_Subset
  <2>2. CASE T = {}
    <3>1. SumFunctionOnSet(h, T) = 0
      BY <2>1, <2>2, SumAt
    <3>2. SumFunctionOnSet(f, T) = 0
      BY <2>1, <2>2, SumAt
    <3>3. QED BY <3>1, <3>2
  <2>3. CASE T # {}
    <3>1. PICK x \in T : TRUE
      BY <2>3
    <3>2. SumFunctionOnSet(h, T) = h[x] + SumFunctionOnSet(h, T \ {x})
      BY <2>1, SumWithout
    <3>3. SumFunctionOnSet(f, T) = f[x] + SumFunctionOnSet(f, T \ {x})
      BY <2>1, SumWithout
    <3>4. SumFunctionOnSet(h, T \ {x}) = SumFunctionOnSet(f, T \ {x})
      BY <1>1
    <3>5. QED BY <3>2, <3>3, <3>4
  <2>4. QED BY <2>2, <2>3
<1>2. \A T \in SUBSET S : (\A y \in T : T \ {y} \in F) => T \in F
  BY <1>1
<1>3. SUBSET S \subseteq F
  <2> HIDE DEF F
  <2>1. QED BY <1>2, InductiveFamily
<1>4. QED BY <1>3

\* A sum of naturals is one, and no less than any summand.
LEMMA SumOfNaturals ==
    ASSUME NEW S, IsFiniteSet(S), NEW f, \A x \in S : f[x] \in Nat
    PROVE  /\ SumFunctionOnSet(f, S) \in Nat
           /\ \A x \in S : f[x] <= SumFunctionOnSet(f, S)
<1> DEFINE F == {T \in SUBSET S : SumFunctionOnSet(f, T) \in Nat}
<1>1. ASSUME NEW T \in SUBSET S, \A y \in T : T \ {y} \in F
      PROVE  T \in F
  <2>1. /\ IsFiniteSet(T)
        /\ \A x \in T : f[x] \in Int
    BY FS_Subset
  <2>2. CASE T = {}
    BY <2>1, <2>2, SumAt
  <2>3. CASE T # {}
    <3>1. PICK x \in T : TRUE
      BY <2>3
    <3>2. SumFunctionOnSet(f, T) = f[x] + SumFunctionOnSet(f, T \ {x})
      BY <2>1, SumWithout
    <3>3. SumFunctionOnSet(f, T \ {x}) \in Nat /\ f[x] \in Nat
      BY <1>1
    <3>4. QED BY <3>2, <3>3
  <2>4. QED BY <2>2, <2>3
<1>2. \A T \in SUBSET S : (\A y \in T : T \ {y} \in F) => T \in F
  BY <1>1
<1>3. SUBSET S \subseteq F
  <2> HIDE DEF F
  <2>1. QED BY <1>2, InductiveFamily
<1>4. ASSUME NEW x \in S
      PROVE  f[x] <= SumFunctionOnSet(f, S)
  <2>1. SumFunctionOnSet(f, S) = f[x] + SumFunctionOnSet(f, S \ {x})
    <3>1. \A y \in S : f[y] \in Int
      OBVIOUS
    <3>2. QED BY <3>1, SumWithout
  <2>2. SumFunctionOnSet(f, S \ {x}) \in Nat /\ f[x] \in Nat
    BY <1>3
  <2>3. QED BY <2>1, <2>2
<1>5. QED BY <1>3, <1>4

\* No summand shrinks, nor does the sum.
LEMMA SumMonotone ==
    ASSUME NEW S, IsFiniteSet(S), NEW f, NEW h,
           \A x \in S : f[x] \in Int /\ h[x] \in Int /\ f[x] <= h[x]
    PROVE  SumFunctionOnSet(f, S) <= SumFunctionOnSet(h, S)
<1> DEFINE F == {T \in SUBSET S : SumFunctionOnSet(f, T) <= SumFunctionOnSet(h, T)}
<1>1. ASSUME NEW T \in SUBSET S, \A y \in T : T \ {y} \in F
      PROVE  T \in F
  <2>1. /\ IsFiniteSet(T)
        /\ \A x \in T : f[x] \in Int
        /\ \A x \in T : h[x] \in Int
    BY FS_Subset
  <2>2. CASE T = {}
    <3>1. SumFunctionOnSet(h, T) = 0
      BY <2>1, <2>2, SumAt
    <3>2. SumFunctionOnSet(f, T) = 0
      BY <2>1, <2>2, SumAt
    <3>3. QED BY <3>1, <3>2
  <2>3. CASE T # {}
    <3>1. PICK x \in T : TRUE
      BY <2>3
    <3>2. SumFunctionOnSet(h, T) = h[x] + SumFunctionOnSet(h, T \ {x})
      BY <2>1, SumWithout
    <3>3. SumFunctionOnSet(f, T) = f[x] + SumFunctionOnSet(f, T \ {x})
      BY <2>1, SumWithout
    <3>4. SumFunctionOnSet(f, T \ {x}) <= SumFunctionOnSet(h, T \ {x})
      BY <1>1
    <3>5. IsFiniteSet(T \ {x}) /\ \A y \in T \ {x} : f[y] \in Int /\ h[y] \in Int
      BY <2>1, FS_Subset
    <3>6. SumFunctionOnSet(f, T \ {x}) \in Int
      BY <3>5, SumAt
    <3>7. SumFunctionOnSet(h, T \ {x}) \in Int
      BY <3>5, SumAt
    <3>8. f[x] \in Int /\ h[x] \in Int /\ f[x] <= h[x]
      BY <3>1
    <3>9. QED BY <3>2, <3>3, <3>4, <3>6, <3>7, <3>8
  <2>4. QED BY <2>2, <2>3
<1>2. \A T \in SUBSET S : (\A y \in T : T \ {y} \in F) => T \in F
  BY <1>1
<1>3. SUBSET S \subseteq F
  <2> HIDE DEF F
  <2>1. QED BY <1>2, InductiveFamily
<1>4. QED BY <1>3

\* Equal summands add up to their number times one of them.
LEMMA SumOfEquals ==
    ASSUME NEW S, IsFiniteSet(S), NEW f, NEW k \in Nat, \A x \in S : f[x] = k
    PROVE  SumFunctionOnSet(f, S) = Cardinality(S) * k
<1> DEFINE F == {T \in SUBSET S : SumFunctionOnSet(f, T) = Cardinality(T) * k}
<1>1. ASSUME NEW T \in SUBSET S, \A y \in T : T \ {y} \in F
      PROVE  T \in F
  <2>1. /\ IsFiniteSet(T)
        /\ \A x \in T : f[x] \in Int
    BY FS_Subset
  <2>2. CASE T = {}
    <3>1. SumFunctionOnSet(f, T) = 0
      BY <2>1, <2>2, SumAt
    <3>2. Cardinality(T) = 0 /\ 0 * k = 0
      BY <2>2, FS_EmptySet
    <3>3. QED BY <3>1, <3>2
  <2>3. CASE T # {}
    <3>1. PICK x \in T : TRUE
      BY <2>3
    <3>2. SumFunctionOnSet(f, T) = f[x] + SumFunctionOnSet(f, T \ {x})
      BY <2>1, SumWithout
    <3>3. SumFunctionOnSet(f, T \ {x}) = Cardinality(T \ {x}) * k /\ f[x] = k
      BY <1>1
    <3>4. PICK n \in Nat : n = Cardinality(T \ {x}) /\ Cardinality(T) = n + 1
      <4>1. /\ Cardinality(T \ {x}) = Cardinality(T) - 1
            /\ Cardinality(T \ {x}) \in Nat /\ Cardinality(T) \in Nat
        BY <2>1, FS_RemoveElement, FS_CardinalityType
      <4>2. QED BY <4>1
    <3>5. (n + 1) * k = k + n * k
      OBVIOUS
    <3>6. SumFunctionOnSet(f, T) = Cardinality(T) * k
      BY <3>2, <3>3, <3>4, <3>5
    <3>7. QED BY <3>6
  <2>4. QED BY <2>2, <2>3
<1>2. \A T \in SUBSET S : (\A y \in T : T \ {y} \in F) => T \in F
  BY <1>1
<1>3. SUBSET S \subseteq F
  <2> HIDE DEF F
  <2>1. QED BY <1>2, InductiveFamily
<1>4. QED BY <1>3

\* Nothing but zeros adds up to zero.
LEMMA SumOfZeros ==
    ASSUME NEW S, IsFiniteSet(S), NEW f, \A x \in S : f[x] = 0
    PROVE  SumFunctionOnSet(f, S) = 0
<1>1. PICK k \in Nat : k = 0
  OBVIOUS
<1>2. SumFunctionOnSet(f, S) = Cardinality(S) * k
  BY <1>1, SumOfEquals
<1>3. Cardinality(S) \in Nat
  BY FS_CardinalityType
<1>4. QED BY <1>1, <1>2, <1>3

\* Two elements are two.
LEMMA CardinalityOfTwo ==
    ASSUME NEW k, NEW l, k # l
    PROVE  Cardinality({k, l}) = 2
<1>1. Cardinality({k}) = 1
  BY FS_Singleton
<1>2. Cardinality({k} \cup {l}) = 1 + 1
  <2>1. IsFiniteSet({k}) /\ l \notin {k}
    BY FS_Singleton
  <2>2. Cardinality({k} \cup {l}) = Cardinality({k}) + 1
    BY <2>1, FS_AddElement
  <2>3. QED BY <1>1, <2>2
<1>3. {k} \cup {l} = {k, l}
  OBVIOUS
<1>4. 1 + 1 = 2
  OBVIOUS
<1>5. QED BY <1>2, <1>3, <1>4

\* Sums of one and of two summands.
LEMMA SumOfOne ==
    ASSUME NEW f, NEW i, f[i] \in Int
    PROVE  SumFunctionOnSet(f, {i}) = f[i]
<1>1. IsFiniteSet({i}) /\ IsFiniteSet({}) /\ {i} \ {i} = {}
  BY FS_Singleton, FS_EmptySet
<1>2. SumFunctionOnSet(f, {i}) = f[i] + SumFunctionOnSet(f, {i} \ {i})
  BY <1>1, SumWithout
<1>3. SumFunctionOnSet(f, {}) = 0
  BY <1>1, SumAt
<1>4. QED BY <1>1, <1>2, <1>3

LEMMA SumOfTwo ==
    ASSUME NEW f, NEW i, NEW j, i # j, f[i] \in Int, f[j] \in Int
    PROVE  SumFunctionOnSet(f, {i, j}) = f[i] + f[j]
<1>1. IsFiniteSet({i, j}) /\ {i, j} \ {i} = {j}
  <2>1. IsFiniteSet({i} \cup {j}) /\ {i} \cup {j} = {i, j}
    BY FS_Singleton, FS_AddElement
  <2>2. QED BY <2>1
<1>2. SumFunctionOnSet(f, {i, j}) = f[i] + SumFunctionOnSet(f, {i, j} \ {i})
  BY <1>1, SumWithout
<1>3. SumFunctionOnSet(f, {j}) = f[j]
  BY SumOfOne
<1>4. QED BY <1>1, <1>2, <1>3

\* One summand changes, and the sum by as much.
LEMMA SumChanged ==
    ASSUME NEW S, IsFiniteSet(S), NEW f \in [S -> Int], NEW x \in S, NEW v \in Int
    PROVE  SumFunction([f EXCEPT ![x] = v]) = SumFunction(f) - f[x] + v
<1> DEFINE h == [f EXCEPT ![x] = v]
<1>1. /\ DOMAIN h = S /\ DOMAIN f = S
      /\ h[x] = v
      /\ \A y \in S : f[y] \in Int
      /\ \A y \in S : h[y] \in Int
      /\ \A y \in S \ {x} : h[y] = f[y]
  OBVIOUS
<1> HIDE DEF h
<1>2. SumFunctionOnSet(h, S) = h[x] + SumFunctionOnSet(h, S \ {x})
  BY <1>1, SumWithout
<1>3. SumFunctionOnSet(f, S) = f[x] + SumFunctionOnSet(f, S \ {x})
  BY <1>1, SumWithout
<1>4. IsFiniteSet(S \ {x})
  BY FS_RemoveElement
<1>5. SumFunctionOnSet(h, S \ {x}) = SumFunctionOnSet(f, S \ {x})
  <2>1. \A y \in S \ {x} : f[y] \in Int /\ h[y] = f[y]
    BY <1>1
  <2>2. QED BY <1>4, <2>1, SumSame
<1>6. SumFunctionOnSet(f, S \ {x}) \in Int
  <2>1. \A y \in S \ {x} : f[y] \in Int
    BY <1>1
  <2>2. QED BY <1>4, <2>1, SumAt
<1>7. SumFunction(h) = SumFunctionOnSet(h, S) /\ SumFunction(f) = SumFunctionOnSet(f, S)
  BY <1>1, Zenon DEF SumFunction
<1>8. SumFunction(h) = SumFunction(f) - f[x] + v
  BY <1>1, <1>2, <1>3, <1>5, <1>6, <1>7
<1>9. QED BY <1>8 DEF h

\* The sum over two sets without a common element.
LEMMA SumOfUnion ==
    ASSUME NEW A, IsFiniteSet(A), NEW B, IsFiniteSet(B), A \cap B = {},
           NEW f, \A x \in A \cup B : f[x] \in Int
    PROVE  SumFunctionOnSet(f, A \cup B) = SumFunctionOnSet(f, A) + SumFunctionOnSet(f, B)
<1> DEFINE F == {T \in SUBSET A :
                    SumFunctionOnSet(f, T \cup B) = SumFunctionOnSet(f, T) + SumFunctionOnSet(f, B)}
<1>1. ASSUME NEW T \in SUBSET A, \A y \in T : T \ {y} \in F
      PROVE  T \in F
  <2>1. IsFiniteSet(T) /\ IsFiniteSet(T \cup B) /\ \A x \in T \cup B : f[x] \in Int
    BY FS_Subset, FS_Union
  <2>2. /\ SumFunctionOnSet(f, B) \in Int /\ SumFunctionOnSet(f, T) \in Int
        /\ T = {} => SumFunctionOnSet(f, T) = 0
    BY <2>1, SumAt
  <2>3. CASE T = {}
    <3>1. T \cup B = B
      BY <2>3
    <3>2. QED BY <2>2, <2>3, <3>1
  <2>4. CASE T # {}
    <3>1. PICK x \in T : TRUE
      BY <2>4
    <3>2. SumFunctionOnSet(f, T \cup B) = f[x] + SumFunctionOnSet(f, (T \cup B) \ {x})
      BY <2>1, SumWithout
    <3>3. SumFunctionOnSet(f, T) = f[x] + SumFunctionOnSet(f, T \ {x})
      BY <2>1, SumWithout
    <3>4. (T \cup B) \ {x} = (T \ {x}) \cup B
      OBVIOUS
    <3>5. SumFunctionOnSet(f, (T \ {x}) \cup B)
            = SumFunctionOnSet(f, T \ {x}) + SumFunctionOnSet(f, B)
      BY <1>1
    <3>6. IsFiniteSet(T \ {x}) /\ \A y \in T \ {x} : f[y] \in Int
      BY <2>1, FS_RemoveElement
    <3>7. SumFunctionOnSet(f, T \ {x}) \in Int /\ f[x] \in Int
      BY <2>1, <3>6, SumAt
    <3>8. SumFunctionOnSet(f, T \cup B) = SumFunctionOnSet(f, T) + SumFunctionOnSet(f, B)
      BY <2>2, <3>2, <3>3, <3>4, <3>5, <3>7
    <3>9. QED BY <3>8
  <2>5. QED BY <2>3, <2>4
<1>2. \A T \in SUBSET A : (\A y \in T : T \ {y} \in F) => T \in F
  BY <1>1
<1>3. SUBSET A \subseteq F
  <2> HIDE DEF F
  <2>1. QED BY <1>2, InductiveFamily
<1>4. QED BY <1>3

\* The sum over the values of an injective function.
LEMMA SumOfImage ==
    ASSUME NEW S, IsFiniteSet(S), NEW b, \A i, j \in S : b[i] = b[j] => i = j,
           NEW f, NEW g, \A i \in S : g[i] = f[b[i]] /\ f[b[i]] \in Int
    PROVE  SumFunctionOnSet(f, {b[i] : i \in S}) = SumFunctionOnSet(g, S)
<1> DEFINE F == {T \in SUBSET S :
                    SumFunctionOnSet(f, {b[i] : i \in T}) = SumFunctionOnSet(g, T)}
<1>1. ASSUME NEW T \in SUBSET S, \A y \in T : T \ {y} \in F
      PROVE  T \in F
  <2> DEFINE image == {b[i] : i \in T}
  <2>1. IsFiniteSet(T) /\ \A i \in T : g[i] \in Int
    BY FS_Subset
  <2>2. IsFiniteSet(image) /\ \A v \in image : f[v] \in Int
    <3>1. [i \in T |-> b[i]] \in Surjection(T, image)
      BY DEF Surjection
    <3>2. IsFiniteSet(image)
      BY <2>1, <3>1, FS_Surjection
    <3>3. QED BY <3>2
  <2>3. CASE T = {}
    <3>1. SumFunctionOnSet(g, T) = 0
      BY <2>1, <2>3, SumAt
    <3>2. image = {}
      BY <2>3
    <3>3. SumFunctionOnSet(f, image) = 0
      <4> HIDE DEF image
      <4>1. QED BY <2>2, <3>2, SumAt
    <3>4. QED BY <3>1, <3>3
  <2>4. CASE T # {}
    <3>1. PICK x \in T : TRUE
      BY <2>4
    <3>2. SumFunctionOnSet(f, image) = f[b[x]] + SumFunctionOnSet(f, image \ {b[x]})
      <4>1. b[x] \in image
        OBVIOUS
      <4> HIDE DEF image
      <4>2. QED BY <2>2, <4>1, SumWithout
    <3>3. SumFunctionOnSet(g, T) = g[x] + SumFunctionOnSet(g, T \ {x})
      BY <2>1, SumWithout
    <3>4. image \ {b[x]} = {b[i] : i \in T \ {x}}
      OBVIOUS
    <3>5. SumFunctionOnSet(f, {b[i] : i \in T \ {x}}) = SumFunctionOnSet(g, T \ {x})
      BY <1>1
    <3>6. g[x] = f[b[x]]
      OBVIOUS
    <3>7. SumFunctionOnSet(f, image) = SumFunctionOnSet(g, T)
      <4> HIDE DEF image
      <4>1. QED BY <3>2, <3>3, <3>4, <3>5, <3>6
    <3>8. QED BY <3>7
  <2>5. QED BY <2>3, <2>4
<1>2. \A T \in SUBSET S : (\A y \in T : T \ {y} \in F) => T \in F
  BY <1>1
<1>3. SUBSET S \subseteq F
  <2> HIDE DEF F
  <2>1. QED BY <1>2, InductiveFamily
<1>4. QED BY <1>3

\* A sum taken part by part.
LEMMA SumByParts ==
    ASSUME NEW T, IsFiniteSet(T), NEW P, IsFiniteSet(P), NEW part, \A s \in T : part[s] \in P,
           NEW f, \A s \in T : f[s] \in Int,
           NEW Part, \A p \in P : Part[p] = {s \in T : part[s] = p},
           NEW g, \A p \in P : g[p] = SumFunctionOnSet(f, Part[p])
    PROVE  SumFunctionOnSet(g, P) = SumFunctionOnSet(f, T)
<1> DEFINE Of(Q) == {s \in T : part[s] \in Q}
           F == {Q \in SUBSET P : SumFunctionOnSet(g, Q) = SumFunctionOnSet(f, Of(Q))}
<1>1. \A p \in P : g[p] \in Int
  <2> SUFFICES ASSUME NEW p \in P PROVE g[p] \in Int
    OBVIOUS
  <2>1. PICK U : U = {s \in T : part[s] = p}
    OBVIOUS
  <2>2. IsFiniteSet(U) /\ \A s \in U : f[s] \in Int
    BY <2>1, FS_Subset
  <2>3. SumFunctionOnSet(f, U) \in Int
    BY <2>2, SumAt
  <2>4. g[p] = SumFunctionOnSet(f, U)
    BY <2>1
  <2>5. QED BY <2>3, <2>4
<1>2. ASSUME NEW Q \in SUBSET P, \A y \in Q : Q \ {y} \in F
      PROVE  Q \in F
  <2>1. IsFiniteSet(Q) /\ \A p \in Q : g[p] \in Int
    BY <1>1, FS_Subset
  <2>2. CASE Q = {}
    <3>1. SumFunctionOnSet(g, Q) = 0
      BY <2>1, <2>2, SumAt
    <3>2. PICK U : U = Of(Q) /\ U = {}
      BY <2>2
    <3>3. IsFiniteSet(U) /\ \A s \in U : f[s] \in Int
      BY <3>2, FS_EmptySet
    <3>4. SumFunctionOnSet(f, U) = 0
      BY <3>2, <3>3, SumAt
    <3>5. QED BY <3>1, <3>2, <3>4
  <2>3. CASE Q # {}
    <3>1. PICK p \in Q : TRUE
      BY <2>3
    <3>2. SumFunctionOnSet(g, Q) = g[p] + SumFunctionOnSet(g, Q \ {p})
      BY <2>1, SumWithout
    <3>3. SumFunctionOnSet(g, Q \ {p}) = SumFunctionOnSet(f, Of(Q \ {p}))
      BY <1>2
    <3>3a. PICK A, B : A = {s \in T : part[s] = p} /\ B = Of(Q \ {p})
      OBVIOUS
    <3>3b. A \cup B = Of(Q) /\ A \cap B = {}
      BY <3>1, <3>3a
    <3>4. A = {s \in T : part[s] = p} /\ B = Of(Q \ {p}) /\ A \cup B = Of(Q) /\ A \cap B = {}
      BY <3>3a, <3>3b
    <3>5. /\ IsFiniteSet(A) /\ IsFiniteSet(B)
          /\ \A s \in A \cup B : f[s] \in Int
      BY <3>4, FS_Subset
    <3>6. SumFunctionOnSet(f, A \cup B) = SumFunctionOnSet(f, A) + SumFunctionOnSet(f, B)
      BY <3>4, <3>5, SumOfUnion
    <3>7. g[p] = SumFunctionOnSet(f, A)
      BY <3>4, ZenonT(60)
    <3>8. SumFunctionOnSet(g, Q) = SumFunctionOnSet(f, Of(Q))
      <4> HIDE DEF Of
      <4>1. QED BY <3>2, <3>3, <3>4, <3>6, <3>7
    <3>9. QED BY <3>8
  <2>4. QED BY <2>2, <2>3
<1>3. \A Q \in SUBSET P : (\A y \in Q : Q \ {y} \in F) => Q \in F
  BY <1>2
<1>4. SUBSET P \subseteq F
  <2> HIDE DEF F
  <2>1. QED BY <1>3, InductiveFamily
<1>5. Of(P) = T
  OBVIOUS
<1>6. QED
  <2>1. P \in F
    BY <1>4
  <2>2. SumFunctionOnSet(g, P) = SumFunctionOnSet(f, Of(P))
    BY <2>1
  <2> HIDE DEF Of
  <2>3. QED BY <1>5, <2>2

-----------------------------------------------------------------------------
(* The order of a sort. *)

\* Every number of the set is at one place of the sorted sequence, and keys ascend.
LEMMA OrderEnumerates ==
    ASSUME NEW S \in SUBSET Int, IsFiniteSet(S), NEW key \in [S -> Int]
    PROVE  /\ Cardinality(S) \in Nat
           /\ InOrder(S, key) \in [1..Cardinality(S) -> S]
           /\ \A i, j \in 1..Cardinality(S) :
                 InOrder(S, key)[i] = InOrder(S, key)[j] => i = j
           /\ \A s \in S : \E i \in 1..Cardinality(S) : InOrder(S, key)[i] = s
           /\ \A i, j \in 1..Cardinality(S) :
                 i < j => key[InOrder(S, key)[i]] <= key[InOrder(S, key)[j]]
<1> DEFINE n == Cardinality(S)
           Below(i) == {j \in S : ComesBefore(j, i, key)}
           place == [i \in S |-> Cardinality(Below(i)) + 1]
<1>1. n \in Nat
  BY FS_CardinalityType
<1>2. ASSUME NEW i \in S
      PROVE  /\ IsFiniteSet(Below(i)) /\ Cardinality(Below(i)) \in Nat
             /\ i \notin Below(i) /\ Cardinality(Below(i)) + 1 <= n
  <2>1. i \notin Below(i)
    BY DEF ComesBefore
  <2>2. IsFiniteSet(Below(i)) /\ IsFiniteSet(Below(i) \cup {i})
        /\ Cardinality(Below(i) \cup {i}) <= n
    BY FS_Subset
  <2>3. Cardinality(Below(i) \cup {i}) = Cardinality(Below(i)) + 1
    BY <2>1, <2>2, FS_AddElement
  <2>4. QED BY <2>1, <2>2, <2>3, FS_CardinalityType
<1>3. ASSUME NEW i \in S, NEW j \in S, ComesBefore(i, j, key)
      PROVE  Cardinality(Below(i)) < Cardinality(Below(j))
  <2>0. \A l \in S : ComesBefore(l, i, key) => ComesBefore(l, j, key)
    <3> SUFFICES ASSUME NEW l \in S, ComesBefore(l, i, key) PROVE ComesBefore(l, j, key)
      OBVIOUS
    <3>1. i \in Int /\ j \in Int /\ l \in Int /\ key[i] \in Int /\ key[j] \in Int /\ key[l] \in Int
      OBVIOUS
    <3>2. QED BY <1>3, <3>1 DEF ComesBefore
  <2>1. Below(i) \cup {i} \subseteq Below(j)
    BY <1>3, <2>0
  <2>2. Cardinality(Below(i) \cup {i}) = Cardinality(Below(i)) + 1
    BY <1>2, FS_AddElement
  <2>3. Cardinality(Below(i) \cup {i}) <= Cardinality(Below(j))
    BY <1>2, <2>1, FS_Subset
  <2>4. QED BY <1>2, <2>2, <2>3
<1>4. \A i, j \in S : i = j \/ ComesBefore(i, j, key) \/ ComesBefore(j, i, key)
  BY DEF ComesBefore
<1>5. \A i, j \in S : Cardinality(Below(i)) = Cardinality(Below(j)) => i = j
  BY <1>2, <1>3, <1>4
<1>6. place \in Injection(S, 1..n)
  <2>1. \A i \in S : Cardinality(Below(i)) + 1 \in 1..n
    BY <1>1, <1>2
  <2>2. place \in [S -> 1..n]
    BY <2>1
  <2>3. \A i, j \in S : place[i] = place[j] => i = j
    <3>1. \A i, j \in S : Cardinality(Below(i)) + 1 = Cardinality(Below(j)) + 1
                            => Cardinality(Below(i)) = Cardinality(Below(j))
      BY <1>2
    <3>2. QED BY <1>5, <3>1
  <2>4. QED BY <2>2, <2>3 DEF Injection, IsInjective
<1>7. \A k \in 1..n : \E i \in S : Cardinality(Below(i)) = k - 1
  <2>1. IsFiniteSet(1..n) /\ Cardinality(1..n) = n
    <3>1. 1 \in Int /\ n \in Int
      BY <1>1
    <3>2. QED BY <1>1, <3>1, FS_Interval
  <2>2. place \in Surjection(S, 1..n)
    <3> HIDE DEF place
    <3>1. QED BY <1>6, <2>1, FS_Injection
  <2>3. \A k \in 1..n : \E i \in S : place[i] = k
    BY <2>2 DEF Surjection
  <2>4. \A i \in S : place[i] = Cardinality(Below(i)) + 1
    OBVIOUS
  <2>5. QED BY <1>2, <2>3, <2>4
<1> DEFINE order == InOrder(S, key)
<1>8. /\ DOMAIN order = 1..n
      /\ \A k \in 1..n : order[k] \in S /\ Cardinality(Below(order[k])) = k - 1
  <2>1. order = [k \in 1..n |-> CHOOSE i \in S : Cardinality(Below(i)) = k - 1]
    BY DEF InOrder
  <2> HIDE DEF order, Below
  <2>2. QED BY <1>7, <2>1
<1>9. order \in [1..n -> S]
  <2> DEFINE Placed(k) == CHOOSE i \in S : Cardinality(Below(i)) = k - 1
  <2>1. order = [k \in 1..n |-> Placed(k)]
    BY DEF InOrder
  <2> HIDE DEF order, Placed
  <2>2. \A k \in 1..n : order[k] = Placed(k)
    BY <2>1
  <2>3. QED BY <1>8, <2>1, <2>2
<1>10. \A i, j \in 1..n : order[i] = order[j] => i = j
  <2> HIDE DEF order, Below
  <2>1. \A i, j \in 1..n : order[i] = order[j] => i - 1 = j - 1
    BY <1>8
  <2>2. QED BY <1>1, <2>1
<1>11. \A s \in S : \E i \in 1..n : order[i] = s
  <2> SUFFICES ASSUME NEW s \in S PROVE \E i \in 1..n : order[i] = s
    OBVIOUS
  <2>0. Cardinality(Below(s)) + 1 \in 1..n
    BY <1>1, <1>2
  <2>1. PICK k \in 1..n : k = Cardinality(Below(s)) + 1
    BY <2>0
  <2>2. Cardinality(Below(order[k])) = Cardinality(Below(s))
    <3>1. order[k] \in S /\ Cardinality(Below(order[k])) = k - 1 /\ Cardinality(Below(s)) \in Nat
      BY <1>2, <1>8
    <3> HIDE DEF order, Below
    <3>2. QED BY <2>1, <3>1
  <2>3. order[k] = s
    <3> HIDE DEF order, Below
    <3>1. QED BY <1>5, <1>8, <2>2
  <2>4. QED BY <2>3
<1>12. ASSUME NEW i \in 1..n, NEW j \in 1..n, i < j
       PROVE  key[order[i]] <= key[order[j]]
  <2>1. PICK u \in S, v \in S : u = order[i] /\ v = order[j]
    BY <1>8
  <2>2. Cardinality(Below(u)) = i - 1 /\ Cardinality(Below(v)) = j - 1
    BY <1>8, <2>1
  <2>3. ~ComesBefore(v, u, key)
    <3> HIDE DEF Below
    <3>1. QED BY <1>1, <1>3, <1>12, <2>2
  <2>4. key[u] <= key[v]
    BY <2>3 DEF ComesBefore
  <2> HIDE DEF order
  <2>5. QED BY <2>1, <2>4
<1>13. QED BY <1>1, <1>9, <1>10, <1>11, <1>12

\* A finite set can be put in descending order.
LEMMA OrderDescends ==
    ASSUME NEW S, IsFiniteSet(S), NEW key \in [S -> Int]
    PROVE  /\ Cardinality(S) \in Nat
           /\ Descending(S, key) \in [1..Cardinality(S) -> S]
           /\ IsInjective(Descending(S, key))
           /\ Descends(Descending(S, key), key)
<1>1. PICK n \in Nat : n = Cardinality(S)
  BY FS_CardinalityType
<1>2. PICK b : b \in Bijection(1..n, S)
  BY <1>1, FS_CardinalityType DEF ExistsBijection
<1>3. b \in [1..n -> S] /\ \A i, j \in 1..n : b[i] = b[j] => i = j
  BY <1>2 DEF Bijection, Injection, IsInjective
<1>4. PICK N : N = 1..n
  OBVIOUS
<1>5. N \in SUBSET Int /\ IsFiniteSet(N) /\ Cardinality(N) = n
  <2>1. PICK one \in Int : one = 1
    OBVIOUS
  <2>2. IsFiniteSet(one..n) /\ Cardinality(one..n) = IF one > n THEN 0 ELSE n - one + 1
    BY FS_Interval
  <2>3. QED BY <1>4, <2>1, <2>2
<1>6. PICK back \in [N -> Int] : back = [i \in N |-> -key[b[i]]]
  <2>1. [i \in N |-> -key[b[i]]] \in [N -> Int]
    BY <1>3, <1>4
  <2>2. QED BY <2>1, Zenon
<1>7. PICK order : /\ order \in [N -> N]
                   /\ \A i, j \in N : order[i] = order[j] => i = j
                   /\ \A i, j \in N : i < j => back[order[i]] <= back[order[j]]
  <2>1. /\ InOrder(N, back) \in [1..n -> N]
        /\ \A i, j \in 1..n : InOrder(N, back)[i] = InOrder(N, back)[j] => i = j
        /\ \A i, j \in 1..n : i < j => back[InOrder(N, back)[i]] <= back[InOrder(N, back)[j]]
    BY <1>5, OrderEnumerates
  <2>2. QED BY <1>4, <2>1
<1>8. PICK sorted : sorted = [i \in 1..n |-> b[order[i]]]
  OBVIOUS
<1>9. sorted \in [1..n -> S]
  BY <1>3, <1>4, <1>7, <1>8
<1>10. IsInjective(sorted)
  BY <1>3, <1>4, <1>7, <1>8, SMTT(30) DEF IsInjective
<1>11. \A i, j \in 1..n : i < j => key[sorted[i]] >= key[sorted[j]]
  <2> SUFFICES ASSUME NEW i \in 1..n, NEW j \in 1..n, i < j
               PROVE  key[sorted[i]] >= key[sorted[j]]
    OBVIOUS
  <2>1. sorted[i] = b[order[i]] /\ sorted[j] = b[order[j]] /\ order[i] \in N /\ order[j] \in N
    BY <1>4, <1>7, <1>8
  <2>2. back[order[i]] = -key[b[order[i]]] /\ back[order[j]] = -key[b[order[j]]]
    BY <1>6, <2>1
  <2>3. key[b[order[i]]] \in Int /\ key[b[order[j]]] \in Int
    BY <1>3, <1>4, <2>1
  <2>4. back[order[i]] <= back[order[j]]
    BY <1>4, <1>7
  <2>5. QED BY <2>1, <2>2, <2>3, <2>4
<1>12. Descends(sorted, key)
  BY <1>9, <1>11 DEF Descends
<1>13. \E o \in [1..Cardinality(S) -> S] : IsInjective(o) /\ Descends(o, key)
  BY <1>1, <1>9, <1>10, <1>12
<1>14. QED BY <1>1, <1>13 DEF Descending

-----------------------------------------------------------------------------
(* Stable pools: one round of compute_d on naturals. *)

\* D^3 / (4 x y), both quotients rounded down.
DRatio(x1, y1, d) == (((d * d) \div (2 * x1)) * d) \div (2 * y1)

DRound(x1, y1, a, d) ==
    ((4 * a * (x1 + y1) + 2 * DRatio(x1, y1, d)) * d)
        \div ((4 * a - 1) * d + 3 * DRatio(x1, y1, d))

LEMMA RatioRounded ==
    ASSUME NEW x1 \in Nat \ {0}, NEW y1 \in Nat \ {0}, NEW d \in Nat
    PROVE  /\ (d * d) \div (2 * x1) \in Nat /\ (d * d) \div (2 * x1) <= d * d
           /\ DRatio(x1, y1, d) \in Nat
           /\ (4 * x1 * y1) * DRatio(x1, y1, d) <= d * d * d
<1>1. PICK q1 \in Nat : q1 = (d * d) \div (2 * x1) /\ q1 * (2 * x1) <= d * d
  <2>1. d * d \in Nat /\ 2 * x1 \in Nat /\ 2 * x1 > 0
    OBVIOUS
  <2>2. QED BY <2>1, Rounded
<1>2. PICK dp \in Nat : dp = DRatio(x1, y1, d) /\ dp * (2 * y1) <= q1 * d
  <2>1. q1 * d \in Nat /\ 2 * y1 \in Nat /\ 2 * y1 > 0
    OBVIOUS
  <2>2. QED BY <1>1, <2>1, Rounded DEF DRatio
<1>3. q1 <= d * d
  <2>1. q1 * 1 <= q1 * (2 * x1)
    BY ProductsCompare
  <2>2. q1 * (2 * x1) \in Nat /\ d * d \in Nat
    OBVIOUS
  <2>3. QED BY <1>1, <2>1, <2>2
<1>4. (dp * (2 * y1)) * (2 * x1) <= (q1 * d) * (2 * x1)
  <2>1. dp * (2 * y1) \in Nat /\ q1 * d \in Nat /\ 2 * x1 \in Nat
    OBVIOUS
  <2>2. QED BY <1>2, <2>1, ProductsCompare
<1>5. (q1 * (2 * x1)) * d <= (d * d) * d
  <2>1. q1 * (2 * x1) \in Nat /\ d * d \in Nat
    OBVIOUS
  <2>2. QED BY <1>1, <2>1, ProductsCompare
<1>6. /\ (dp * (2 * y1)) * (2 * x1) = (4 * x1 * y1) * dp
      /\ (q1 * d) * (2 * x1) = (q1 * (2 * x1)) * d
  OBVIOUS
<1>7. (4 * x1 * y1) * dp \in Nat /\ (q1 * (2 * x1)) * d \in Nat /\ (d * d) * d \in Nat
  OBVIOUS
<1>8. (4 * x1 * y1) * dp <= (d * d) * d
  BY <1>4, <1>5, <1>6, <1>7
<1>9. QED BY <1>1, <1>2, <1>3, <1>8

\* Newton's iteration comes from above: m, which is more than what a round
\* computes, solves the invariant or more.  P is 4 x y, A is ann and S the sum.
LEMMA NewtonFromAbove ==
    ASSUME NEW P \in Nat \ {0}, NEW A \in Nat \ {0}, NEW S \in Nat, NEW d \in Nat \ {0},
           NEW dp \in Nat, P * dp <= d * d * d,
           NEW m \in Nat \ {0},
           (A * S + 2 * dp) * d < m * ((A - 1) * d + 3 * dp)
    PROVE  m * m * m + P * ((A - 1) * m - A * S) > 0
<1> DEFINE G == (A - 1) * m - A * S
<1>1. G \in Int
  OBVIOUS
<1>2. G * d > dp * (2 * d - 3 * m)
  <2>1. m * ((A - 1) * d + 3 * dp) - (A * S + 2 * dp) * d = G * d - dp * (2 * d - 3 * m)
    OBVIOUS
  <2>2. /\ m * ((A - 1) * d + 3 * dp) \in Int /\ (A * S + 2 * dp) * d \in Int
        /\ G * d \in Int /\ dp * (2 * d - 3 * m) \in Int
    OBVIOUS
  <2> HIDE DEF G
  <2>3. QED BY <2>1, <2>2
<1> HIDE DEF G
<1>3. CASE 3 * m < 2 * d
  <2>1. 2 * d - 3 * m \in Nat
    BY <1>3
  <2>2. dp * (2 * d - 3 * m) \in Nat
    BY <2>1
  <2>3. G * d \in Int /\ G * d > 0
    BY <1>1, <1>2, <2>2
  <2>4. G > 0
    <3>1. SUFFICES ASSUME G <= 0 PROVE FALSE
      BY <1>1
    <3>2. (-G) * d \in Nat
      BY <1>1, <3>1
    <3>3. (-G) * d = -(G * d)
      BY <1>1
    <3>4. QED BY <2>3, <3>2, <3>3
  <2>5. P * G \in Nat
    BY <1>1, <2>4
  <2>6. m * m * m \in Nat /\ m * m * m > 0
    OBVIOUS
  <2>7. QED BY <2>5, <2>6 DEF G
<1>4. CASE 2 * d <= 3 * m
  <2>1. PICK h \in Nat : h = 3 * m - 2 * d
    <3>1. 3 * m - 2 * d \in Nat
      BY <1>4
    <3>2. QED BY <3>1
  <2>2. G * d > -(dp * h)
    <3>1. dp * (2 * d - 3 * m) = -(dp * h)
      BY <2>1
    <3>2. QED BY <1>2, <3>1
  <2>3. P * (G * d) > -((P * dp) * h)
    <3>1. PICK g \in Int : g = G * d + dp * h /\ g > 0
      BY <1>1, <2>2
    <3>2. P * g \in Nat /\ P * g > 0
      BY <3>1
    <3>3. P * g = P * (G * d) + (P * dp) * h
      BY <1>1, <3>1
    <3>4. P * (G * d) \in Int /\ (P * dp) * h \in Int
      BY <1>1
    <3>5. QED BY <3>2, <3>3, <3>4
  <2>4. (P * dp) * h <= (d * d * d) * h
    <3>1. P * dp \in Nat /\ d * d * d \in Nat
      OBVIOUS
    <3>2. QED BY <3>1, ProductsCompare
  <2>5. (P * G + d * d * h) * d > 0
    <3>1. (P * G + d * d * h) * d = P * (G * d) + (d * d * d) * h
      BY <1>1
    <3>2. P * (G * d) \in Int /\ (P * dp) * h \in Int /\ (d * d * d) * h \in Int
      BY <1>1
    <3>3. QED BY <2>3, <2>4, <3>1, <3>2
  <2>6. PICK e \in Int : e = P * G + d * d * h
    BY <1>1
  <2>7. e > 0
    <3>1. SUFFICES ASSUME e <= 0 PROVE FALSE
      BY <2>6
    <3>2. (-e) * d \in Nat
      BY <3>1
    <3>3. (-e) * d = -(e * d) /\ e * d \in Int
      OBVIOUS
    <3>4. QED BY <2>5, <2>6, <3>2, <3>3
  <2>8. m * m * m - d * d * h = (m - d) * (m - d) * (m + 2 * d)
    BY <2>1
  <2>9. (m - d) * (m - d) * (m + 2 * d) >= 0
    <3>1. (m - d) * (m - d) \in Nat
      OBVIOUS
    <3>2. QED BY <3>1
  <2>10. m * m * m + P * G = (m * m * m - d * d * h) + e
    <3>1. m * m * m \in Int /\ d * d * h \in Int /\ P * G \in Int
      BY <1>1
    <3>2. QED BY <2>6, <3>1
  <2>11. (m - d) * (m - d) * (m + 2 * d) \in Int
    OBVIOUS
  <2>12. QED BY <2>7, <2>8, <2>9, <2>10, <2>11 DEF G
<1>5. QED BY <1>3, <1>4

\* A round keeps to positive values, and to those up to twice the sum, and one
\* more than what it computes is above the D of the balances.
LEMMA RoundIsAbove ==
    ASSUME NEW x1 \in Nat \ {0}, NEW y1 \in Nat \ {0}, NEW a \in Nat \ {0},
           NEW d \in Nat \ {0}
    PROVE  /\ DRound(x1, y1, a, d) \in Nat \ {0}
           /\ d <= 2 * (x1 + y1) => DRound(x1, y1, a, d) <= 2 * (x1 + y1)
           /\ ~OnOrAbove(x1, y1, a, DRound(x1, y1, a, d) + 1)
<1>1. PICK A \in Nat, S \in Nat, P \in Nat \ {0}, dp \in Nat :
         /\ A = 4 * a /\ S = x1 + y1 /\ P = 4 * x1 * y1 /\ dp = DRatio(x1, y1, d)
         /\ P * dp <= d * d * d
  <2>1. 4 * x1 * y1 \in Nat \ {0} /\ 4 * a \in Nat /\ x1 + y1 \in Nat /\ d \in Nat
    OBVIOUS
  <2>2. /\ DRatio(x1, y1, d) \in Nat
        /\ (4 * x1 * y1) * DRatio(x1, y1, d) <= d * d * d
    BY <2>1, RatioRounded
  <2>3. QED BY <2>1, <2>2
<1>2. A >= 4 /\ S >= 2 /\ P >= 4 /\ d \in Nat \ {0}
  BY <1>1
<1>3. PICK num \in Nat, den \in Nat \ {0} :
         num = (A * S + 2 * dp) * d /\ den = (A - 1) * d + 3 * dp
  <2>1. (A * S + 2 * dp) * d \in Nat
    BY <1>2
  <2>2. (A - 1) * d \in Nat \ {0}
    BY <1>2
  <2>3. QED BY <2>1, <2>2
<1>4. PICK n \in Nat : n = num \div den /\ n * den <= num /\ num < n * den + den
  BY Rounded
<1>5. DRound(x1, y1, a, d) = n
  BY <1>1, <1>3, <1>4 DEF DRound
<1>6. num < (n + 1) * den
  BY <1>4
<1>7. (n + 1) * (n + 1) * (n + 1) + P * ((A - 1) * (n + 1) - A * S) > 0
  <2>1. /\ A \in Nat \ {0} /\ n + 1 \in Nat \ {0} /\ d \in Nat \ {0}
        /\ (A * S + 2 * dp) * d < (n + 1) * ((A - 1) * d + 3 * dp)
    BY <1>2, <1>3, <1>6
  <2>2. QED BY <1>1, <2>1, NewtonFromAbove
<1>8. n # 0
  <2>1. SUFFICES ASSUME n = 0 PROVE FALSE
    OBVIOUS
  <2>2. A * 2 <= A * S
    BY <1>2, ProductsCompare
  <2>3. A * S \in Nat /\ A - 1 - A * S <= -5
    BY <1>2, <2>2
  <2>4. P * (A * S - A + 1) >= 4 * 5
    <3>1. PICK g \in Nat : g = A * S - A + 1 /\ g >= 5
      BY <1>2, <2>3
    <3>2. QED BY <1>2, <3>1, ProductsCompare
  <2>5. 1 - P * (A * S - A + 1) > 0
    BY <1>7, <2>1
  <2>6. P * (A * S - A + 1) \in Int
    OBVIOUS
  <2>7. QED BY <2>4, <2>5, <2>6
<1>9. d <= 2 * S => n <= 2 * S
  <2> SUFFICES ASSUME d <= 2 * S PROVE n <= 2 * S
    OBVIOUS
  <2>1. num <= (2 * S) * den
    <3>1. (2 * S) * den - num = S * d * (A - 2) + dp * (6 * S - 2 * d)
      BY <1>3
    <3>2. S * d * (A - 2) \in Nat
      <4>1. S * d \in Nat /\ A - 2 \in Nat
        BY <1>2
      <4>2. QED BY <4>1
    <3>3. dp * (6 * S - 2 * d) \in Nat
      <4>1. 6 * S - 2 * d \in Nat
        BY <1>2
      <4>2. QED BY <4>1
    <3>4. (2 * S) * den \in Nat
      OBVIOUS
    <3>5. QED BY <3>1, <3>2, <3>3, <3>4
  <2>2. n * den \in Nat /\ (2 * S) * den \in Nat /\ 2 * S \in Nat
    OBVIOUS
  <2>3. n * den <= (2 * S) * den
    BY <1>4, <2>1, <2>2
  <2>4. QED BY <2>2, <2>3, Cancel
<1>10. ~OnOrAbove(x1, y1, a, n + 1)
  <2>1. (n + 1) * (n + 1) * (n + 1)
          + 4 * x1 * y1 * ((4 * a - 1) * (n + 1) - 4 * a * (x1 + y1)) > 0
    BY <1>1, <1>7
  <2>2. (n + 1) * (n + 1) * (n + 1)
          + 4 * x1 * y1 * ((4 * a - 1) * (n + 1) - 4 * a * (x1 + y1)) \in Int
    OBVIOUS
  <2>3. QED BY <2>1, <2>2 DEF OnOrAbove
<1>11. n \in Nat \ {0} /\ (d <= 2 * (x1 + y1) => n <= 2 * (x1 + y1))
  BY <1>1, <1>8, <1>9
<1>12. QED BY <1>5, <1>10, <1>11

\* Naturals inside the width are what the contract's arithmetic leaves of them.
LEMMA InsideWidth ==
    ASSUME NEW v \in Nat, v <= I128Max
    PROVE  Wrap(v) = v /\ WrapProduct(v) = v /\ Fits(v)
<1>1. I128Max \in Nat
  BY I128MaxAssumption
<1>2. PICK w \in Nat \ {0} : w = I128Max + 1
  BY <1>1
<1>3. (v + w) % (2 * w) = v + w
  BY <1>1, <1>2
<1>4. WrapProduct(v) = v
  BY <1>1, <1>2, <1>3 DEF WrapProduct
<1>5. QED BY <1>1, <1>4 DEF Wrap, Fits

LEMMA NaturalQuotient ==
    ASSUME NEW n \in Nat, NEW d \in Nat \ {0}
    PROVE  RustQuotient(n, d) = n \div d
BY DEF RustQuotient

\* The arithmetic of the contract is total on the integers.
LEMMA WrappedInteger ==
    ASSUME NEW v \in Int
    PROVE  WrapProduct(v) \in Int /\ Wrap(v) \in Int
<1>1. PICK w \in Nat \ {0} : w = I128Max + 1
  BY I128MaxAssumption
<1>2. (v + w) % (2 * w) \in Int
  OBVIOUS
<1>3. v + I128Max + 1 = v + w /\ I128Max \in Nat
  BY <1>1, I128MaxAssumption
<1>4. WrapProduct(v) = ((v + w) % (2 * w)) - I128Max - 1
  BY <1>1, <1>3 DEF WrapProduct
<1>5. WrapProduct(v) \in Int
  BY <1>2, <1>3, <1>4
<1>6. Wrap(v) \in Int
  BY <1>3 DEF Wrap
<1>7. QED BY <1>5, <1>6

LEMMA RustQuotientInteger ==
    ASSUME NEW n \in Int, NEW d \in Int, d # 0
    PROVE  RustQuotient(n, d) \in Int
<1> DEFINE mag(v) == IF v < 0 THEN -v ELSE v
<1>1. mag(n) \in Nat /\ mag(d) \in Nat \ {0}
  OBVIOUS
<1> HIDE DEF mag
<1>2. mag(n) \div mag(d) \in Int
  BY <1>1
<1>3. RustQuotient(n, d) = IF (n < 0) = (d < 0) THEN mag(n) \div mag(d)
                                                  ELSE -(mag(n) \div mag(d))
  BY DEF RustQuotient, mag
<1>4. QED BY <1>2, <1>3

LEMMA ScaledInteger ==
    ASSUME NEW v \in Int, NEW w \in Int, NEW d \in Int
    PROVE  ScaledDown(v, w, d) \in Int
<1>1. v * w \in Int /\ I128Max \in Int
  BY I128MaxAssumption
<1>2. QED BY <1>1, RustQuotientInteger DEF ScaledDown

LEMMA NextInteger ==
    ASSUME NEW v \in Int, NEW n \in Int, NEW d \in Int
    PROVE  NextValue(v, n, d) \in Int
BY RustQuotientInteger DEF NextValue

\* Iterated is a run of a bounded loop.
IsIteration(f, next) ==
    f = [s \in [round : 1..MaxRounds, value : Int] |->
            IF s.round = MaxRounds \/ Converged(s.value, next[s.value]) THEN next[s.value]
            ELSE f[[round |-> s.round + 1, value |-> next[s.value]]]]

SettledAt(next) == {v \in Int : Converged(v, next[v])}

LEMMA IteratedRuns ==
    ASSUME NEW next \in [Int -> Int], NEW start \in Int
    PROVE  \E f : /\ IsRun(f, next, MaxRounds, SettledAt(next))
                  /\ Iterated(next, start) = f[StateAt(1, start)]
<1>1. Iterated(next, start) = (CHOOSE f : IsIteration(f, next))[StateAt(1, start)]
  BY Zenon DEF Iterated, IsIteration, StateAt
<1>2. LoopStates(next, MaxRounds) = [round : 1..MaxRounds, value : Int]
  BY DEF LoopStates
<1>3. \A s \in [round : 1..MaxRounds, value : Int] :
         s.value \in SettledAt(next) <=> Converged(s.value, next[s.value])
  BY DEF SettledAt
<1>4. \A f : IsRun(f, next, MaxRounds, SettledAt(next)) <=> IsIteration(f, next)
  BY <1>2, <1>3 DEF IsRun, IsIteration, StateAt
<1>5. MaxRounds \in Nat \ {0}
  BY MaxRoundsAssumption
<1>6. \A v \in DOMAIN next : next[v] \in DOMAIN next
  OBVIOUS
<1>7. \E f : IsRun(f, next, MaxRounds, SettledAt(next))
  BY <1>5, <1>6, RunExists
<1>8. \E f : IsIteration(f, next)
  BY <1>4, <1>7
<1>9. IsIteration(CHOOSE f : IsIteration(f, next), next)
  BY <1>8
<1>10. QED BY <1>1, <1>4, <1>9

\* The Next of compute_d.
DNext(x1, y1, a) ==
    [d \in Int |->
        NextValue(d,
            WrapProduct((Ann(a) * Wrap(x1 + y1)
                + 2 * ScaledDown(ScaledDown(d, d, BalanceTimesN(x1)), d, BalanceTimesN(y1))) * d),
            WrapProduct((Ann(a) - 1) * d
                + 3 * ScaledDown(ScaledDown(d, d, BalanceTimesN(x1)), d, BalanceTimesN(y1))))]

LEMMA ComputeDIterates ==
    ASSUME NEW x1, NEW y1, NEW a
    PROVE  ComputeD(x1, y1, a) = IF Wrap(x1 + y1) = 0 THEN 0
                                 ELSE Iterated(DNext(x1, y1, a), Wrap(x1 + y1))
BY Zenon DEF ComputeD, DNext

LEMMA DNextInteger ==
    ASSUME NEW x1 \in Int, NEW y1 \in Int, NEW a \in Int
    PROVE  DNext(x1, y1, a) \in [Int -> Int]
<1>1. /\ BalanceTimesN(x1) \in Int /\ BalanceTimesN(y1) \in Int
      /\ Ann(a) \in Int /\ Wrap(x1 + y1) \in Int
  BY WrappedInteger DEF BalanceTimesN, Ann
<1>2. ASSUME NEW d \in Int PROVE DNext(x1, y1, a)[d] \in Int
  <2>1. PICK dp \in Int : dp = ScaledDown(ScaledDown(d, d, BalanceTimesN(x1)), d, BalanceTimesN(y1))
    BY <1>1, ScaledInteger
  <2>2. PICK ann1 \in Int, sum \in Int : ann1 = Ann(a) /\ sum = Wrap(x1 + y1)
    BY <1>1
  <2>3. (ann1 * sum + 2 * dp) * d \in Int /\ (ann1 - 1) * d + 3 * dp \in Int
    OBVIOUS
  <2>4. /\ WrapProduct((ann1 * sum + 2 * dp) * d) \in Int
        /\ WrapProduct((ann1 - 1) * d + 3 * dp) \in Int
    BY <2>3, WrappedInteger
  <2>5. DNext(x1, y1, a)[d] = NextValue(d, WrapProduct((ann1 * sum + 2 * dp) * d),
                                           WrapProduct((ann1 - 1) * d + 3 * dp))
    BY <2>1, <2>2 DEF DNext
  <2>6. QED BY <2>4, <2>5, NextInteger
<1>3. DNext(x1, y1, a) = [d \in Int |-> DNext(x1, y1, a)[d]]
  BY DEF DNext
<1> HIDE DEF DNext
<1>4. QED BY <1>2, <1>3

\* What the width has to hold for balances up to m, and what it then does hold.
Wide(a, m) == (8 * a * m + 32 * m * m * m) * (4 * m) <= I128Max

\* What the width leaves for single products of balances up to m.
LEMMA WideFits ==
    ASSUME NEW m \in Nat \ {0}, NEW a \in Nat \ {0}, Wide(a, m)
    PROVE  /\ 32 * (a * (m * m)) + 128 * (m * m) <= I128Max
           /\ 32 * (a * m) + 128 * m <= I128Max
           /\ 32 * a <= I128Max
<1>1. PICK M2 \in Nat \ {0}, M4 \in Nat \ {0}, W \in Nat :
         /\ M2 = m * m /\ M4 = M2 * M2 /\ W = I128Max
         /\ M2 <= M4 /\ m <= M2
  <2>1. m * m \in Nat \ {0}
    OBVIOUS
  <2>2. 1 <= m * m /\ 1 <= m
    BY <2>1
  <2>3. (m * m) * 1 <= (m * m) * (m * m) /\ m * 1 <= m * m
    BY <2>1, <2>2, ProductsCompare
  <2>4. (m * m) * (m * m) \in Nat \ {0}
    BY <2>1
  <2>5. QED BY <2>1, <2>3, <2>4, I128MaxAssumption
<1>2. (8 * a * m + 32 * m * m * m) * (4 * m) = 32 * (a * (m * m)) + 128 * ((m * m) * (m * m))
  OBVIOUS
<1>3. 32 * (a * M2) + 128 * M4 <= W
  BY <1>1, <1>2 DEF Wide
<1>4. a * m <= a * M2 /\ a <= a * m /\ a * M2 \in Nat /\ a * m \in Nat
  <2>1. a * 1 <= a * m
    BY ProductsCompare
  <2>2. a * m <= a * M2
    BY <1>1, ProductsCompare
  <2>3. QED BY <1>1, <2>1, <2>2
<1>5. QED BY <1>1, <1>3, <1>4

LEMMA WideBound ==
    ASSUME NEW m \in Nat \ {0}, NEW a \in Nat \ {0}, Wide(a, m)
    PROVE  m <= I128Max
<1>1. PICK am \in Nat : am = a * m
  BY ProductPositive
<1>2. 32 * am + 128 * m <= I128Max
  BY <1>1, WideFits
<1>3. QED BY <1>1, <1>2, I128MaxAssumption

LEMMA RoundsFit ==
    ASSUME NEW m \in Nat, NEW x1 \in 1..m, NEW y1 \in 1..m, NEW a \in Nat \ {0},
           Wide(a, m), NEW d \in 1..(2 * (x1 + y1))
    PROVE  LET q1 == (d * d) \div (2 * x1)
               dp == DRatio(x1, y1, d)
           IN  /\ d * d <= I128Max /\ q1 * d <= I128Max
               /\ 4 * a * (x1 + y1) <= I128Max /\ 2 * x1 <= I128Max /\ 2 * y1 <= I128Max
               /\ (4 * a * (x1 + y1) + 2 * dp) * d <= I128Max
               /\ (4 * a - 1) * d + 3 * dp <= I128Max
<1>1. /\ m \in Nat \ {0} /\ x1 \in Nat \ {0} /\ y1 \in Nat \ {0} /\ d \in Nat \ {0}
      /\ x1 + y1 <= 2 * m /\ d <= 4 * m
  OBVIOUS
<1>2. PICK q1 \in Nat, dp \in Nat, S \in Nat \ {0} :
         /\ q1 = (d * d) \div (2 * x1) /\ q1 <= d * d
         /\ dp = DRatio(x1, y1, d) /\ (4 * x1 * y1) * dp <= d * d * d
         /\ S = x1 + y1 /\ S <= 2 * m
  <2>1. d \in Nat /\ x1 + y1 \in Nat \ {0}
    BY <1>1
  <2>2. /\ (d * d) \div (2 * x1) \in Nat /\ (d * d) \div (2 * x1) <= d * d
        /\ DRatio(x1, y1, d) \in Nat
        /\ (4 * x1 * y1) * DRatio(x1, y1, d) <= d * d * d
    BY <1>1, <2>1, RatioRounded
  <2>3. QED BY <1>1, <2>1, <2>2
<1>3. d * d <= 16 * (m * m)
  <2>1. d * d <= (4 * m) * (4 * m)
    BY <1>1, ProductsCompare
  <2>2. (4 * m) * (4 * m) = 16 * (m * m)
    OBVIOUS
  <2>3. QED BY <2>1, <2>2
<1>4. d * d * d <= 64 * (m * m * m)
  <2>1. (d * d) * d <= (16 * (m * m)) * (4 * m)
    <3>1. d * d \in Nat /\ 16 * (m * m) \in Nat /\ 4 * m \in Nat
      OBVIOUS
    <3>2. QED BY <1>1, <1>3, <3>1, ProductsCompare
  <2>2. (16 * (m * m)) * (4 * m) = 64 * (m * m * m)
    OBVIOUS
  <2>3. QED BY <2>1, <2>2
<1>5. q1 * d <= 64 * (m * m * m)
  <2>1. q1 * d <= (d * d) * d
    <3>1. d * d \in Nat
      OBVIOUS
    <3>2. QED BY <1>1, <1>2, <3>1, ProductsCompare
  <2>2. q1 * d \in Nat /\ d * d * d \in Nat
    BY <1>1
  <2>3. QED BY <1>4, <2>1, <2>2
<1>6. dp <= 16 * (m * m * m)
  <2>1. 4 * dp <= (4 * x1 * y1) * dp
    <3>1. 4 * x1 * y1 \in Nat /\ 4 <= 4 * x1 * y1
      BY <1>1
    <3>2. QED BY <3>1, ProductsCompare
  <2>2. (4 * x1 * y1) * dp \in Nat /\ d * d * d \in Nat /\ m * m * m \in Nat
    BY <1>1
  <2>3. QED BY <1>2, <1>4, <2>1, <2>2
<1>7. PICK c \in Nat \ {0}, g \in Nat \ {0}, W \in Nat :
         /\ c = m * m * m /\ g = a * m /\ W = I128Max
         /\ (8 * g + 32 * c) * (4 * m) <= W
  <2>1. m * m * m \in Nat \ {0} /\ a * m \in Nat \ {0} /\ I128Max \in Nat
    BY <1>1, I128MaxAssumption
  <2>2. (8 * (a * m) + 32 * (m * m * m)) * (4 * m) <= I128Max
    BY DEF Wide
  <2>3. QED BY <2>1, <2>2
<1>8. 32 * g + 128 * c <= W
  <2>1. (8 * g + 32 * c) * 4 <= (8 * g + 32 * c) * (4 * m)
    <3>1. 8 * g + 32 * c \in Nat /\ 4 * m \in Nat /\ 4 <= 4 * m
      BY <1>1
    <3>2. QED BY <3>1, ProductsCompare
  <2>2. (8 * g + 32 * c) * (4 * m) \in Nat
    OBVIOUS
  <2>3. QED BY <1>7, <2>1, <2>2
<1>9. a * S <= 2 * g
  <2>1. a * S <= a * (2 * m)
    BY <1>2, ProductsCompare
  <2>2. QED BY <1>7, <2>1
<1>10. a * d <= 4 * g
  <2>1. a * d <= a * (4 * m)
    BY <1>1, ProductsCompare
  <2>2. QED BY <1>7, <2>1
<1>11. m * m <= c /\ m <= c
  <2>1. m * m * 1 <= m * m * m /\ m * 1 <= m * (m * m)
    <3>1. m * m \in Nat /\ 1 <= m /\ 1 <= m * m
      BY <1>1
    <3>2. QED BY <1>1, <3>1, ProductsCompare
  <2>2. QED BY <1>7, <2>1
<1>12. d * d <= W /\ q1 * d <= W /\ 2 * x1 <= W /\ 2 * y1 <= W
  <2>1. d * d \in Nat /\ q1 * d \in Nat /\ m * m \in Nat
    BY <1>1
  <2>2. x1 <= m /\ y1 <= m
    OBVIOUS
  <2>3. QED BY <1>1, <1>3, <1>5, <1>7, <1>8, <1>11, <2>1, <2>2
<1>13. 4 * a * S <= W /\ (4 * a * S + 2 * dp) <= 8 * g + 32 * c
  <2>1. a * S \in Nat /\ 4 * a * S = 4 * (a * S)
    OBVIOUS
  <2>2. QED BY <1>6, <1>7, <1>8, <1>9, <2>1
<1>14. (4 * a * S + 2 * dp) * d <= W
  <2>1. 4 * a * S + 2 * dp \in Nat /\ 8 * g + 32 * c \in Nat /\ 4 * m \in Nat
    OBVIOUS
  <2>2. (4 * a * S + 2 * dp) * d <= (8 * g + 32 * c) * (4 * m)
    BY <1>1, <1>13, <2>1, ProductsCompare
  <2>3. (4 * a * S + 2 * dp) * d \in Nat /\ (8 * g + 32 * c) * (4 * m) \in Nat
    BY <1>1, <2>1
  <2>4. QED BY <1>7, <2>2, <2>3
<1>15. (4 * a - 1) * d + 3 * dp <= W
  <2>1. (4 * a - 1) * d = 4 * (a * d) - d /\ a * d \in Nat
    BY <1>1
  <2>2. QED BY <1>1, <1>6, <1>7, <1>8, <1>10, <2>1
<1>16. QED BY <1>2, <1>7, <1>12, <1>13, <1>14, <1>15

\* No product that compute_d may form for these balances leaves i128.
DFits(x1, y1, a) ==
    \A d \in 1..(2 * (x1 + y1)) :
        LET q1 == (d * d) \div (2 * x1)
            dp == DRatio(x1, y1, d)
        IN  /\ d * d <= I128Max /\ q1 * d <= I128Max
            /\ 4 * a * (x1 + y1) <= I128Max /\ 2 * x1 <= I128Max /\ 2 * y1 <= I128Max
            /\ (4 * a * (x1 + y1) + 2 * dp) * d <= I128Max
            /\ (4 * a - 1) * d + 3 * dp <= I128Max

LEMMA WideDFits ==
    ASSUME NEW m \in Nat, NEW x1 \in 1..m, NEW y1 \in 1..m, NEW a \in Nat \ {0}, Wide(a, m)
    PROVE  DFits(x1, y1, a)
BY RoundsFit DEF DFits

\* Inside the width a round of the contract is the round on naturals.
LEMMA DNextFits ==
    ASSUME NEW x1 \in Nat \ {0}, NEW y1 \in Nat \ {0}, NEW a \in Nat \ {0},
           DFits(x1, y1, a), NEW d \in 1..(2 * (x1 + y1))
    PROVE  DNext(x1, y1, a)[d] = DRound(x1, y1, a, d)
<1>1. /\ x1 \in Nat \ {0} /\ y1 \in Nat \ {0} /\ d \in Nat \ {0} /\ d \in Int
      /\ I128Max \in Nat
  BY I128MaxAssumption
<1>2. PICK q1 \in Nat, dp \in Nat :
         /\ q1 = (d * d) \div (2 * x1) /\ dp = DRatio(x1, y1, d)
         /\ dp = (q1 * d) \div (2 * y1)
  BY <1>1, RatioRounded DEF DRatio
<1>3. PICK S \in Nat \ {0}, A \in Nat : S = x1 + y1 /\ A = 4 * a /\ A > 3
  <2>1. x1 + y1 \in Nat \ {0} /\ 4 * a \in Nat /\ 4 * a > 3
    BY <1>1
  <2>2. QED BY <2>1
<1>4. /\ d * d <= I128Max /\ q1 * d <= I128Max
      /\ A * S <= I128Max /\ 2 * x1 <= I128Max /\ 2 * y1 <= I128Max
      /\ (A * S + 2 * dp) * d <= I128Max
      /\ (A - 1) * d + 3 * dp <= I128Max
  BY <1>2, <1>3 DEF DFits
<1>5. S <= I128Max /\ A <= I128Max
  <2>1. 1 * S <= A * S /\ A * 1 <= A * S /\ A * S \in Nat
    BY <1>3, ProductsCompare
  <2>2. QED BY <1>1, <1>4, <2>1
<1>6. Wrap(x1 + y1) = S /\ Ann(a) = A /\ BalanceTimesN(x1) = 2 * x1 /\ BalanceTimesN(y1) = 2 * y1
  <2>1. 2 * x1 \in Nat /\ 2 * y1 \in Nat
    BY <1>1
  <2>2. QED BY <1>3, <1>4, <1>5, <2>1, InsideWidth DEF Ann, BalanceTimesN
<1>7. ScaledDown(d, d, 2 * x1) = q1
  <2>1. d * d \in Nat /\ 2 * x1 \in Nat \ {0}
    BY <1>1
  <2>2. Fits(d * d) /\ RustQuotient(d * d, 2 * x1) = q1
    BY <1>2, <1>4, <2>1, InsideWidth, NaturalQuotient
  <2>3. QED BY <2>1, <2>2 DEF ScaledDown
<1>8. ScaledDown(q1, d, 2 * y1) = dp
  <2>1. q1 * d \in Nat /\ 2 * y1 \in Nat \ {0}
    BY <1>1
  <2>2. Fits(q1 * d) /\ RustQuotient(q1 * d, 2 * y1) = dp
    BY <1>2, <1>4, <2>1, InsideWidth, NaturalQuotient
  <2>3. QED BY <2>1, <2>2 DEF ScaledDown
<1>9. PICK num \in Nat, den \in Nat \ {0} :
         num = (A * S + 2 * dp) * d /\ den = (A - 1) * d + 3 * dp
  <2>1. (A * S + 2 * dp) * d \in Nat
    BY <1>1
  <2>2. (A - 1) * d \in Nat \ {0}
    BY <1>1, <1>3
  <2>3. QED BY <2>1, <2>2
<1>10. WrapProduct(num) = num /\ WrapProduct(den) = den
  BY <1>4, <1>9, InsideWidth
<1>11. DNext(x1, y1, a)[d] = NextValue(d, WrapProduct(num), WrapProduct(den))
  BY <1>1, <1>6, <1>7, <1>8, <1>9 DEF DNext
<1>12. NextValue(d, num, den) = num \div den
  BY NaturalQuotient DEF NextValue
<1>13. DRound(x1, y1, a, d) = num \div den
  BY <1>2, <1>3, <1>9 DEF DRound
<1>14. QED BY <1>10, <1>11, <1>12, <1>13

LEMMA DNextIsRound ==
    ASSUME NEW m \in Nat, NEW x1 \in 1..m, NEW y1 \in 1..m, NEW a \in Nat \ {0},
           Wide(a, m), NEW d \in 1..(2 * (x1 + y1))
    PROVE  DNext(x1, y1, a)[d] = DRound(x1, y1, a, d)
<1>1. DFits(x1, y1, a) /\ x1 \in Nat \ {0} /\ y1 \in Nat \ {0}
  BY WideDFits
<1>2. QED BY <1>1, DNextFits

\* The sum of the balances is inside the width as well.
LEMMA SumInside ==
    ASSUME NEW x1 \in Nat \ {0}, NEW y1 \in Nat \ {0}, NEW a \in Nat \ {0},
           DFits(x1, y1, a)
    PROVE  Wrap(x1 + y1) = x1 + y1
<1>1. x1 + y1 \in 1..(2 * (x1 + y1)) /\ x1 + y1 \in Nat
  OBVIOUS
<1>2. 4 * a * (x1 + y1) <= I128Max
  BY <1>1 DEF DFits
<1>3. 1 * (x1 + y1) <= (4 * a) * (x1 + y1)
  <2>1. 4 * a \in Nat /\ 1 <= 4 * a
    OBVIOUS
  <2>2. QED BY <1>1, <2>1, ProductsCompare
<1>4. (4 * a) * (x1 + y1) \in Nat /\ I128Max \in Nat
  BY <1>1, I128MaxAssumption
<1>5. x1 + y1 <= I128Max
  BY <1>1, <1>2, <1>3, <1>4
<1>6. QED BY <1>1, <1>5, InsideWidth

LEMMA SumFits ==
    ASSUME NEW m \in Nat, NEW x1 \in 1..m, NEW y1 \in 1..m, NEW a \in Nat \ {0}, Wide(a, m)
    PROVE  Wrap(x1 + y1) = x1 + y1
<1>1. DFits(x1, y1, a) /\ x1 \in Nat \ {0} /\ y1 \in Nat \ {0}
  BY WideDFits
<1>2. QED BY <1>1, SumInside

\* compute_d returns what some round has computed.
LEMMA ComputeDStops ==
    ASSUME NEW x1 \in Nat \ {0}, NEW y1 \in Nat \ {0}, NEW a \in Nat \ {0},
           DFits(x1, y1, a)
    PROVE  /\ ComputeD(x1, y1, a) \in 1..(2 * (x1 + y1))
           /\ ~OnOrAbove(x1, y1, a, ComputeD(x1, y1, a) + 1)
<1> DEFINE next == DNext(x1, y1, a)
           Good == 1..(2 * (x1 + y1))
<1>1. /\ x1 \in Nat \ {0} /\ y1 \in Nat \ {0} /\ a \in Int /\ x1 \in Int /\ y1 \in Int
      /\ x1 + y1 \in Good /\ Good \subseteq Int /\ x1 + y1 # 0
  OBVIOUS
<1>2. Wrap(x1 + y1) = x1 + y1
  BY SumInside
<1>3. next \in [Int -> Int]
  BY <1>1, DNextInteger
<1>4. \A v \in Good : next[v] \in Good /\ ~OnOrAbove(x1, y1, a, next[v] + 1)
  <2>1. ASSUME NEW v \in 1..(2 * (x1 + y1))
        PROVE  /\ DNext(x1, y1, a)[v] \in 1..(2 * (x1 + y1))
               /\ ~OnOrAbove(x1, y1, a, DNext(x1, y1, a)[v] + 1)
    <3>1. DNext(x1, y1, a)[v] = DRound(x1, y1, a, v)
      BY DNextFits
    <3>2. v \in Nat \ {0} /\ v <= 2 * (x1 + y1)
      BY <1>1
    <3>3. /\ DRound(x1, y1, a, v) \in Nat \ {0} /\ DRound(x1, y1, a, v) <= 2 * (x1 + y1)
          /\ ~OnOrAbove(x1, y1, a, DRound(x1, y1, a, v) + 1)
      BY <1>1, <3>2, RoundIsAbove
    <3>4. DRound(x1, y1, a, v) \in 1..(2 * (x1 + y1))
      BY <1>1, <3>3
    <3>5. QED BY <3>1, <3>3, <3>4
  <2>2. QED BY <2>1
<1>5. ComputeD(x1, y1, a) = Iterated(next, x1 + y1)
  BY <1>1, <1>2, ComputeDIterates
<1> HIDE DEF next, Good
<1>6. PICK f : /\ IsRun(f, next, MaxRounds, SettledAt(next))
               /\ Iterated(next, x1 + y1) = f[StateAt(1, x1 + y1)]
  BY <1>1, <1>3, IteratedRuns
<1>7. \E v \in Good : f[StateAt(1, x1 + y1)] = next[v]
  <2>1. Good \subseteq DOMAIN next /\ MaxRounds \in Nat \ {0}
    BY <1>1, <1>3, MaxRoundsAssumption
  <2>2. \A v \in Good : v \notin SettledAt(next) => next[v] \in Good
    BY <1>4
  <2>3. PICK start \in Good : start = x1 + y1
    BY <1>1
  <2>4. PICK ends : ends = SettledAt(next)
    OBVIOUS
  <2>5. IsRun(f, next, MaxRounds, ends)
    BY <1>6, <2>4
  <2>6. \A v \in Good : v \notin ends => next[v] \in Good
    BY <2>2, <2>4
  <2>7. \E v \in Good : f[StateAt(1, start)] = next[v]
    BY <2>1, <2>5, <2>6, RunResult
  <2>8. QED BY <2>3, <2>7
<1>8. QED BY <1>4, <1>5, <1>6, <1>7 DEF Good

LEMMA ComputeDAbove ==
    ASSUME NEW m \in Nat, NEW x1 \in 1..m, NEW y1 \in 1..m, NEW a \in Nat \ {0}, Wide(a, m)
    PROVE  /\ ComputeD(x1, y1, a) \in 1..(2 * (x1 + y1))
           /\ ~OnOrAbove(x1, y1, a, ComputeD(x1, y1, a) + 1)
<1>1. DFits(x1, y1, a) /\ x1 \in Nat \ {0} /\ y1 \in Nat \ {0}
  BY WideDFits
<1>2. QED BY <1>1, ComputeDStops

-----------------------------------------------------------------------------
(* Halving: what is halved in every round is gone after as many rounds as   *)
(* its width has bits.                                                       *)

IsHalving(f) == f = [v \in 0..I128Max |-> IF v = 0 THEN 0 ELSE 1 + f[v \div 2]]

LEMMA HalvingsDefined ==
    \A v \in 0..I128Max : Halvings[v] = IF v = 0 THEN 0 ELSE 1 + Halvings[v \div 2]
<1> DEFINE N == {n \in Nat : \E f : \A v \in 0..I128Max :
                    v <= n => f[v] = IF v = 0 THEN 0 ELSE 1 + f[v \div 2]}
<1>1. I128Max \in Nat
  BY I128MaxAssumption
<1>2. 0 \in N
  <2> DEFINE z == [v \in 0..I128Max |-> 0]
  <2>1. \A v \in 0..I128Max : v <= 0 => z[v] = IF v = 0 THEN 0 ELSE 1 + z[v \div 2]
    OBVIOUS
  <2> HIDE DEF z
  <2>2. QED BY <2>1
<1>3. ASSUME NEW n \in Nat, n \in N
      PROVE  n + 1 \in N
  <2>1. PICK f : \A v \in 0..I128Max :
                    v <= n => f[v] = IF v = 0 THEN 0 ELSE 1 + f[v \div 2]
    BY <1>3
  <2> DEFINE h == [v \in 0..I128Max |-> IF v <= n THEN f[v] ELSE 1 + f[v \div 2]]
  <2>2. ASSUME NEW v \in 0..I128Max, v <= n + 1
        PROVE  h[v] = IF v = 0 THEN 0 ELSE 1 + h[v \div 2]
    <3>1. CASE v = 0
      BY <2>1, <3>1
    <3>2. CASE v # 0
      <4>1. PICK u \in 0..I128Max : u = v \div 2 /\ u <= n
        BY <1>1, <2>2, <3>2
      <4>2. h[u] = f[u] /\ h[v] = 1 + f[u]
        BY <2>1, <3>2, <4>1
      <4>3. QED BY <3>2, <4>1, <4>2
    <3>3. QED BY <3>1, <3>2
  <2> HIDE DEF h
  <2>3. QED BY <2>2
<1>4. Nat \subseteq N
  <2>1. \A n \in Nat : n \in N => n + 1 \in N
    BY <1>3
  <2> HIDE DEF N
  <2>2. QED BY <1>2, <2>1, InductiveSet
<1>5. PICK f : \A v \in 0..I128Max :
                  v <= I128Max => f[v] = IF v = 0 THEN 0 ELSE 1 + f[v \div 2]
  BY <1>1, <1>4
<1> DEFINE g == [v \in 0..I128Max |-> f[v]]
<1>6. \A v \in 0..I128Max : g[v] = IF v = 0 THEN 0 ELSE 1 + g[v \div 2]
  <2>1. \A v \in 0..I128Max : v <= I128Max /\ (v # 0 => v \div 2 \in 0..I128Max)
    BY <1>1
  <2>2. \A v \in 0..I128Max : g[v] = f[v]
    OBVIOUS
  <2> HIDE DEF g
  <2>3. QED BY <1>5, <2>1, <2>2
<1>7. g = [v \in 0..I128Max |-> g[v]]
  OBVIOUS
<1> HIDE DEF g
<1>8. IsHalving(g)
  BY <1>6, <1>7 DEF IsHalving
<1>9. Halvings = CHOOSE f1 : IsHalving(f1)
  BY Zenon DEF Halvings, IsHalving
<1>10. IsHalving(Halvings)
  BY <1>8, <1>9
<1>11. QED BY <1>10 DEF IsHalving

\* More halvings are left of more.
LEMMA HalvingsGrow ==
    \A v \in 0..I128Max : /\ Halvings[v] \in Nat
                          /\ \A u \in 0..v : Halvings[u] <= Halvings[v]
<1> DEFINE N == {n \in Nat : \A v \in 0..I128Max : v <= n =>
                    /\ Halvings[v] \in Nat
                    /\ \A u \in 0..v : Halvings[u] <= Halvings[v]}
<1>1. I128Max \in Nat
  BY I128MaxAssumption
<1>2. 0 \in N
  BY <1>1, HalvingsDefined
<1>3. ASSUME NEW n \in Nat, n \in N
      PROVE  n + 1 \in N
  <2>1. ASSUME NEW v \in 0..I128Max, v <= n + 1, v # 0
        PROVE  /\ Halvings[v] \in Nat
               /\ \A u \in 0..v : Halvings[u] <= Halvings[v]
    <3>1. PICK w \in 0..I128Max : w = v \div 2 /\ w <= n
      BY <1>1, <2>1
    <3>2. Halvings[w] \in Nat /\ \A u \in 0..w : Halvings[u] <= Halvings[w]
      BY <1>3, <3>1
    <3>3. Halvings[v] = 1 + Halvings[w]
      BY <2>1, <3>1, HalvingsDefined
    <3>4. ASSUME NEW u \in 0..v PROVE Halvings[u] <= Halvings[v]
      <4>1. CASE u = 0
        <5>1. Halvings[0] = 0
          BY <1>1, HalvingsDefined
        <5>2. QED BY <3>2, <3>3, <4>1, <5>1
      <4>2. CASE u # 0
        <5>1. PICK half \in 0..w : half = u \div 2
          BY <1>1, <3>1, <4>2
        <5>2. u \in 0..I128Max /\ half \in 0..I128Max /\ half <= n
          BY <1>1, <3>1
        <5>3. Halvings[half] \in Nat /\ Halvings[half] <= Halvings[w]
          BY <1>3, <3>2, <5>2
        <5>4. Halvings[u] = 1 + Halvings[half]
          BY <4>2, <5>1, <5>2, HalvingsDefined
        <5>5. QED BY <3>2, <3>3, <5>3, <5>4
      <4>3. QED BY <4>1, <4>2
    <3>5. QED BY <3>2, <3>3, <3>4
  <2>2. ASSUME NEW v \in 0..I128Max, v <= n + 1
        PROVE  /\ Halvings[v] \in Nat
               /\ \A u \in 0..v : Halvings[u] <= Halvings[v]
    BY <1>2, <2>1, <2>2
  <2>3. QED BY <2>2
<1>4. Nat \subseteq N
  <2>1. \A n \in Nat : n \in N => n + 1 \in N
    BY <1>3
  <2> HIDE DEF N
  <2>2. QED BY <1>2, <2>1, InductiveSet
<1>5. QED
  <2>1. ASSUME NEW v \in 0..I128Max
        PROVE  /\ Halvings[v] \in Nat
               /\ \A u \in 0..v : Halvings[u] <= Halvings[v]
    BY <1>4
  <2>2. QED BY <2>1

-----------------------------------------------------------------------------
(* Stable pools: the equation that compute_y solves, y * (y + p) = c. *)

\* A round of Newton's iteration for the equation y * (y + p) = c.
QuadraticRound(p, c, y) == (y * y + c) \div (2 * y + p)

\* A round from the right of the vertex, and of the point where y + p is zero.
LEMMA QuadraticStaysRight ==
    ASSUME NEW p \in Int, NEW c \in Nat, NEW y \in Nat, y + p >= 0, 2 * y + p > 0,
           NEW n, n = QuadraticRound(p, c, y)
    PROVE  /\ n \in Nat /\ n + p >= 0
           /\ c < (n + 1) * (n + 1 + p)
           /\ n * (n + p) - c <= (n - y) * (n - y)
           /\ n = 0 /\ p = 0 => y = 1
<1>1. PICK s \in Nat \ {0}, N \in Nat : s = 2 * y + p /\ N = y * y + c
  <2>1. 2 * y + p \in Nat \ {0} /\ y * y + c \in Nat
    OBVIOUS
  <2>2. QED BY <2>1
<1>2. n \in Nat /\ n * s <= N /\ N < n * s + s
  BY <1>1, Rounded DEF QuadraticRound
<1>3. n * s \in Nat /\ y * y \in Nat
  BY <1>2
<1>4. n + p >= 0
  <2>1. SUFFICES ASSUME n + p < 0 PROVE FALSE
    BY <1>2
  <2>2. PICK k \in Nat : k = -p /\ n + 1 <= k /\ k <= y
    <3>1. -p \in Nat /\ n + 1 <= -p /\ -p <= y
      BY <1>2, <2>1
    <3>2. QED BY <3>1
  <2>3. (n + 1) * s <= k * s
    BY <1>2, <2>2, ProductsCompare
  <2>4. N - k * s = (y - k) * (y - k) + c
    BY <1>1, <2>2
  <2>5. (y - k) * (y - k) \in Nat
    <3>1. y - k \in Nat
      BY <2>2
    <3>2. QED BY <3>1
  <2>6. (n + 1) * s = n * s + s /\ k * s \in Nat
    BY <1>2
  <2>7. QED BY <1>2, <1>3, <2>3, <2>4, <2>5, <2>6
<1>5. ASSUME NEW w \in Nat
      PROVE  w * (w + p) - c = (w * s - N) + (w - y) * (w - y)
  BY <1>1
<1>6. c < (n + 1) * (n + 1 + p)
  <2>1. PICK w \in Nat : w = n + 1
    BY <1>2
  <2>2. w * (w + p) - c = (w * s - N) + (w - y) * (w - y)
    BY <1>5
  <2>3. w * s = n * s + s
    BY <1>2, <2>1
  <2>4. (w - y) * (w - y) >= 0 /\ (w - y) * (w - y) \in Int
    <3>1. PICK e \in Int : e = w - y
      BY <2>1
    <3>2. e * e >= 0 /\ e * e \in Int
      OBVIOUS
    <3>3. QED BY <3>1, <3>2
  <2>5. w * (w + p) \in Int
    OBVIOUS
  <2>6. w * (w + p) > c
    BY <1>1, <1>2, <1>3, <2>2, <2>3, <2>4, <2>5
  <2>7. QED BY <2>1, <2>6
<1>7. n * (n + p) - c <= (n - y) * (n - y)
  <2>1. n * (n + p) - c = (n * s - N) + (n - y) * (n - y)
    BY <1>2, <1>5
  <2>2. n * (n + p) \in Int /\ (n - y) * (n - y) \in Int
    BY <1>2
  <2>3. QED BY <1>1, <1>2, <1>3, <2>1, <2>2
<1>8. n = 0 /\ p = 0 => y = 1
  <2>1. SUFFICES ASSUME n = 0, p = 0, y >= 2 PROVE FALSE
    BY <1>1
  <2>2. N < 2 * y
    BY <1>1, <1>2, <2>1
  <2>3. 2 * y <= y * y
    BY <2>1, ProductsCompare
  <2>4. QED BY <1>1, <1>3, <2>2, <2>3
<1>9. QED BY <1>2, <1>4, <1>6, <1>7, <1>8

\* From above the root a round goes up by one at most, and comes at least
\* half the way down to root, the last natural that is not above it.
LEMMA QuadraticDescends ==
    ASSUME NEW p \in Int, NEW c \in Nat, NEW y \in Nat, y + p >= 0, 2 * y + p > 0,
           c < (y + 1) * (y + 1 + p),
           NEW root \in Nat, root <= y, root + p >= 0, c < (root + 1) * (root + 1 + p),
           NEW n, n = QuadraticRound(p, c, y)
    PROVE  /\ n <= y + 1
           /\ y - root <= 1 => n <= root + 1
           /\ 2 <= y - root => 2 * (n - root) <= y - root
<1>1. PICK s \in Nat \ {0}, N \in Nat : s = 2 * y + p /\ N = y * y + c
  <2>1. 2 * y + p \in Nat \ {0} /\ y * y + c \in Nat
    OBVIOUS
  <2>2. QED BY <2>1
<1>2. n \in Nat /\ n * s <= N
  BY <1>1, Rounded DEF QuadraticRound
<1>3. PICK M \in Nat : M = y - root
  <2>1. y - root \in Nat
    OBVIOUS
  <2>2. QED BY <2>1
<1>4. N <= (root + 1) * s + M * M - 2 * M
  <2>1. y * y + (root + 1) * (root + 1 + p) = (root + 1) * s + M * M - 2 * M + 1
    BY <1>1, <1>3
  <2>2. (root + 1) * (root + 1 + p) \in Int /\ y * y \in Int /\ (root + 1) * s \in Int /\ M * M \in Int
    OBVIOUS
  <2>3. QED BY <1>1, <2>1, <2>2
<1>5. s >= 2 * M
  BY <1>1, <1>3
<1>6. y - root <= 1 => n <= root + 1
  <2>1. SUFFICES ASSUME M <= 1, root + 2 <= n PROVE FALSE
    BY <1>2, <1>3
  <2>2. (root + 2) * s <= n * s
    BY <1>2, <2>1, ProductsCompare
  <2>3. M * M - 2 * M <= 0
    <3>1. M = 0 \/ M = 1
      BY <2>1
    <3>2. QED BY <3>1
  <2>4. (root + 2) * s = (root + 1) * s + s /\ (root + 1) * s \in Nat /\ n * s \in Nat /\ M * M \in Nat
    BY <1>2
  <2>5. QED BY <1>1, <1>2, <1>4, <2>2, <2>3, <2>4
<1>7. 2 <= y - root => 2 * (n - root) <= y - root
  <2>1. SUFFICES ASSUME 2 <= M, M + 1 <= 2 * (n - root) PROVE FALSE
    BY <1>2, <1>3
  <2>2. PICK t \in Nat : t = n - root /\ t >= 1
    <3>1. n - root \in Nat /\ n - root >= 1
      BY <1>2, <2>1
    <3>2. QED BY <3>1
  <2>3. (t - 1) * s <= M * M - 2 * M
    <3>1. n * s = (root + 1) * s + (t - 1) * s
      BY <1>2, <2>2
    <3>2. n * s \in Int /\ (root + 1) * s \in Int /\ (t - 1) * s \in Int /\ M * M \in Int
      BY <1>2
    <3>3. QED BY <1>1, <1>2, <1>4, <3>1, <3>2
  <2>4. (t - 1) * (2 * M) <= (t - 1) * s
    <3>1. t - 1 \in Nat /\ 2 * M \in Nat
      BY <2>2
    <3>2. QED BY <1>5, <3>1, ProductsCompare
  <2>5. (M - 1) * M <= (2 * t - 2) * M
    <3>1. M - 1 \in Nat /\ 2 * t - 2 \in Nat /\ M - 1 <= 2 * t - 2
      BY <2>1, <2>2
    <3>2. QED BY <3>1, ProductsCompare
  <2>6. (M - 1) * M = M * M - M /\ (2 * t - 2) * M = (t - 1) * (2 * M)
    OBVIOUS
  <2>7. M * M \in Nat /\ (t - 1) * (2 * M) \in Int /\ (t - 1) * s \in Int
    OBVIOUS
  <2>8. QED BY <2>1, <2>3, <2>4, <2>5, <2>6, <2>7
<1>8. n <= y + 1
  <2>1. CASE M <= 1
    BY <1>2, <1>3, <1>6, <2>1
  <2>2. CASE 2 <= M
    BY <1>2, <1>3, <1>7, <2>2
  <2>3. QED BY <2>1, <2>2
<1>9. QED BY <1>6, <1>7, <1>8
\* From at most d + h no round passes it, if c is at most h * b: from d a round
\* gets no farther, and from above the root it goes up by one at most.
LEMMA QuadraticBounded ==
    ASSUME NEW b \in Nat \ {0}, NEW c \in Nat, NEW h \in Nat, NEW d \in Nat \ {0},
           c <= h * b,
           NEW y \in 0..(d + h), y + b >= d, 2 * y + b > d,
           y = d \/ c < (y + 1) * (y + 1 + (b - d)),
           NEW root \in Nat, y # d => root <= y, root + b >= d,
           c < (root + 1) * (root + 1 + (b - d)),
           NEW n, n = QuadraticRound(b - d, c, y)
    PROVE  n <= d + h
<1>1. PICK s \in Nat \ {0}, N \in Nat : s = 2 * y + (b - d) /\ N = y * y + c
  <2>1. 2 * y + (b - d) \in Nat \ {0} /\ y * y + c \in Nat
    OBVIOUS
  <2>2. QED BY <2>1
<1>2. n \in Nat /\ n * s <= N
  BY <1>1, Rounded DEF QuadraticRound
<1>3. y \in Nat /\ d + h \in Nat /\ b - d \in Int
  OBVIOUS
<1>4. CASE y = d
  <2>1. N <= (d + h) * s
    <3>1. (d + h) * s = d * d + d * b + h * d + h * b
      BY <1>1, <1>4
    <3>2. d * b \in Nat /\ h * d \in Nat /\ h * b \in Nat /\ d * d \in Nat
      OBVIOUS
    <3>3. QED BY <1>1, <1>4, <3>1, <3>2
  <2>2. n * s \in Nat /\ (d + h) * s \in Nat
    BY <1>2
  <2>3. n * s <= (d + h) * s
    BY <1>2, <2>1, <2>2
  <2>4. QED BY <1>2, <1>3, <2>3, Cancel
<1>5. CASE y # d /\ y < d + h
  <2>1. n <= y + 1
    BY <1>3, <1>5, QuadraticDescends
  <2>2. QED BY <1>2, <1>3, <1>5, <2>1
<1>6. CASE y = d + h
  <2>1. N <= y * s
    <3>1. y * s - N = (y * (y + (b - d)) - h * b) + (h * b - c)
      BY <1>1
    <3>2. y * (y + (b - d)) = h * b + d * b + d * h + h * h
      BY <1>6
    <3>3. d * b \in Nat /\ d * h \in Nat /\ h * h \in Nat /\ h * b \in Nat /\ y * s \in Nat
      BY <1>3
    <3>4. QED BY <1>1, <3>1, <3>2, <3>3
  <2>2. n * s \in Nat /\ y * s \in Nat
    BY <1>2
  <2>3. n * s <= y * s
    BY <1>2, <2>1, <2>2
  <2>4. n <= y
    BY <1>2, <1>3, <2>3, Cancel
  <2>5. QED BY <1>6, <2>4
<1>7. QED BY <1>3, <1>4, <1>5, <1>6

-----------------------------------------------------------------------------
(* Stable pools: one round of compute_y on naturals. *)

YQuotient(x1, d) == (d * d) \div (2 * x1)
YConstant(x1, a, d) == (YQuotient(x1, d) * d) \div (8 * a)
YLinear(x1, a, d) == x1 + d \div (4 * a)
YHalf(x1, d) == (YQuotient(x1, d) + 1) \div 2

YRound(x1, a, d, y) ==
    QuadraticRound(YLinear(x1, a, d) - d, YConstant(x1, a, d), y)

\* Whether y is to the right of the vertex, and whether one more is above the
\* root, as it is after any round.
RightOfVertex(x1, a, d, y) ==
    y + YLinear(x1, a, d) >= d /\ 2 * y + YLinear(x1, a, d) > d

OneAbove(x1, a, d, y) ==
    YConstant(x1, a, d) < (y + 1) * (y + 1 + (YLinear(x1, a, d) - d))

\* The values that the loop meets.
YGood(x1, a, d) ==
    {y \in 0..(d + YHalf(x1, d)) :
        RightOfVertex(x1, a, d, y) /\ (y = d \/ OneAbove(x1, a, d, y))}

LEMMA YTerms ==
    ASSUME NEW x1 \in Nat \ {0}, NEW a \in Nat \ {0}, NEW d \in Nat \ {0}
    PROVE  /\ YQuotient(x1, d) \in Nat /\ YConstant(x1, a, d) \in Nat
           /\ YLinear(x1, a, d) \in Nat \ {0} /\ YHalf(x1, d) \in Nat
           /\ YConstant(x1, a, d) <= YHalf(x1, d) * YLinear(x1, a, d)
           /\ d \in YGood(x1, a, d)
<1>1. PICK q1 \in Nat : q1 = YQuotient(x1, d)
  <2>1. d * d \in Nat /\ 2 * x1 \in Nat /\ 2 * x1 > 0
    OBVIOUS
  <2>2. QED BY <2>1, Rounded DEF YQuotient
<1>2. PICK c \in Nat : c = YConstant(x1, a, d) /\ c * (8 * a) <= q1 * d
  <2>1. q1 * d \in Nat /\ 8 * a \in Nat /\ 8 * a > 0
    OBVIOUS
  <2>2. QED BY <1>1, <2>1, Rounded DEF YConstant
<1>3. PICK e \in Nat : e = d \div (4 * a) /\ d < e * (4 * a) + 4 * a
  <2>1. 4 * a \in Nat /\ 4 * a > 0
    OBVIOUS
  <2>2. QED BY <2>1, Rounded
<1>4. PICK h \in Nat : h = YHalf(x1, d) /\ q1 <= 2 * h
  BY <1>1 DEF YHalf
<1>5. YLinear(x1, a, d) = x1 + e /\ x1 + e \in Nat \ {0} /\ e + 1 <= x1 + e
  BY <1>3 DEF YLinear
<1>6. c <= h * (x1 + e)
  <2>1. q1 * d <= q1 * ((e + 1) * (4 * a))
    <3>1. (e + 1) * (4 * a) \in Nat /\ (e + 1) * (4 * a) = e * (4 * a) + 4 * a
      OBVIOUS
    <3>2. e * (4 * a) \in Nat
      OBVIOUS
    <3>3. d <= (e + 1) * (4 * a)
      BY <1>3, <3>1, <3>2
    <3>4. QED BY <3>1, <3>3, ProductsCompare
  <2>2. q1 * (e + 1) <= (2 * h) * (x1 + e)
    <3>1. 2 * h \in Nat /\ e + 1 \in Nat /\ x1 + e \in Nat
      OBVIOUS
    <3>2. QED BY <1>4, <1>5, <3>1, ProductsCompare
  <2>3. (q1 * (e + 1)) * (4 * a) <= ((2 * h) * (x1 + e)) * (4 * a)
    <3>1. q1 * (e + 1) \in Nat /\ (2 * h) * (x1 + e) \in Nat /\ 4 * a \in Nat
      OBVIOUS
    <3>2. QED BY <2>2, <3>1, ProductsCompare
  <2>4. q1 * ((e + 1) * (4 * a)) = (q1 * (e + 1)) * (4 * a)
    OBVIOUS
  <2>5. ((2 * h) * (x1 + e)) * (4 * a) = (h * (x1 + e)) * (8 * a)
    OBVIOUS
  <2>6. /\ c * (8 * a) \in Nat /\ q1 * d \in Nat /\ (q1 * (e + 1)) * (4 * a) \in Nat
        /\ (h * (x1 + e)) * (8 * a) \in Nat
    OBVIOUS
  <2>7. c * (8 * a) <= (h * (x1 + e)) * (8 * a)
    BY <1>2, <2>1, <2>3, <2>4, <2>5, <2>6
  <2>8. 8 * a \in Nat /\ 8 * a > 0 /\ h * (x1 + e) \in Nat
    OBVIOUS
  <2>9. QED BY <2>7, <2>8, Cancel
<1>7. d \in YGood(x1, a, d)
  <2>1. d \in 0..(d + h)
    OBVIOUS
  <2>2. RightOfVertex(x1, a, d, d)
    BY <1>5 DEF RightOfVertex
  <2>3. QED BY <1>4, <2>1, <2>2 DEF YGood
<1>8. QED BY <1>1, <1>2, <1>4, <1>5, <1>6, <1>7

\* The last natural that is not above the root.
YRoot(x1, a, d) ==
    CHOOSE y \in Nat :
        /\ y + YLinear(x1, a, d) >= d /\ OneAbove(x1, a, d, y)
        /\ \A z \in Nat : z + YLinear(x1, a, d) >= d /\ OneAbove(x1, a, d, z) => y <= z

LEMMA YRootExists ==
    ASSUME NEW x1 \in Nat \ {0}, NEW a \in Nat \ {0}, NEW d \in Nat \ {0}
    PROVE  /\ YRoot(x1, a, d) \in Nat
           /\ YRoot(x1, a, d) + YLinear(x1, a, d) >= d
           /\ OneAbove(x1, a, d, YRoot(x1, a, d))
           /\ \A z \in Nat : z + YLinear(x1, a, d) >= d /\ OneAbove(x1, a, d, z)
                                => YRoot(x1, a, d) <= z
<1> DEFINE T == {y \in Nat : y + YLinear(x1, a, d) >= d /\ OneAbove(x1, a, d, y)}
<1>1. PICK b \in Nat \ {0}, c \in Nat : b = YLinear(x1, a, d) /\ c = YConstant(x1, a, d)
  BY YTerms
<1>2. d + c \in T
  <2>1. PICK w \in Nat : w = d + c + 1
    OBVIOUS
  <2>2. w * (w + (b - d)) = w * b + w * (c + 1)
    BY <2>1
  <2>3. w * (c + 1) >= 1 * (c + 1)
    <3>1. 1 <= w /\ 1 \in Nat /\ c + 1 \in Nat
      BY <2>1
    <3>2. QED BY <3>1, ProductsCompare
  <2>4. w * b \in Nat /\ w * (c + 1) \in Nat
    OBVIOUS
  <2>5. c < w * (w + (b - d))
    BY <2>2, <2>3, <2>4
  <2>6. c < (d + c + 1) * (d + c + 1 + (b - d))
    BY <2>1, <2>5
  <2>7. QED BY <1>1, <2>6 DEF OneAbove
<1>3. PICK y \in T : \A z \in T : y <= z
  <2>1. T \in SUBSET Nat /\ T # {}
    BY <1>2
  <2> HIDE DEF T
  <2>2. QED BY <2>1, LeastNatural
<1>4. \E z \in Nat :
        /\ z + YLinear(x1, a, d) >= d /\ OneAbove(x1, a, d, z)
        /\ \A u \in Nat : u + YLinear(x1, a, d) >= d /\ OneAbove(x1, a, d, u) => z <= u
  BY <1>3
<1>5. QED BY <1>4 DEF YRoot

\* A round keeps to those values, unless it settles.
LEMMA YRoundIsGood ==
    ASSUME NEW x1 \in Nat \ {0}, NEW a \in Nat \ {0}, NEW d \in Nat \ {0},
           NEW y \in YGood(x1, a, d)
    PROVE  LET n == YRound(x1, a, d, y)
               b == YLinear(x1, a, d)
           IN  /\ n \in 0..(d + YHalf(x1, d)) /\ n + b >= d /\ OneAbove(x1, a, d, n)
               /\ n * (n + (b - d)) - YConstant(x1, a, d) <= (n - y) * (n - y)
               /\ ~(y - 1 <= n /\ n <= y + 1) => n \in YGood(x1, a, d)
<1>1. PICK b \in Nat \ {0}, c \in Nat, h \in Nat :
         /\ b = YLinear(x1, a, d) /\ c = YConstant(x1, a, d) /\ h = YHalf(x1, d)
         /\ c <= h * b
  BY YTerms
<1>2. /\ y \in 0..(d + h) /\ y \in Nat /\ y + b >= d /\ 2 * y + b > d
      /\ y = d \/ OneAbove(x1, a, d, y)
  BY <1>1 DEF YGood, RightOfVertex
<1>3. PICK root \in Nat :
         /\ root + b >= d /\ OneAbove(x1, a, d, root)
         /\ \A z \in Nat : z + b >= d /\ OneAbove(x1, a, d, z) => root <= z
  BY <1>1, YRootExists
<1>4. y # d => root <= y
  BY <1>2, <1>3
<1>5. PICK p \in Int : p = b - d
  OBVIOUS
<1>6. y + p >= 0 /\ 2 * y + p > 0
  BY <1>2, <1>5
<1>7. PICK n : n = YRound(x1, a, d, y) /\ n = QuadraticRound(p, c, y)
  BY <1>1, <1>5 DEF YRound
<1>8. /\ n \in Nat /\ n + p >= 0
      /\ c < (n + 1) * (n + 1 + p)
      /\ n * (n + p) - c <= (n - y) * (n - y)
      /\ n = 0 /\ p = 0 => y = 1
  BY <1>2, <1>6, <1>7, QuadraticStaysRight
<1>9. n <= d + h
  <2>1. c < (root + 1) * (root + 1 + (b - d)) /\ n = QuadraticRound(b - d, c, y)
    BY <1>1, <1>3, <1>5, <1>7 DEF OneAbove
  <2>2. y = d \/ c < (y + 1) * (y + 1 + (b - d))
    BY <1>1, <1>2 DEF OneAbove
  <2>3. QED BY <1>1, <1>2, <1>3, <1>4, <2>1, <2>2, QuadraticBounded
<1>10. n \in 0..(d + h) /\ n + b >= d /\ OneAbove(x1, a, d, n)
  BY <1>1, <1>5, <1>8, <1>9 DEF OneAbove
<1>11. ASSUME ~(y - 1 <= n /\ n <= y + 1) PROVE n \in YGood(x1, a, d)
  <2>1. 2 * n + b > d
    BY <1>5, <1>8, <1>11
  <2>2. QED BY <1>1, <1>10, <2>1 DEF YGood, RightOfVertex
<1>12. n * (n + (b - d)) - c <= (n - y) * (n - y)
  BY <1>5, <1>8
<1> HIDE DEF YGood
<1>13. QED BY <1>1, <1>7, <1>10, <1>11, <1>12

-----------------------------------------------------------------------------
(* Stable pools: what a round returns, against the curve. *)

\* What the quotients of compute_y round off.
LEMMA YRatios ==
    ASSUME NEW x1 \in Nat \ {0}, NEW a \in Nat \ {0}, NEW d \in Nat \ {0}
    PROVE  \E q1 \in Nat, c \in Nat, b \in Nat \ {0}, e \in Nat, rest \in 0..(4 * a - 1) :
              /\ c = YConstant(x1, a, d) /\ b = YLinear(x1, a, d)
              /\ b = x1 + e /\ 4 * a * x1 + d = 4 * a * b + rest
              /\ 16 * a * x1 * c <= d * d * d
              /\ d * d * d < 16 * a * x1 * (c + 1) + 2 * x1 * d
              /\ d * d < 2 * x1 * (q1 + 1)
              /\ q1 * d < 8 * a * (c + 1)
<1>1. PICK q1 \in Nat :
         /\ q1 = YQuotient(x1, d) /\ q1 * (2 * x1) <= d * d
         /\ d * d < q1 * (2 * x1) + 2 * x1
  <2>1. d * d \in Nat /\ 2 * x1 \in Nat /\ 2 * x1 > 0
    OBVIOUS
  <2>2. QED BY <2>1, Rounded DEF YQuotient
<1>2. PICK c \in Nat :
         /\ c = YConstant(x1, a, d) /\ c * (8 * a) <= q1 * d
         /\ q1 * d < c * (8 * a) + 8 * a
  <2>1. q1 * d \in Nat /\ 8 * a \in Nat /\ 8 * a > 0
    OBVIOUS
  <2>2. QED BY <1>1, <2>1, Rounded DEF YConstant
<1>3. PICK e \in Nat :
         /\ e = d \div (4 * a) /\ e * (4 * a) <= d /\ d < e * (4 * a) + 4 * a
  <2>1. 4 * a \in Nat /\ 4 * a > 0
    OBVIOUS
  <2>2. QED BY <2>1, Rounded
<1>4. PICK b \in Nat \ {0}, rest \in 0..(4 * a - 1) :
         /\ b = YLinear(x1, a, d) /\ b = x1 + e
         /\ 4 * a * x1 + d = 4 * a * b + rest
  <2>1. x1 + e \in Nat \ {0} /\ YLinear(x1, a, d) = x1 + e
    BY <1>3 DEF YLinear
  <2>2. e * (4 * a) \in Nat /\ 4 * a \in Nat
    OBVIOUS
  <2>3. d - e * (4 * a) \in 0..(4 * a - 1)
    BY <1>3, <2>2
  <2>4. 4 * a * x1 + d = 4 * a * (x1 + e) + (d - e * (4 * a))
    OBVIOUS
  <2>5. QED BY <2>1, <2>3, <2>4
<1>5. 16 * a * x1 * c <= d * d * d
  <2>1. (c * (8 * a)) * (2 * x1) <= (q1 * d) * (2 * x1)
    <3>1. c * (8 * a) \in Nat /\ q1 * d \in Nat /\ 2 * x1 \in Nat
      OBVIOUS
    <3>2. QED BY <1>2, <3>1, ProductsCompare
  <2>2. (q1 * (2 * x1)) * d <= (d * d) * d
    <3>1. q1 * (2 * x1) \in Nat /\ d * d \in Nat
      OBVIOUS
    <3>2. QED BY <1>1, <3>1, ProductsCompare
  <2>3. /\ (c * (8 * a)) * (2 * x1) = 16 * a * x1 * c
        /\ (q1 * d) * (2 * x1) = (q1 * (2 * x1)) * d
    OBVIOUS
  <2>4. 16 * a * x1 * c \in Nat /\ (q1 * (2 * x1)) * d \in Nat /\ d * d * d \in Nat
    OBVIOUS
  <2>5. QED BY <2>1, <2>2, <2>3, <2>4
<1>6. d * d < 2 * x1 * (q1 + 1) /\ q1 * d < 8 * a * (c + 1)
  <2>1. 2 * x1 * (q1 + 1) = q1 * (2 * x1) + 2 * x1 /\ 8 * a * (c + 1) = c * (8 * a) + 8 * a
    OBVIOUS
  <2>2. QED BY <1>1, <1>2, <2>1
<1>7. d * d * d < 16 * a * x1 * (c + 1) + 2 * x1 * d
  <2>1. (d * d + 1) * d <= (2 * x1 * (q1 + 1)) * d
    <3>1. d * d + 1 \in Nat /\ 2 * x1 * (q1 + 1) \in Nat /\ d * d + 1 <= 2 * x1 * (q1 + 1)
      <4>1. d * d \in Nat /\ 2 * x1 * (q1 + 1) \in Nat
        OBVIOUS
      <4>2. QED BY <1>6, <4>1
    <3>2. QED BY <3>1, ProductsCompare
  <2>2. (q1 * d + 1) * (2 * x1) <= (8 * a * (c + 1)) * (2 * x1)
    <3>1. q1 * d + 1 \in Nat /\ 8 * a * (c + 1) \in Nat /\ q1 * d + 1 <= 8 * a * (c + 1)
      <4>1. q1 * d \in Nat /\ 8 * a * (c + 1) \in Nat
        OBVIOUS
      <4>2. QED BY <1>6, <4>1
    <3>2. QED BY <3>1, ProductsCompare
  <2>3. /\ (d * d + 1) * d = d * d * d + d
        /\ (2 * x1 * (q1 + 1)) * d = 2 * x1 * q1 * d + 2 * x1 * d
        /\ (q1 * d + 1) * (2 * x1) = 2 * x1 * q1 * d + 2 * x1
        /\ (8 * a * (c + 1)) * (2 * x1) = 16 * a * x1 * (c + 1)
    OBVIOUS
  <2>4. /\ d * d * d \in Nat /\ 2 * x1 * q1 * d \in Nat /\ 2 * x1 * d \in Nat
        /\ 16 * a * x1 * (c + 1) \in Nat
    OBVIOUS
  <2>5. QED BY <2>1, <2>2, <2>3, <2>4
<1>8. QED BY <1>2, <1>4, <1>5, <1>6, <1>7

\* OnOrAbove in the terms of the equation that compute_y solves.
LEMMA CurveAsQuadratic ==
    ASSUME NEW x1 \in Nat, NEW a \in Nat, NEW d \in Nat, NEW w \in Nat,
           NEW b \in Nat, NEW rest \in Nat, 4 * a * x1 + d = 4 * a * b + rest
    PROVE  OnOrAbove(x1, w, a, d)
             <=> d * d * d <= 16 * a * x1 * (w * (w + (b - d))) + 4 * x1 * w * rest
<1>1. 4 * x1 * w * ((4 * a - 1) * d - 4 * a * (x1 + w))
        = -(4 * x1 * w * (4 * a * w - 4 * a * d + (4 * a * x1 + d)))
  OBVIOUS
<1>2. 4 * x1 * w * (4 * a * w - 4 * a * d + (4 * a * b + rest))
        = 16 * a * x1 * (w * (w + (b - d))) + 4 * x1 * w * rest
  OBVIOUS
<1>3. 4 * x1 * w * ((4 * a - 1) * d - 4 * a * (x1 + w))
        = -(16 * a * x1 * (w * (w + (b - d))) + 4 * x1 * w * rest)
  BY <1>1, <1>2
<1>4. d * d * d \in Int /\ 16 * a * x1 * (w * (w + (b - d))) + 4 * x1 * w * rest \in Int
  OBVIOUS
<1>5. QED BY <1>3, <1>4 DEF OnOrAbove

\* What any round returns is at most two units below the balance that keeps d.
LEMMA YReachesCurve ==
    ASSUME NEW x1 \in Nat \ {0}, NEW a \in Nat \ {0}, NEW d \in Nat \ {0},
           NEW n \in Nat, n + YLinear(x1, a, d) >= d, OneAbove(x1, a, d, n)
    PROVE  OnOrAbove(x1, n + 2, a, d)
<1>1. PICK q1 \in Nat, c \in Nat, b \in Nat \ {0}, e \in Nat, rest \in 0..(4 * a - 1) :
         /\ c = YConstant(x1, a, d) /\ b = YLinear(x1, a, d)
         /\ b = x1 + e /\ 4 * a * x1 + d = 4 * a * b + rest
         /\ 16 * a * x1 * c <= d * d * d
         /\ d * d * d < 16 * a * x1 * (c + 1) + 2 * x1 * d
         /\ d * d < 2 * x1 * (q1 + 1)
         /\ q1 * d < 8 * a * (c + 1)
  BY YRatios
<1>2. PICK w \in Nat, p \in Int, u \in Nat :
         /\ w = n + 1 /\ p = b - d /\ u = 2 * w + p
         /\ w + p >= 1 /\ c < w * (w + p)
  <2>1. n + 1 \in Nat /\ b - d \in Int /\ 2 * (n + 1) + (b - d) \in Nat
    BY <1>1
  <2>2. (n + 1) + (b - d) >= 1 /\ c < (n + 1) * (n + 1 + (b - d))
    BY <1>1 DEF OneAbove
  <2>3. QED BY <2>1, <2>2
<1>3. u >= 2 /\ w >= 1
  BY <1>2
<1>4. 4 * (c + 1) <= u * u
  <2>1. u * u = 4 * (w * (w + p)) + p * p
    BY <1>2
  <2>2. p * p >= 0 /\ p * p \in Int /\ w * (w + p) \in Int
    OBVIOUS
  <2>3. QED BY <1>2, <2>1, <2>2
<1>5. d <= 8 * a * (u + 1)
  <2>1. SUFFICES ASSUME 8 * a * (u + 1) < d PROVE FALSE
    <3>1. 8 * a * (u + 1) \in Nat
      OBVIOUS
    <3>2. QED BY <3>1
  <2>2. 8 * a * (u + 1) \in Nat /\ 4 * a * (u + 1) \in Nat /\ 8 * (u + 1) <= 8 * a * (u + 1)
    <3>1. (8 * (u + 1)) * 1 <= (8 * (u + 1)) * a
      <4>1. 8 * (u + 1) \in Nat /\ 1 <= a
        OBVIOUS
      <4>2. QED BY <4>1, ProductsCompare
    <3>2. (8 * (u + 1)) * a = 8 * a * (u + 1) /\ (8 * (u + 1)) * 1 = 8 * (u + 1)
      OBVIOUS
    <3>3. QED BY <3>1, <3>2
  <2>3. CASE x1 >= d
    <3>1. u >= e + 2
      BY <1>1, <1>2, <2>3
    <3>2. (4 * a) * (e + 1) <= (4 * a) * (u + 1)
      <4>1. 4 * a \in Nat /\ e + 1 <= u + 1
        BY <3>1
      <4>2. QED BY <4>1, ProductsCompare
    <3>3. d = 4 * a * e + rest
      <4>1. 4 * a * (x1 + e) = 4 * a * x1 + 4 * a * e
        OBVIOUS
      <4>2. 4 * a * x1 \in Nat /\ 4 * a * e \in Nat
        OBVIOUS
      <4>3. QED BY <1>1, <4>1, <4>2
    <3>4. (4 * a) * (e + 1) = 4 * a * e + 4 * a /\ 4 * a * e \in Nat
          /\ 8 * a * (u + 1) = 2 * ((4 * a) * (u + 1)) /\ (4 * a) * (u + 1) \in Nat
      OBVIOUS
    <3>5. d < (4 * a) * (e + 1)
      BY <3>3, <3>4
    <3>6. (4 * a) * (e + 1) \in Nat
      OBVIOUS
    <3>7. QED BY <2>1, <3>2, <3>4, <3>5, <3>6
  <2>4. CASE x1 < d
    <3>1. d < 2 * (q1 + 1)
      <4>1. SUFFICES ASSUME 2 * (q1 + 1) <= d PROVE FALSE
        OBVIOUS
      <4>2. x1 * (2 * (q1 + 1)) <= d * d
        BY <2>4, <4>1, ProductsCompare
      <4>3. x1 * (2 * (q1 + 1)) = 2 * x1 * (q1 + 1) /\ d * d \in Nat /\ 2 * x1 * (q1 + 1) \in Nat
        OBVIOUS
      <4>4. QED BY <1>1, <4>2, <4>3
    <3>2. d * (d - 1) <= (2 * q1) * d
      <4>1. d - 1 \in Nat /\ d - 1 <= 2 * q1
        BY <3>1
      <4>2. (d - 1) * d <= (2 * q1) * d
        BY <4>1, ProductsCompare
      <4>3. (d - 1) * d = d * (d - 1)
        OBVIOUS
      <4>4. QED BY <4>2, <4>3
    <3>3. d * (d - 1) < 4 * a * (u * u)
      <4>1. a * (4 * (c + 1)) <= a * (u * u)
        <5>1. 4 * (c + 1) \in Nat /\ u * u \in Nat
          OBVIOUS
        <5>2. QED BY <1>4, <5>1, ProductsCompare
      <4>2. 8 * a * (c + 1) = 2 * (a * (4 * (c + 1))) /\ (2 * q1) * d = 2 * (q1 * d)
            /\ 4 * a * (u * u) = 4 * (a * (u * u))
        OBVIOUS
      <4>3. /\ a * (4 * (c + 1)) \in Nat /\ a * (u * u) \in Nat /\ q1 * d \in Nat
            /\ d * (d - 1) \in Int
        OBVIOUS
      <4>4. QED BY <1>1, <3>2, <4>1, <4>2, <4>3
    <3>4. (8 * a * (u + 1)) * u <= d * u
      <4>1. 8 * a * (u + 1) <= d
        BY <2>1, <2>2
      <4>2. QED BY <2>2, <4>1, ProductsCompare
    <3>5. 8 * a * (u * u) <= (8 * a * (u + 1)) * u
      <4>1. (8 * a * (u + 1)) * u = 8 * a * (u * u) + 8 * a * u
        OBVIOUS
      <4>2. 8 * a * u \in Nat /\ 8 * a * (u * u) \in Nat
        OBVIOUS
      <4>3. QED BY <4>1, <4>2
    <3>6. d * (2 * (d - 1)) < d * u
      <4>1. d * (2 * (d - 1)) = 2 * (d * (d - 1)) /\ 8 * a * (u * u) = 2 * (4 * a * (u * u))
        OBVIOUS
      <4>2. /\ d * (d - 1) \in Int /\ 4 * a * (u * u) \in Int
            /\ (8 * a * (u + 1)) * u \in Int /\ d * u \in Int
        OBVIOUS
      <4>3. QED BY <3>3, <3>4, <3>5, <4>1, <4>2
    <3>7. u <= 2 * (d - 1)
      BY <1>3, <2>1, <2>2
    <3>8. d * u <= d * (2 * (d - 1))
      <4>1. 2 * (d - 1) \in Nat
        OBVIOUS
      <4>2. QED BY <3>7, <4>1, ProductsCompare
    <3>9. d * u \in Int /\ d * (2 * (d - 1)) \in Int
      OBVIOUS
    <3>10. QED BY <3>6, <3>8, <3>9
  <2>5. QED BY <2>3, <2>4
<1>6. PICK K \in Nat \ {0} : K = 16 * a * x1
  BY ProductPositive
<1>7. 2 * x1 * d <= K * (u + 1)
  <2>1. (2 * x1) * d <= (2 * x1) * (8 * a * (u + 1))
    <3>1. 2 * x1 \in Nat /\ 8 * a * (u + 1) \in Nat
      OBVIOUS
    <3>2. QED BY <1>5, <3>1, ProductsCompare
  <2>2. (2 * x1) * (8 * a * (u + 1)) = (16 * a * x1) * (u + 1)
    OBVIOUS
  <2>3. QED BY <1>6, <2>1, <2>2
<1>8. d * d * d <= K * ((w + 1) * (w + 1 + p))
  <2>1. K * (c + 1) <= K * (w * (w + p))
    <3>1. c + 1 \in Nat /\ w * (w + p) \in Nat /\ c + 1 <= w * (w + p)
      <4>1. w * (w + p) \in Int
        OBVIOUS
      <4>2. QED BY <1>2, <4>1
    <3>2. QED BY <3>1, ProductsCompare
  <2>2. K * ((w + 1) * (w + 1 + p)) = K * (w * (w + p)) + K * (u + 1)
    BY <1>2
  <2>3. K * (c + 1) = 16 * a * x1 * (c + 1)
    BY <1>6
  <2>4. /\ K * (w * (w + p)) \in Int /\ K * (u + 1) \in Int /\ 2 * x1 * d \in Int
        /\ d * d * d \in Int /\ K * (c + 1) \in Int
    OBVIOUS
  <2>5. d * d * d < K * (c + 1) + 2 * x1 * d
    BY <1>1, <2>3
  <2> DEFINE cube == d * d * d
             next == K * ((w + 1) * (w + 1 + p))
             at == K * (w * (w + p))
             slack == K * (u + 1)
             low == K * (c + 1)
             lost == 2 * x1 * d
  <2>6. /\ at \in Int /\ slack \in Int /\ lost \in Int /\ cube \in Int /\ low \in Int
        /\ low <= at /\ next = at + slack /\ cube < low + lost /\ lost <= slack
    BY <1>7, <2>1, <2>2, <2>4, <2>5
  <2> HIDE DEF cube, next, at, slack, low, lost
  <2>7. cube <= next
    BY <2>6
  <2>8. QED BY <2>7 DEF cube, next
<1>9. d * d * d <= 16 * a * x1 * ((n + 2) * (n + 2 + (b - d))) + 4 * x1 * (n + 2) * rest
  <2>1. 4 * x1 * (n + 2) * rest \in Nat
    <3>1. 4 * x1 * (n + 2) \in Nat /\ rest \in Nat
      OBVIOUS
    <3>2. QED BY <3>1
  <2>2. K * ((w + 1) * (w + 1 + p)) = 16 * a * x1 * ((n + 2) * (n + 2 + (b - d)))
    <3>1. w + 1 = n + 2 /\ w + 1 + p = n + 2 + (b - d)
      BY <1>2
    <3>2. QED BY <1>6, <3>1
  <2>3. K * ((w + 1) * (w + 1 + p)) \in Int /\ d * d * d \in Int
    OBVIOUS
  <2>4. QED BY <1>8, <2>1, <2>2, <2>3
<1>10. n + 2 \in Nat /\ b \in Nat /\ rest \in Nat /\ d \in Nat /\ a \in Nat /\ x1 \in Nat
  OBVIOUS
<1>11. QED BY <1>1, <1>9, <1>10, CurveAsQuadratic

\* What the round returns that settles is not above the balance that keeps d:
\* one less is below it.
LEMMA YNotPastCurve ==
    ASSUME NEW x1 \in Nat \ {0}, NEW a \in Nat \ {0}, NEW d \in Nat \ {0},
           NEW n \in Nat \ {0}, n + YLinear(x1, a, d) >= d,
           n * (n + (YLinear(x1, a, d) - d)) - YConstant(x1, a, d) <= 1
    PROVE  ~OnOrAbove(x1, n - 1, a, d)
<1>1. PICK q1 \in Nat, c \in Nat, b \in Nat \ {0}, e \in Nat, rest \in 0..(4 * a - 1) :
         /\ c = YConstant(x1, a, d) /\ b = YLinear(x1, a, d)
         /\ b = x1 + e /\ 4 * a * x1 + d = 4 * a * b + rest
         /\ 16 * a * x1 * c <= d * d * d
         /\ d * d * d < 16 * a * x1 * (c + 1) + 2 * x1 * d
         /\ d * d < 2 * x1 * (q1 + 1)
         /\ q1 * d < 8 * a * (c + 1)
  BY YRatios
<1>2. PICK w \in Nat, p \in Int, K \in Nat \ {0} :
         w = n - 1 /\ p = b - d /\ K = 16 * a * x1
  <2>1. n - 1 \in Nat /\ b - d \in Int
    OBVIOUS
  <2>2. 16 * a * x1 \in Nat \ {0}
    BY ProductPositive
  <2>3. QED BY <2>1, <2>2
<1>3. /\ w + 1 + p >= 0
      /\ (w + 1) * (w + 1 + p) - c <= 1
      /\ K * c <= d * d * d
  BY <1>1, <1>2
<1>4. d * d * d > 0 /\ d * d * d \in Int
  <2>1. d * d \in Nat \ {0}
    BY ProductPositive
  <2>2. QED BY <2>1, ProductPositive
<1>5. 16 * a * x1 * (w * (w + (b - d))) + 4 * x1 * w * rest < d * d * d
  <2>1. 16 * a * x1 * (w * (w + (b - d))) + 4 * x1 * w * rest
          = K * (w * (w + p)) + 4 * x1 * w * rest
    BY <1>2
  <2>2. CASE w = 0
    <3>1. K * (w * (w + p)) = 0 /\ 4 * x1 * w * rest = 0
      BY <2>2
    <3>2. QED BY <1>4, <2>1, <3>1
  <2>3. CASE w # 0
    <3>1. 4 * x1 * w * rest < K * w
      <4>1. 4 * x1 * w \in Nat \ {0}
        BY <2>3, ProductPositive
      <4>2. (4 * x1 * w) * (rest + 1) <= (4 * x1 * w) * (4 * a)
        <5>1. rest + 1 \in Nat /\ 4 * a \in Nat /\ rest + 1 <= 4 * a
          OBVIOUS
        <5>2. QED BY <4>1, <5>1, ProductsCompare
      <4>3. (4 * x1 * w) * (4 * a) = K * w
        BY <1>2
      <4>4. (4 * x1 * w) * (rest + 1) = 4 * x1 * w * rest + 4 * x1 * w
        OBVIOUS
      <4>5. 4 * x1 * w * rest \in Int /\ K * w \in Int
        OBVIOUS
      <4>6. QED BY <4>1, <4>2, <4>3, <4>4, <4>5
    <3>2. K * (w * (w + p)) + K * w <= K * c
      <4>1. K * (w * (w + p)) + K * w = K * (w * (w + 1 + p))
        OBVIOUS
      <4>2. w * (w + 1 + p) <= c
        <5>1. CASE w + 1 + p = 0
          BY <5>1
        <5>2. CASE w + 1 + p # 0
          <6>1. (w + 1) * (w + 1 + p) = w * (w + 1 + p) + (w + 1 + p)
            OBVIOUS
          <6>2. w * (w + 1 + p) \in Int
            OBVIOUS
          <6>3. (w + 1) * (w + 1 + p) \in Int /\ w + 1 + p >= 1
            BY <1>3, <5>2
          <6>4. QED BY ONLY <1>3, <6>1, <6>2, <6>3, c \in Nat, w \in Nat, p \in Int
        <5>3. QED BY <5>1, <5>2
      <4>3. w * (w + 1 + p) \in Nat
        <5>1. w + 1 + p \in Nat
          BY <1>3
        <5>2. QED BY <5>1
      <4>4. K * (w * (w + 1 + p)) <= K * c
        BY <4>2, <4>3, ProductsCompare
      <4>5. QED BY <4>1, <4>4
    <3>3. /\ K * (w * (w + p)) \in Int /\ K * w \in Int /\ K * c \in Int
          /\ 4 * x1 * w * rest \in Int
      OBVIOUS
    <3>4. QED BY <1>3, <1>4, <2>1, <3>1, <3>2, <3>3
  <2>4. QED BY <2>2, <2>3
<1>6. 16 * a * x1 * (w * (w + (b - d))) + 4 * x1 * w * rest \in Int
  OBVIOUS
<1>7. ~OnOrAbove(x1, w, a, d)
  <2>1. w \in Nat /\ b \in Nat /\ rest \in Nat /\ d \in Nat /\ a \in Nat /\ x1 \in Nat
    OBVIOUS
  <2>2. OnOrAbove(x1, w, a, d)
          <=> d * d * d <= 16 * a * x1 * (w * (w + (b - d))) + 4 * x1 * w * rest
    BY <1>1, <2>1, CurveAsQuadratic
  <2>3. QED BY <1>4, <1>5, <1>6, <2>2
<1>8. QED BY <1>2, <1>7

-----------------------------------------------------------------------------
(* Stable pools: the loop of compute_y. *)

\* The Next of compute_y.
YNext(x1, a, d) ==
    [y \in Int |->
        NextValue(y,
            WrapProduct(y * y + ScaledDown(ScaledDown(d, d, BalanceTimesN(x1)), d,
                                           WrapProduct(2 * Ann(a)))),
            WrapProduct(2 * y + Wrap(x1 + RustQuotient(d, Ann(a))) - d))]

LEMMA ComputeYIterates ==
    ASSUME NEW x1, NEW a, NEW d
    PROVE  ComputeY(x1, a, d) = Iterated(YNext(x1, a, d), d)
BY Zenon DEF ComputeY, YNext

LEMMA YNextInteger ==
    ASSUME NEW x1 \in Int, NEW a \in Int, NEW d \in Int, Ann(a) # 0
    PROVE  YNext(x1, a, d) \in [Int -> Int]
<1>1. PICK ann1 \in Int : ann1 = Ann(a) /\ ann1 # 0
  <2>1. 4 * a \in Int
    OBVIOUS
  <2>2. QED BY <2>1, WrappedInteger DEF Ann
<1>2. PICK c \in Int : c = ScaledDown(ScaledDown(d, d, BalanceTimesN(x1)), d,
                                      WrapProduct(2 * Ann(a)))
  <2>1. 2 * x1 \in Int /\ 2 * ann1 \in Int
    OBVIOUS
  <2>2. BalanceTimesN(x1) \in Int /\ WrapProduct(2 * Ann(a)) \in Int
    BY <1>1, <2>1, WrappedInteger DEF BalanceTimesN
  <2>3. QED BY <2>2, ScaledInteger
<1>3. PICK b \in Int : b = Wrap(x1 + RustQuotient(d, Ann(a)))
  <2>1. RustQuotient(d, ann1) \in Int
    BY <1>1, RustQuotientInteger
  <2>2. x1 + RustQuotient(d, ann1) \in Int
    BY <2>1
  <2>3. QED BY <1>1, <2>2, WrappedInteger
<1>4. YNext(x1, a, d) = [y \in Int |-> NextValue(y, WrapProduct(y * y + c),
                                                    WrapProduct(2 * y + b - d))]
  BY <1>2, <1>3 DEF YNext
<1>5. ASSUME NEW y \in Int
      PROVE  NextValue(y, WrapProduct(y * y + c), WrapProduct(2 * y + b - d)) \in Int
  <2>1. y * y + c \in Int /\ 2 * y + b - d \in Int
    OBVIOUS
  <2>2. QED BY <2>1, WrappedInteger, NextInteger
<1>6. QED BY <1>4, <1>5

\* What the width does hold for compute_y.
LEMMA YRoundsFit ==
    ASSUME NEW m \in Nat, NEW x1 \in 1..m, NEW a \in Nat \ {0}, Wide(a, m),
           NEW d \in 1..(4 * m), NEW y \in YGood(x1, a, d)
    PROVE  /\ d * d <= I128Max /\ YQuotient(x1, d) * d <= I128Max
           /\ 2 * x1 <= I128Max /\ 8 * a <= I128Max
           /\ YLinear(x1, a, d) <= I128Max
           /\ d + YHalf(x1, d) <= I128Max
           /\ y * y + YConstant(x1, a, d) <= I128Max
           /\ 2 * y + YLinear(x1, a, d) - d <= I128Max
<1>1. m \in Nat \ {0} /\ x1 \in Nat \ {0} /\ d \in Nat \ {0} /\ d <= 4 * m
  OBVIOUS
<1>2. PICK q1 \in Nat, c \in Nat, b \in Nat \ {0}, h \in Nat :
         /\ q1 = YQuotient(x1, d) /\ c = YConstant(x1, a, d)
         /\ b = YLinear(x1, a, d) /\ h = YHalf(x1, d) /\ c <= h * b
  <2>1. /\ YQuotient(x1, d) \in Nat /\ YConstant(x1, a, d) \in Nat
        /\ YLinear(x1, a, d) \in Nat \ {0} /\ YHalf(x1, d) \in Nat
        /\ YConstant(x1, a, d) <= YHalf(x1, d) * YLinear(x1, a, d)
    BY <1>1, YTerms
  <2>2. QED BY <2>1
<1>3. PICK M2 \in Nat \ {0}, M3 \in Nat \ {0}, M4 \in Nat \ {0}, W \in Nat :
         /\ M2 = m * m /\ M3 = M2 * m /\ M4 = M2 * M2 /\ W = I128Max
         /\ m <= M2 /\ M2 <= M3 /\ M3 <= M4 /\ 128 * M4 <= W /\ 32 * a <= W
  <2>1. PICK M2 \in Nat \ {0} : M2 = m * m /\ m <= M2
    <3>1. m * 1 <= m * m
      BY <1>1, ProductsCompare
    <3>2. QED BY <1>1, <3>1, ProductPositive
  <2>2. PICK M3 \in Nat \ {0} : M3 = M2 * m /\ M2 <= M3
    <3>1. M2 * 1 <= M2 * m
      BY <1>1, ProductsCompare
    <3>2. QED BY <1>1, <3>1, ProductPositive
  <2>3. PICK M4 \in Nat \ {0} : M4 = M2 * M2 /\ M3 <= M4
    <3>1. M2 * m <= M2 * M2
      BY <2>1, ProductsCompare
    <3>2. QED BY <2>2, <3>1, ProductPositive
  <2>4. (8 * a * m + 32 * m * m * m) * (4 * m) = 32 * a * M2 + 128 * M4
    BY <2>1, <2>3
  <2>5. a * 1 <= a * M2 /\ a * M2 \in Nat
    BY ProductsCompare
  <2>6. 32 * a * M2 = 32 * (a * M2)
    OBVIOUS
  <2>7. I128Max \in Nat
    BY I128MaxAssumption
  <2>8. 128 * M4 <= I128Max /\ 32 * a <= I128Max
    BY <2>4, <2>5, <2>6, <2>7 DEF Wide
  <2>9. QED BY <2>1, <2>2, <2>3, <2>7, <2>8
<1>4. d * d <= 16 * M2
  <2>1. d * d <= (4 * m) * (4 * m)
    BY <1>1, ProductsCompare
  <2>2. (4 * m) * (4 * m) = 16 * M2
    BY <1>3
  <2>3. QED BY <2>1, <2>2
<1>5. q1 <= 8 * M2
  <2>1. q1 * (2 * x1) <= d * d
    <3>1. d * d \in Nat /\ 2 * x1 \in Nat /\ 2 * x1 > 0
      OBVIOUS
    <3>2. QED BY <1>2, <3>1, Rounded DEF YQuotient
  <2>2. q1 * 2 <= q1 * (2 * x1)
    <3>1. 2 * x1 \in Nat /\ 2 <= 2 * x1
      BY <1>1
    <3>2. QED BY <3>1, ProductsCompare
  <2>3. q1 * (2 * x1) \in Nat /\ d * d \in Nat
    BY <1>1
  <2>4. QED BY <1>4, <2>1, <2>2, <2>3
<1>6. q1 * d <= 32 * M3
  <2>1. q1 * d <= (8 * M2) * (4 * m)
    <3>1. 8 * M2 \in Nat /\ 4 * m \in Nat
      OBVIOUS
    <3>2. QED BY <1>1, <1>5, <3>1, ProductsCompare
  <2>2. (8 * M2) * (4 * m) = 32 * M3
    BY <1>3
  <2>3. QED BY <2>1, <2>2
<1>7. h <= 4 * M2
  BY <1>2, <1>5 DEF YHalf
<1>8. b <= 2 * m
  <2>1. PICK e \in Nat : e = d \div (4 * a) /\ e * (4 * a) <= d
    <3>1. 4 * a \in Nat /\ 4 * a > 0
      OBVIOUS
    <3>2. QED BY <1>1, <3>1, Rounded
  <2>2. e * 4 <= e * (4 * a)
    <3>1. 4 * a \in Nat /\ 4 <= 4 * a
      OBVIOUS
    <3>2. QED BY <3>1, ProductsCompare
  <2>3. e * (4 * a) \in Nat
    OBVIOUS
  <2>4. QED BY <1>1, <1>2, <2>1, <2>2, <2>3 DEF YLinear
<1>9. c <= 8 * M3
  <2>1. h * b <= (4 * M2) * (2 * m)
    <3>1. 4 * M2 \in Nat /\ 2 * m \in Nat
      OBVIOUS
    <3>2. QED BY <1>7, <1>8, <3>1, ProductsCompare
  <2>2. (4 * M2) * (2 * m) = 8 * M3 /\ h * b \in Nat
    BY <1>3
  <2>3. QED BY <1>2, <2>1, <2>2
<1>10. y \in Nat /\ y <= 8 * M2
  <2>1. y \in 0..(d + h)
    BY <1>2 DEF YGood
  <2>2. QED BY <1>1, <1>3, <1>7, <2>1
<1>11. y * y <= 64 * M4
  <2>1. y * y <= (8 * M2) * (8 * M2)
    <3>1. 8 * M2 \in Nat
      OBVIOUS
    <3>2. QED BY <1>10, <3>1, ProductsCompare
  <2>2. (8 * M2) * (8 * M2) = 64 * M4
    BY <1>3
  <2>3. QED BY <2>1, <2>2
<1>12. d * d \in Nat /\ q1 * d \in Nat /\ y * y \in Nat /\ x1 <= m
  BY <1>1, <1>10
<1>13. /\ d * d <= W /\ q1 * d <= W /\ 2 * x1 <= W /\ 8 * a <= W /\ b <= W
       /\ d + h <= W /\ y * y + c <= W /\ 2 * y + b - d <= W
  BY <1>1, <1>3, <1>4, <1>6, <1>7, <1>8, <1>9, <1>10, <1>11, <1>12
<1>14. QED BY <1>2, <1>3, <1>13

\* No product that compute_y may form for these leaves i128.
YFits(x1, a, d) ==
    \A y \in YGood(x1, a, d) :
        /\ d * d <= I128Max /\ YQuotient(x1, d) * d <= I128Max
        /\ 2 * x1 <= I128Max /\ 8 * a <= I128Max
        /\ YLinear(x1, a, d) <= I128Max
        /\ d + YHalf(x1, d) <= I128Max
        /\ y * y + YConstant(x1, a, d) <= I128Max
        /\ 2 * y + YLinear(x1, a, d) - d <= I128Max

LEMMA WideYFits ==
    ASSUME NEW m \in Nat, NEW x1 \in 1..m, NEW a \in Nat \ {0}, Wide(a, m),
           NEW d \in 1..(4 * m)
    PROVE  YFits(x1, a, d) /\ x1 \in Nat \ {0} /\ d \in Nat \ {0}
BY YRoundsFit DEF YFits

\* Inside the width a round of the contract is the round on naturals.
LEMMA YNextFits ==
    ASSUME NEW x1 \in Nat \ {0}, NEW a \in Nat \ {0}, NEW d \in Nat \ {0},
           YFits(x1, a, d), NEW y \in YGood(x1, a, d)
    PROVE  YNext(x1, a, d)[y] = YRound(x1, a, d, y) /\ Ann(a) # 0
<1>1. x1 \in Nat \ {0} /\ d \in Nat \ {0} /\ I128Max \in Nat
  BY I128MaxAssumption
<1>2. PICK q1 \in Nat, c \in Nat, b \in Nat \ {0} :
         /\ q1 = YQuotient(x1, d) /\ c = YConstant(x1, a, d) /\ b = YLinear(x1, a, d)
         /\ c = (q1 * d) \div (8 * a) /\ b = x1 + d \div (4 * a)
  BY <1>1, YTerms DEF YConstant, YLinear
<1>3. /\ d * d <= I128Max /\ q1 * d <= I128Max /\ 2 * x1 <= I128Max /\ 8 * a <= I128Max
      /\ b <= I128Max /\ y * y + c <= I128Max /\ 2 * y + b - d <= I128Max
  BY <1>2 DEF YFits
<1>4. y \in Nat /\ 2 * y + b > d
  BY <1>1, <1>2, YTerms DEF YGood, RightOfVertex
<1>5. Ann(a) = 4 * a /\ WrapProduct(2 * (4 * a)) = 8 * a /\ BalanceTimesN(x1) = 2 * x1
  <2>1. 4 * a \in Nat /\ 8 * a \in Nat /\ 2 * x1 \in Nat /\ 2 * (4 * a) = 8 * a /\ 4 * a <= I128Max
    BY <1>1, <1>3
  <2>2. QED BY <1>3, <2>1, InsideWidth DEF Ann, BalanceTimesN
<1>6. ScaledDown(d, d, 2 * x1) = q1
  <2>1. d * d \in Nat /\ 2 * x1 \in Nat \ {0}
    BY <1>1
  <2>2. Fits(d * d) /\ RustQuotient(d * d, 2 * x1) = q1
    BY <1>2, <1>3, <2>1, InsideWidth, NaturalQuotient DEF YQuotient
  <2>3. QED BY <2>1, <2>2 DEF ScaledDown
<1>7. ScaledDown(q1, d, 8 * a) = c
  <2>1. q1 * d \in Nat /\ 8 * a \in Nat \ {0}
    BY <1>1
  <2>2. Fits(q1 * d) /\ RustQuotient(q1 * d, 8 * a) = c
    BY <1>2, <1>3, <2>1, InsideWidth, NaturalQuotient
  <2>3. QED BY <2>1, <2>2 DEF ScaledDown
<1>8. Wrap(x1 + RustQuotient(d, 4 * a)) = b
  <2>1. 4 * a \in Nat \ {0}
    OBVIOUS
  <2>2. x1 + RustQuotient(d, 4 * a) = b
    BY <1>1, <1>2, <2>1, NaturalQuotient
  <2>3. QED BY <1>3, <2>2, InsideWidth
<1>9. PICK num \in Nat, den \in Nat \ {0} : num = y * y + c /\ den = 2 * y + b - d
  <2>1. y * y + c \in Nat /\ 2 * y + b - d \in Nat \ {0}
    BY <1>1, <1>4
  <2>2. QED BY <2>1
<1>10. WrapProduct(num) = num /\ WrapProduct(den) = den
  BY <1>3, <1>9, InsideWidth
<1>11. YNext(x1, a, d)[y] = NextValue(y, WrapProduct(num), WrapProduct(den))
  BY <1>4, <1>5, <1>6, <1>7, <1>8, <1>9 DEF YNext
<1>12. NextValue(y, num, den) = num \div den
  BY NaturalQuotient DEF NextValue
<1>13. YRound(x1, a, d, y) = num \div den
  <2>1. 2 * y + (b - d) = den
    BY <1>1, <1>4, <1>9
  <2>2. QED BY <1>2, <1>9, <2>1 DEF YRound, QuadraticRound
<1>14. Ann(a) # 0
  BY <1>5
<1>15. QED BY <1>10, <1>11, <1>12, <1>13, <1>14

LEMMA YNextIsRound ==
    ASSUME NEW m \in Nat, NEW x1 \in 1..m, NEW a \in Nat \ {0}, Wide(a, m),
           NEW d \in 1..(4 * m), NEW y \in YGood(x1, a, d)
    PROVE  YNext(x1, a, d)[y] = YRound(x1, a, d, y) /\ Ann(a) # 0
BY WideYFits, YNextFits

\* Each round but the first at least halves how far the value is above the
\* root, until one settles.
YLeft(x1, a, d) ==
    [y \in YGood(x1, a, d) |->
        IF OneAbove(x1, a, d, y) THEN Halvings[y - YRoot(x1, a, d)]
                                 ELSE Halvings[I128Max] + 1]

LEMMA YApproaches ==
    ASSUME NEW x1 \in Nat \ {0}, NEW a \in Nat \ {0}, NEW d \in Nat \ {0},
           d + YHalf(x1, d) <= I128Max
    PROVE  /\ YLeft(x1, a, d) \in [YGood(x1, a, d) -> Nat]
           /\ YLeft(x1, a, d)[d] <= Halvings[I128Max] + 1
           /\ \A y \in YGood(x1, a, d) :
                 LET n == YRound(x1, a, d, y)
                 IN  ~(y - 1 <= n /\ n <= y + 1)
                        => /\ n \in YGood(x1, a, d)
                           /\ YLeft(x1, a, d)[n] < YLeft(x1, a, d)[y]
<1>1. PICK b \in Nat \ {0}, c \in Nat, h \in Nat, root \in Nat :
         /\ b = YLinear(x1, a, d) /\ c = YConstant(x1, a, d) /\ h = YHalf(x1, d)
         /\ root = YRoot(x1, a, d)
         /\ root + b >= d /\ OneAbove(x1, a, d, root)
         /\ \A z \in Nat : z + b >= d /\ OneAbove(x1, a, d, z) => root <= z
  BY YTerms, YRootExists
<1>2. PICK top \in Nat : top = I128Max /\ d + h <= top
  BY <1>1, I128MaxAssumption
<1>3. \A y \in YGood(x1, a, d) :
         /\ y \in Nat /\ y <= top /\ y + b >= d /\ 2 * y + b > d
         /\ OneAbove(x1, a, d, y) => y - root \in 0..top
  <2>1. \A y \in YGood(x1, a, d) :
           y \in 0..(d + h) /\ y + b >= d /\ 2 * y + b > d
    BY <1>1 DEF YGood, RightOfVertex
  <2>2. QED BY <1>1, <1>2, <2>1
<1>4. \A y \in YGood(x1, a, d) :
         YLeft(x1, a, d)[y] = IF OneAbove(x1, a, d, y) THEN Halvings[y - root]
                              ELSE Halvings[top] + 1
  BY <1>1, <1>2 DEF YLeft
<1>5. \A v \in 0..top : /\ Halvings[v] \in Nat /\ Halvings[v] <= Halvings[top]
                        /\ \A u \in 0..v : Halvings[u] <= Halvings[v]
  <2>1. top \in 0..top
    OBVIOUS
  <2>2. QED BY <1>2, <2>1, HalvingsGrow
<1>6. Halvings[top] \in Nat
  <2>1. top \in 0..top
    OBVIOUS
  <2>2. QED BY <1>5, <2>1
<1>7. \A y \in YGood(x1, a, d) :
         YLeft(x1, a, d)[y] \in Nat /\ YLeft(x1, a, d)[y] <= Halvings[top] + 1
  BY <1>3, <1>4, <1>5, <1>6
<1>8. YLeft(x1, a, d) \in [YGood(x1, a, d) -> Nat]
  <2>1. YLeft(x1, a, d) = [y \in YGood(x1, a, d) |-> YLeft(x1, a, d)[y]]
    BY DEF YLeft
  <2>2. QED BY <1>7, <2>1
<1>9. ASSUME NEW y \in YGood(x1, a, d), NEW n \in Int, n = YRound(x1, a, d, y),
             ~(y - 1 <= n /\ n <= y + 1)
      PROVE  n \in YGood(x1, a, d) /\ YLeft(x1, a, d)[n] < YLeft(x1, a, d)[y]
  <2>1. n \in YGood(x1, a, d) /\ OneAbove(x1, a, d, n)
    BY <1>9, YRoundIsGood
  <2>2. YLeft(x1, a, d)[n] = Halvings[n - root] /\ n - root \in 0..top /\ n \in Nat
    BY <1>3, <1>4, <2>1
  <2>3. CASE ~OneAbove(x1, a, d, y)
    <3>1. YLeft(x1, a, d)[y] = Halvings[top] + 1
      BY <1>4, <2>3
    <3>2. Halvings[n - root] <= Halvings[top] /\ Halvings[n - root] \in Nat
      BY <1>5, <2>2
    <3>3. QED BY <1>6, <2>1, <2>2, <3>1, <3>2
  <2>4. CASE OneAbove(x1, a, d, y)
    <3>1. YLeft(x1, a, d)[y] = Halvings[y - root] /\ y - root \in 0..top /\ y \in Nat
      BY <1>3, <1>4, <2>4
    <3>2. /\ y - root <= 1 => n <= root + 1
          /\ 2 <= y - root => 2 * (n - root) <= y - root
      <4>1. PICK p \in Int : p = b - d
        OBVIOUS
      <4>2. y + p >= 0 /\ 2 * y + p > 0 /\ root <= y /\ root + p >= 0
        BY <1>1, <1>3, <3>1, <4>1
      <4>3. c < (y + 1) * (y + 1 + p) /\ c < (root + 1) * (root + 1 + p)
            /\ n = QuadraticRound(p, c, y)
        BY <1>1, <1>9, <2>4, <4>1 DEF OneAbove, YRound
      <4>4. QED BY <3>1, <4>2, <4>3, QuadraticDescends
    <3>3. PICK M \in 0..top : M = y - root /\ 2 <= M /\ 2 * (n - root) <= M
      BY <1>9, <2>2, <3>1, <3>2
    <3>4. PICK half \in 0..top : half = M \div 2 /\ n - root \in 0..half
      BY <2>2, <3>3
    <3>5. Halvings[M] = 1 + Halvings[half]
      <4>1. M \in 0..I128Max /\ M # 0
        BY <1>2, <3>3
      <4>2. QED BY <3>4, <4>1, HalvingsDefined
    <3>6. Halvings[n - root] <= Halvings[half] /\ Halvings[n - root] \in Nat
          /\ Halvings[half] \in Nat
      BY <1>5, <2>2, <3>4
    <3>7. QED BY <2>1, <2>2, <3>1, <3>3, <3>5, <3>6
  <2>5. QED BY <2>1, <2>3, <2>4
<1>10. \A y \in YGood(x1, a, d) : YRound(x1, a, d, y) \in Int
  BY YRoundIsGood, YTerms
<1>11. d \in YGood(x1, a, d)
  BY YTerms
<1>12. QED BY <1>2, <1>7, <1>8, <1>9, <1>10, <1>11

\* compute_y returns what the round has computed that settles.
LEMMA ComputeYStops ==
    ASSUME NEW x1 \in Nat \ {0}, NEW a \in Nat \ {0}, NEW d \in Nat \ {0},
           YFits(x1, a, d)
    PROVE  \E y \in YGood(x1, a, d) :
              /\ ComputeY(x1, a, d) = YRound(x1, a, d, y)
              /\ y - 1 <= YRound(x1, a, d, y) /\ YRound(x1, a, d, y) <= y + 1
<1>1. PICK next, Good, left :
         next = YNext(x1, a, d) /\ Good = YGood(x1, a, d) /\ left = YLeft(x1, a, d)
  OBVIOUS
<1>2. x1 \in Nat \ {0} /\ d \in Nat \ {0} /\ d \in Int /\ x1 \in Int /\ a \in Int
  OBVIOUS
<1>3. d \in Good /\ d + YHalf(x1, d) <= I128Max
  <2>1. d \in YGood(x1, a, d)
    BY <1>2, YTerms
  <2>2. QED BY <1>1, <2>1 DEF YFits
<1>4. \A v \in Good : v \in Int /\ next[v] = YRound(x1, a, d, v) /\ Ann(a) # 0
  <2>1. \A v \in YGood(x1, a, d) :
           YNext(x1, a, d)[v] = YRound(x1, a, d, v) /\ Ann(a) # 0
    BY YNextFits
  <2>2. \A v \in YGood(x1, a, d) : v \in Int
    BY <1>2, YTerms DEF YGood
  <2>3. QED BY <1>1, <2>1, <2>2
<1>5. next \in [Int -> Int]
  BY <1>1, <1>2, <1>3, <1>4, YNextInteger
<1>6. PICK f : /\ IsRun(f, next, MaxRounds, SettledAt(next))
               /\ Iterated(next, d) = f[StateAt(1, d)]
  BY <1>2, <1>5, IteratedRuns
<1>7. PICK ends : ends = SettledAt(next)
  OBVIOUS
<1>8. \A v \in Good : v \in ends <=> (v - 1 <= next[v] /\ next[v] <= v + 1)
  <2>1. \A v \in Good : next[v] \in Int
    BY <1>4, <1>5
  <2>2. QED BY <1>4, <1>7, <2>1 DEF SettledAt, Converged, Distance
<1>9. left \in [Good -> Nat] /\ left[d] < MaxRounds
  <2>1. left \in [Good -> Nat] /\ left[d] <= Halvings[I128Max] + 1
    BY <1>1, <1>2, <1>3, YApproaches
  <2>2. I128Max \in 0..I128Max
    BY I128MaxAssumption
  <2>3. Halvings[I128Max] \in Nat /\ left[d] \in Nat
    BY <1>3, <2>1, <2>2, HalvingsGrow
  <2>4. QED BY <2>1, <2>3, RoundsAssumption, MaxRoundsAssumption
<1>10. \A v \in Good : v \notin ends => next[v] \in Good /\ left[next[v]] < left[v]
  BY <1>1, <1>2, <1>3, <1>4, <1>8, YApproaches
<1>11. \E v \in Good : v \in ends /\ f[StateAt(1, d)] = next[v]
  <2>1. Good \subseteq DOMAIN next /\ MaxRounds \in Nat \ {0}
    BY <1>4, <1>5, MaxRoundsAssumption
  <2>2. PICK start \in Good : start = d
    BY <1>3
  <2>3. IsRun(f, next, MaxRounds, ends) /\ left[start] < MaxRounds /\ left \in [Good -> Nat]
    BY <1>6, <1>7, <1>9, <2>2
  <2>4. \E v \in Good : v \in ends /\ f[StateAt(1, start)] = next[v]
    BY <1>10, <2>1, <2>3, RunSettles
  <2>5. QED BY <2>2, <2>4
<1>12. ComputeY(x1, a, d) = f[StateAt(1, d)]
  BY <1>1, <1>6, ComputeYIterates
<1>13. QED BY <1>1, <1>4, <1>8, <1>11, <1>12

LEMMA ComputeYSettles ==
    ASSUME NEW m \in Nat, NEW x1 \in 1..m, NEW a \in Nat \ {0}, Wide(a, m),
           NEW d \in 1..(4 * m)
    PROVE  \E y \in YGood(x1, a, d) :
              /\ ComputeY(x1, a, d) = YRound(x1, a, d, y)
              /\ y - 1 <= YRound(x1, a, d, y) /\ YRound(x1, a, d, y) <= y + 1
BY WideYFits, ComputeYStops

\* compute_y returns a natural within two units below the balance that keeps
\* d and never above it.
LEMMA ComputeYReaches ==
    ASSUME NEW x1 \in Nat \ {0}, NEW a \in Nat \ {0}, NEW d \in Nat \ {0},
           YFits(x1, a, d)
    PROVE  /\ ComputeY(x1, a, d) \in Nat
           /\ OnOrAbove(x1, ComputeY(x1, a, d) + 2, a, d)
           /\ ComputeY(x1, a, d) > 0 => ~OnOrAbove(x1, ComputeY(x1, a, d) - 1, a, d)
<1>1. x1 \in Nat \ {0} /\ d \in Nat \ {0}
  OBVIOUS
<1>2. PICK y \in YGood(x1, a, d), n \in Int :
         /\ n = ComputeY(x1, a, d) /\ n = YRound(x1, a, d, y)
         /\ y - 1 <= n /\ n <= y + 1
  <2>1. \A y \in YGood(x1, a, d) : YRound(x1, a, d, y) \in Int
    BY <1>1, YRoundIsGood, YTerms
  <2>2. QED BY <1>1, <2>1, ComputeYStops
<1>3. PICK b \in Nat, c \in Nat : b = YLinear(x1, a, d) /\ c = YConstant(x1, a, d)
  BY <1>1, YTerms
<1>4. /\ n \in Nat /\ n + b >= d /\ OneAbove(x1, a, d, n)
      /\ n * (n + (b - d)) - c <= (n - y) * (n - y)
  <2>1. x1 \in Nat \ {0} /\ d \in Nat \ {0} /\ YHalf(x1, d) \in Nat
    BY <1>1, YTerms
  <2>2. QED BY <1>2, <1>3, <1>1, <2>1, YRoundIsGood
<1>5. OnOrAbove(x1, n + 2, a, d)
  BY <1>3, <1>4, <1>1, YReachesCurve
<1>6. n > 0 => ~OnOrAbove(x1, n - 1, a, d)
  <2>1. n * (n + (b - d)) - c <= 1
    <3>1. PICK e \in -1..1 : e = n - y
      <4>1. y \in Int
        BY <1>1, YTerms DEF YGood
      <4>2. QED BY <1>2, <4>1
    <3>2. e * e <= 1
      <4>1. e = -1 \/ e = 0 \/ e = 1
        OBVIOUS
      <4>2. QED BY <4>1
    <3>3. (n - y) * (n - y) = e * e
      BY <3>1
    <3>4. n * (n + (b - d)) - c \in Int /\ e * e \in Int
      BY <1>4, <1>1
    <3>5. QED BY <1>4, <3>2, <3>3, <3>4
  <2>2. QED BY <1>3, <1>4, <1>1, <2>1, YNotPastCurve
<1>7. QED BY <1>2, <1>4, <1>5, <1>6

LEMMA ComputeYOnCurve ==
    ASSUME NEW m \in Nat, NEW x1 \in 1..m, NEW a \in Nat \ {0}, Wide(a, m),
           NEW d \in 1..(4 * m)
    PROVE  /\ ComputeY(x1, a, d) \in Nat
           /\ OnOrAbove(x1, ComputeY(x1, a, d) + 2, a, d)
           /\ ComputeY(x1, a, d) > 0 => ~OnOrAbove(x1, ComputeY(x1, a, d) - 1, a, d)
BY WideYFits, ComputeYReaches
=============================================================================
