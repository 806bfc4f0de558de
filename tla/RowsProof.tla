------------------------------ MODULE RowsProof ------------------------------
(***************************************************************************)
(* Proofs about modules PoolRows and Analytics, for any finite set of      *)
(* pools and wallets and any number of handlers and jobs.                  *)
(***************************************************************************)
EXTENDS Analytics, ProofLemmas

-----------------------------------------------------------------------------
(* What a sequence of events leaves: ReservesAfter is a recursive function    *)
(* over the places of the sequence.                                          *)

\* f has what the first n of the events leave, place by place.
IsWalk(f, p, events, n) ==
    f = [i \in 0..n |->
            IF i = 0 THEN ReservesOf(Seeded[p]) ELSE After(p, f[i - 1], events[i])]

LEMMA WalkExists ==
    ASSUME NEW p, NEW events
    PROVE  \A n \in Nat : \E f : IsWalk(f, p, events, n)
<1> DEFINE N == {n \in Nat : \E f : IsWalk(f, p, events, n)}
<1>1. 0 \in N
  <2> DEFINE f == [i \in 0..0 |-> ReservesOf(Seeded[p])]
  <2>1. IsWalk(f, p, events, 0)
    BY DEF IsWalk
  <2>2. QED BY <2>1
<1>2. ASSUME NEW n \in Nat, n \in N
      PROVE  n + 1 \in N
  <2>1. PICK f : IsWalk(f, p, events, n)
    BY <1>2
  <2> DEFINE g == [i \in 0..n + 1 |->
                      IF i = n + 1 THEN After(p, f[n], events[n + 1]) ELSE f[i]]
  <2>2. ASSUME NEW i \in 0..n + 1
        PROVE  g[i] = IF i = 0 THEN ReservesOf(Seeded[p]) ELSE After(p, g[i - 1], events[i])
    <3>1. CASE i = n + 1
      BY <3>1
    <3>2. CASE i # n + 1
      <4>1. i \in 0..n /\ g[i] = f[i]
        BY <3>2
      <4>2. i # 0 => i - 1 \in 0..n /\ g[i - 1] = f[i - 1]
        BY <4>1
      <4>3. f[i] = IF i = 0 THEN ReservesOf(Seeded[p]) ELSE After(p, f[i - 1], events[i])
        BY <2>1, <4>1 DEF IsWalk
      <4>4. QED BY <4>1, <4>2, <4>3, Zenon
    <3>3. QED BY <3>1, <3>2
  <2>3. IsWalk(g, p, events, n + 1)
    BY <2>2 DEF IsWalk
  <2> HIDE DEF g
  <2>4. QED BY <2>3
<1>3. Nat \subseteq N
  <2>1. \A n \in Nat : n \in N => n + 1 \in N
    BY <1>2
  <2> HIDE DEF N
  <2>2. QED BY <1>1, <2>1, InductiveSet
<1>4. QED BY <1>3

\* What a walk has is decided by the events before.
LEMMA WalksAgree ==
    ASSUME NEW p, NEW f, NEW g, NEW s, NEW t, NEW m \in Nat, NEW n \in Nat, n <= m,
           IsWalk(f, p, s, n), IsWalk(g, p, t, m), \A i \in 1..n : s[i] = t[i]
    PROVE  \A i \in 0..n : f[i] = g[i]
<1> DEFINE N == {i \in Nat : i \in 0..n => f[i] = g[i]}
<1>1. \A i \in 0..n :
         /\ f[i] = IF i = 0 THEN ReservesOf(Seeded[p]) ELSE After(p, f[i - 1], s[i])
         /\ g[i] = IF i = 0 THEN ReservesOf(Seeded[p]) ELSE After(p, g[i - 1], t[i])
  BY DEF IsWalk
<1>2. 0 \in N
  BY <1>1
<1>3. ASSUME NEW i \in Nat, i \in N
      PROVE  i + 1 \in N
  <2>1. SUFFICES ASSUME i + 1 \in 0..n PROVE f[i + 1] = g[i + 1]
    OBVIOUS
  <2>2. i \in 0..n /\ i + 1 \in 1..n /\ i + 1 # 0 /\ (i + 1) - 1 = i
    BY <2>1
  <2>3. f[i] = g[i] /\ s[i + 1] = t[i + 1]
    BY <1>3, <2>2
  <2>4. f[i + 1] = After(p, f[i], s[i + 1]) /\ g[i + 1] = After(p, g[i], t[i + 1])
    BY <1>1, <2>1, <2>2
  <2>5. QED BY <2>3, <2>4
<1>4. Nat \subseteq N
  <2>1. \A i \in Nat : i \in N => i + 1 \in N
    BY <1>3
  <2> HIDE DEF N
  <2>2. QED BY <1>2, <2>1, InductiveSet
<1>5. QED BY <1>4

LEMMA AfterWalk ==
    ASSUME NEW p, NEW events, Len(events) \in Nat
    PROVE  \E f : IsWalk(f, p, events, Len(events)) /\ ReservesAfter(p, events) = f[Len(events)]
<1> DEFINE f == CHOOSE f : IsWalk(f, p, events, Len(events))
<1>1. IsWalk(f, p, events, Len(events))
  BY WalkExists
<1>2. ReservesAfter(p, events) = f[Len(events)]
  BY Zenon DEF ReservesAfter, IsWalk
<1>3. QED BY <1>1, <1>2

\* No event leaves the reserves alone; one more event has its effect on what the
\* others leave.
LEMMA AfterNone == ASSUME NEW p PROVE ReservesAfter(p, <<>>) = ReservesOf(Seeded[p])
<1>1. PICK f : IsWalk(f, p, <<>>, 0) /\ ReservesAfter(p, <<>>) = f[0]
  BY AfterWalk
<1>2. QED BY <1>1 DEF IsWalk

LEMMA AfterOneMore ==
    ASSUME NEW p, NEW S, NEW events \in Seq(S), NEW e
    PROVE  ReservesAfter(p, Append(events, e)) = After(p, ReservesAfter(p, events), e)
<1> DEFINE n == Len(events)
           more == Append(events, e)
<1>1. /\ n \in Nat /\ Len(more) = n + 1 /\ more[n + 1] = e
      /\ \A i \in 1..n : more[i] = events[i]
  OBVIOUS
<1>2. PICK f : IsWalk(f, p, events, n) /\ ReservesAfter(p, events) = f[n]
  BY <1>1, AfterWalk
<1> HIDE DEF more
<1>3. PICK g : IsWalk(g, p, more, n + 1) /\ ReservesAfter(p, more) = g[n + 1]
  BY <1>1, AfterWalk
<1> HIDE DEF n
<1>4. f[n] = g[n]
  <2>1. \A i \in 0..n : f[i] = g[i]
    <3>1. n + 1 \in Nat /\ n <= n + 1 /\ \A i \in 1..n : events[i] = more[i]
      BY <1>1
    <3>2. QED BY <1>1, <1>2, <1>3, <3>1, WalksAgree
  <2>2. QED BY <1>1, <2>1
<1>5. g[n + 1] = After(p, g[n], more[n + 1])
  BY <1>1, <1>3 DEF IsWalk
<1>6. QED BY <1>1, <1>2, <1>3, <1>4, <1>5 DEF more

-----------------------------------------------------------------------------
(* Orders of some of a set of events. *)

LEMMA OrdersGrow ==
    ASSUME NEW p, NEW S, NEW T, S \subseteq T
    PROVE  Explicable(p, S) \subseteq Explicable(p, T)
BY DEF Explicable, SetToAllKPermutations

LEMMA NoEventExplains ==
    ASSUME NEW p, NEW S
    PROVE  ReservesOf(Seeded[p]) \in Explicable(p, S)
<1>1. Cardinality({}) = 0
  BY FS_EmptySet
<1>2. <<>> \in SetToSeqs({})
  BY <1>1 DEF SetToSeqs
<1>3. <<>> \in SetToAllKPermutations(S)
  BY <1>2 DEF SetToAllKPermutations
<1>4. QED BY <1>3, AfterNone DEF Explicable

\* Another event can be put behind an order of others.
LEMMA OrderOneMore ==
    ASSUME NEW S, IsFiniteSet(S), NEW order \in SetToAllKPermutations(S), NEW e, e \notin S
    PROVE  /\ order \in Seq(S)
           /\ Append(order, e) \in SetToAllKPermutations(S \cup {e})
<1>1. PICK i \in SUBSET S : order \in SetToSeqs(i)
  BY DEF SetToAllKPermutations
<1>2. IsFiniteSet(i) /\ e \notin i
  BY <1>1, FS_Subset
<1>3. PICK n \in Nat : n = Cardinality(i) /\ Cardinality(i \cup {e}) = n + 1
  BY <1>2, FS_AddElement, FS_CardinalityType
<1>4. order \in [1..n -> i] /\ \A a, b \in 1..n : a # b => order[a] # order[b]
  BY <1>1, <1>3 DEF SetToSeqs
<1>5. order \in Seq(i) /\ Len(order) = n
  BY <1>4
<1> DEFINE more == Append(order, e)
<1>6. /\ more \in [1..n + 1 -> i \cup {e}]
      /\ more[n + 1] = e /\ \A a \in 1..n : more[a] = order[a]
  <2>1. order \in Seq(i \cup {e})
    BY <1>4
  <2>2. more \in Seq(i \cup {e}) /\ Len(more) = n + 1
    BY <1>5, <2>1
  <2>3. more[n + 1] = e /\ \A a \in 1..n : more[a] = order[a]
    BY <1>5, <2>1
  <2> HIDE DEF more
  <2>4. QED BY <2>2, <2>3
<1> HIDE DEF more
<1>7. \A a, b \in 1..n + 1 : a # b => more[a] # more[b]
  <2>1. TAKE a, b \in 1..n + 1
  <2>2. HAVE a # b
  <2>3. CASE a \in 1..n /\ b \in 1..n
    BY <1>4, <1>6, <2>2, <2>3
  <2>4. CASE a = n + 1
    <3>1. b \in 1..n /\ order[b] \in i
      BY <1>4, <2>2, <2>4
    <3>2. QED BY <1>2, <1>6, <2>4, <3>1
  <2>5. CASE b = n + 1
    <3>1. a \in 1..n /\ order[a] \in i
      BY <1>4, <2>2, <2>5
    <3>2. QED BY <1>2, <1>6, <2>5, <3>1
  <2>6. QED BY <2>3, <2>4, <2>5
<1>8. more \in SetToSeqs(i \cup {e})
  BY <1>3, <1>6, <1>7 DEF SetToSeqs
<1>9. i \cup {e} \in SUBSET (S \cup {e})
  BY <1>1
<1>10. order \in Seq(S)
  BY <1>1, <1>4
<1>11. QED BY <1>8, <1>9, <1>10 DEF SetToAllKPermutations, more

LEMMA OneMoreExplains ==
    ASSUME NEW p, NEW S, IsFiniteSet(S), NEW r \in Explicable(p, S), NEW e, e \notin S
    PROVE  After(p, r, e) \in Explicable(p, S \cup {e})
<1>1. PICK order \in SetToAllKPermutations(S) : r = ReservesAfter(p, order)
  BY DEF Explicable
<1>2. order \in Seq(S) /\ Append(order, e) \in SetToAllKPermutations(S \cup {e})
  BY OrderOneMore
<1>3. ReservesAfter(p, Append(order, e)) = After(p, r, e)
  BY <1>1, <1>2, AfterOneMore
<1>4. QED BY <1>2, <1>3 DEF Explicable

\* The events of a longer log.
LEMMA RangeOneMore ==
    ASSUME NEW S, NEW s \in Seq(S), NEW e
    PROVE  Range(Append(s, e)) = Range(s) \cup {e}
<1>1. /\ DOMAIN Append(s, e) = 1..Len(s) + 1
      /\ DOMAIN s = 1..Len(s)
      /\ Len(s) \in Nat
      /\ \A i \in 1..Len(s) : Append(s, e)[i] = s[i]
      /\ Append(s, e)[Len(s) + 1] = e
  OBVIOUS
<1>2. 1..Len(s) + 1 = 1..Len(s) \cup {Len(s) + 1}
  BY <1>1
<1> QED BY <1>1, <1>2 DEF Range

-----------------------------------------------------------------------------
(* The inductive invariant.  RowsTyped: what a task holds, by where it waits. *)

Moving == {"pool", "position", "counting"}
Trading == {"swap", "volume"}
Updating == {"updating", "emitting"}
Valuing == {"reading", "snapshot", "tvl"}

Work == [at : {"pool"} \cup Trading, e : Events, p : Pools, pool : Rows]
          \cup [at : {"position", "counting"}, e : Events, p : Pools, pool : Rows,
                existing : Positions \cup {None}]
          \cup [at : Updating, p : Pools, lpCount : Nat, reserves : Nat \X Nat]
          \cup [at : {"reading", "tvl"}, left : Seq(Pools) \ {<<>>}, tvl : [Pools -> Nat]]
          \cup [at : {"snapshot"}, left : Seq(Pools) \ {<<>>}, tvl : [Pools -> Nat],
                pool : Rows]

WorkOk(h) ==
    /\ h.at \in Moving => IsMove(h.e)
    /\ h.at \in Trading => IsTrade(h.e)
    /\ h.at \in Moving \cup Trading => h.p = PoolOf(h.e) /\ h.e \in Range(log)
    /\ h.at \in Updating => h.lpCount <= LpCount(h.p)

RowsTyped ==
    /\ parses \in BOOLEAN /\ restarts \in Nat
    /\ row \in [Pools -> Rows]
    /\ position \in [Wallets \X Pools -> Positions \cup {None}]
    /\ DOMAIN emitted = Pools
    /\ log \in Seq(Events) /\ IsFiniteSet(Range(log))
    /\ task \in [Tasks -> Work \cup {Idle}]
    /\ \A t \in Tasks : WorkOk(task[t])
    /\ \A p \in Pools : row[p].lpCount <= LpCount(p)
    /\ \A s, o \in swaps : <<s.time, s.txHash>> = <<o.time, o.txHash>> => s = o

\* As long as the process was never started again, every event of the log is
\* known, and reserves are explained wherever they are: in a row, in a snapshot
\* and in the hands of a task, there without the event that the task is at.
Explained(h) ==
    /\ h.at \in Moving => ReservesOf(h.pool) \in Explicable(h.p, MovesOf(h.p) \ {h.e})
    /\ h.at \in Trading => ReservesOf(h.pool) \in Explicable(h.p, MovesOf(h.p))
    /\ h.at \in Updating => h.reserves \in Explicable(h.p, MovesOf(h.p))
    /\ h.at = "snapshot" =>
          ReservesOf(h.pool) \in Explicable(Head(h.left), MovesOf(Head(h.left)))

OnceInv ==
    restarts = 0 =>
        /\ \A e \in Range(log) : Key(e) \in processedKeys
        /\ \A p \in Pools : Reserves(p) \in Explicable(p, MovesOf(p))
        /\ \A s \in snapshots : ReservesOf(s) \in Explicable(s.poolId, MovesOf(s.poolId))
        /\ \A t \in Tasks : Explained(task[t])

\* As long as nothing interferes there is one task at work at most, which holds
\* what there is and is about to write what is not yet exact.
Holders(p) == {w \in Wallets : position[w, p] # None}

Rowed == {s.txHash : s \in swaps}
TradeHashes == {e.txHash : e \in {f \in Range(log) : IsTrade(f)}}

Caller(e) == IF e.type = "Mint" THEN {e.data.caller} ELSE {}

\* What the one task holds,
CalmWork(h) ==
    /\ h.at \in Moving \cup Trading => ReservesOf(h.pool) = Reserves(h.p)
    /\ h.at \in Moving => ReservesAfter(h.p, log) = After(h.p, Reserves(h.p), h.e)
    /\ h.at \in {"pool", "position"} => Providers(h.p) = Holders(h.p) \cup Caller(h.e)
    /\ h.at = "position" => /\ h.existing = position[h.e.data.caller, h.p]
                            /\ h.e.type = "Burn" => h.existing # None
    /\ h.at \in Updating => /\ h.reserves = ReservesAfter(h.p, log)
                            /\ h.lpCount = Cardinality(Providers(h.p))
    /\ h.at = "emitting" => row[h.p].lpCount = h.lpCount
    /\ h.at = "swap" => TradeHashes = Rowed \cup {h.e.txHash}
    /\ h.at \in Valuing => \A p \in Pools : h.tvl[p] = PoolTvl(row[p])
    /\ h.at = "snapshot" => ReservesOf(h.pool) = Reserves(Head(h.left))

\* ... and the rest, which is exact but for what that task is about to write.
RowExact(h, p) ==
    \/ h.at \in Moving \cup {"updating"} /\ h.p = p
    \/ Reserves(p) = ReservesAfter(p, log)

ToldExact(h, p) ==
    \/ h.at \in Moving \cup Updating /\ h.p = p
    \/ emitted[p] = None
    \/ emitted[p] = Reserves(p) /\ row[p].lpCount = Cardinality(Providers(p))

HoldersExact(h, p) ==
    \/ h.at \in {"pool", "position"} /\ h.p = p
    \/ Holders(p) = Providers(p)

Exact(h) ==
    /\ CalmWork(h)
    /\ \A p \in Pools : RowExact(h, p) /\ ToldExact(h, p) /\ HoldersExact(h, p)
    /\ h.at = "swap" \/ Rowed = TradeHashes
    /\ \A s \in snapshots : s.tvlUsd = PoolTvl(s)

CalmInv ==
    calm /\ parses =>
        /\ \A t, u \in Tasks : task[t] # Idle /\ task[u] # Idle => t = u
        /\ \A t \in Tasks : task[t] # Idle => Exact(task[t])
        /\ (\A t \in Tasks : task[t] = Idle) => Exact(Idle)

-----------------------------------------------------------------------------
(* Values. *)

LEMMA AmountsPositive ==
    ASSUME NEW e \in Events, IsMove(e) \/ IsTrade(e)
    PROVE  /\ e.data.amountA \in Nat /\ e.data.amountA > 0
           /\ e.data.amountB \in Nat /\ e.data.amountB > 0
           /\ PoolOf(e) \in Pools
<1>1. Positive(e.data.amountA) /\ Positive(e.data.amountB) /\ PoolOf(e) # None
  BY DEF IsMove, IsTrade
<1>2. e.data.amountA \in Int /\ e.data.amountB \in Int
  BY <1>1, EventsAssumption DEF Positive
<1>3. PoolOf(e) \in Pools
  BY <1>1 DEF PoolOf
<1>4. QED BY <1>1, <1>2, <1>3 DEF Positive

LEMMA MoverIsWallet ==
    ASSUME NEW e \in Events, IsMove(e)
    PROVE  e.data.caller \in Wallets
BY EventsAssumption DEF IsMove

LEMMA ValueIsNatural ==
    ASSUME NEW amount \in Nat, NEW r \in Rows, NEW isToken0
    PROVE  EstimateUsdValue(amount, r, isToken0) \in Nat
<1>1. r.reserve0 \in Nat /\ r.reserve1 \in Nat
  BY DEF Rows
<1>2. \A x \in Nat, y \in Nat : y > 0 => (amount * x) \div y \in Nat
  OBVIOUS
<1>3. QED BY <1>1, <1>2 DEF EstimateUsdValue

LEMMA VolumeTyped ==
    ASSUME NEW r \in Rows, NEW old \in Rows, NEW e \in Events, IsTrade(e),
           NEW p \in Pools
    PROVE  /\ WithVolume(r, old, e, p) \in Rows
           /\ WithVolume(r, old, e, p).lpCount = r.lpCount
           /\ WithVolume(r, old, e, p).tvlUsd = r.tvlUsd
           /\ ReservesOf(WithVolume(r, old, e, p)) = ReservesOf(old)
           /\ WithVolume(r, old, e, p).feeRevenue24h = old.feeRevenue24h + SwapFee(e, p)
           /\ WithVolume(r, old, e, p).volume24hUsd
                = old.volume24hUsd + (UsdIn(e, p, old) + UsdOut(e, p, old)) \div 2
<1>1. e.data.amountA \in Nat /\ e.data.amountB \in Nat /\ Listing[p].feeBps \in Nat
  BY AmountsPositive, PoolRowsAssumption
<1>2. UsdIn(e, p, old) \in Nat /\ UsdOut(e, p, old) \in Nat
  BY <1>1, ValueIsNatural DEF UsdIn, UsdOut
<1>3. PICK volume \in Nat : volume = (UsdIn(e, p, old) + UsdOut(e, p, old)) \div 2
  BY <1>2
<1>4. PICK fee \in Nat : fee = SwapFee(e, p)
  <2>1. e.data.amountA * Listing[p].feeBps \in Nat
    BY <1>1
  <2>2. \A n \in Nat : n \div 10000 \in Nat
    OBVIOUS
  <2>3. QED BY <2>1, <2>2 DEF SwapFee
<1>5. WithVolume(r, old, e, p) =
        [r EXCEPT !.reserve0 = old.reserve0, !.reserve1 = old.reserve1,
                  !.volume24hUsd = old.volume24hUsd + volume,
                  !.feeRevenue24h = old.feeRevenue24h + fee]
  BY <1>3, <1>4 DEF WithVolume
<1>6. /\ old.reserve0 \in Nat /\ old.reserve1 \in Nat
      /\ old.volume24hUsd + volume \in Nat /\ old.feeRevenue24h + fee \in Nat
  BY DEF Rows
<1>7. PICK v \in Nat, f \in Nat, x \in Nat, y \in Nat :
         /\ x = old.reserve0 /\ y = old.reserve1
         /\ v = old.volume24hUsd + volume /\ f = old.feeRevenue24h + fee
         /\ WithVolume(r, old, e, p) = [r EXCEPT !.reserve0 = x, !.reserve1 = y,
                                                !.volume24hUsd = v, !.feeRevenue24h = f]
  BY <1>5, <1>6
<1>8. /\ WithVolume(r, old, e, p) \in Rows
      /\ WithVolume(r, old, e, p).lpCount = r.lpCount
      /\ WithVolume(r, old, e, p).tvlUsd = r.tvlUsd
      /\ ReservesOf(WithVolume(r, old, e, p)) = ReservesOf(old)
      /\ WithVolume(r, old, e, p).feeRevenue24h = f
      /\ WithVolume(r, old, e, p).volume24hUsd = v
  BY <1>7 DEF Rows, ReservesOf
<1>9. QED BY <1>3, <1>4, <1>7, <1>8

LEMMA NewReservesTyped ==
    ASSUME NEW old \in Rows, NEW e \in Events, IsMove(e)
    PROVE  /\ NewReserves(old, e) \in Nat \X Nat
           /\ NewReserves(old, e) = After(PoolOf(e), ReservesOf(old), e)
<1>1. /\ e.data.amountA \in Nat /\ e.data.amountB \in Nat
      /\ old.reserve0 \in Nat /\ old.reserve1 \in Nat
  BY AmountsPositive DEF Rows
<1>2. /\ MoreOf(old.reserve0 - e.data.amountA, 0) \in Nat
      /\ MoreOf(old.reserve1 - e.data.amountB, 0) \in Nat
  BY <1>1 DEF MoreOf
<1>3. NewReserves(old, e) \in Nat \X Nat
  BY <1>1, <1>2 DEF NewReserves
<1>4. NewReserves(old, e) = After(PoolOf(e), ReservesOf(old), e)
  BY DEF NewReserves, After, ReservesOf
<1>5. QED BY <1>3, <1>4

LEMMA NewPositionTyped ==
    ASSUME NEW old \in Positions \cup {None}, NEW e \in Events, IsMove(e)
    PROVE  NewPosition(old, e) \in Positions
<1>1. e.data.amountA \in Nat /\ e.data.amountB \in Nat
  BY AmountsPositive
<1>2. CASE old = None
  BY <1>1, <1>2 DEF NewPosition, Positions
<1>3. CASE old # None
  <2>1. /\ old.lpTokenAmount \in Nat /\ old.token0Deposited \in Int
        /\ old.token1Deposited \in Int
    BY <1>3 DEF Positions
  <2>2. MoreOf(old.lpTokenAmount - e.data.amountA, 0) \in Nat
    BY <1>1, <2>1 DEF MoreOf
  <2>3. QED BY <1>1, <1>3, <2>1, <2>2 DEF NewPosition, Positions
<1>4. QED BY <1>2, <1>3

LEMMA TvlTyped == ASSUME NEW r \in Rows PROVE PoolTvl(r) \in Nat
<1>1. r.reserve0 \in Nat /\ r.reserve1 \in Nat
  BY DEF Rows
<1>2. \A x \in Nat, y \in Nat : y > 0 => y + (x * x) \div y \in Nat
  OBVIOUS
<1>3. QED BY <1>1, <1>2 DEF PoolTvl

\* snapshotTvl takes the active pools in some order.
LEMMA PoolsInOrder ==
    ASSUME ActivePools # {}
    PROVE  SetToSeq(ActivePools) \in Seq(Pools) \ {<<>>}
<1>1. PICK A : A = ActivePools
  OBVIOUS
<1>2. A \in SUBSET Pools /\ A # {}
  BY <1>1 DEF ActivePools
<1>3. IsFiniteSet(A)
  BY <1>2, PoolRowsAssumption, FS_Subset
<1>4. PICK n \in Nat : n = Cardinality(A) /\ n # 0
  BY <1>2, <1>3, FS_CardinalityType, FS_EmptySet
<1>5. \E f \in [1..n -> A] : IsInjective(f)
  <2>1. ExistsBijection(1..n, A)
    BY <1>3, <1>4, FS_CardinalityType
  <2>2. QED BY <2>1 DEF ExistsBijection, Bijection, Injection, IsInjective
<1>6. SetToSeq(A) \in [1..n -> A]
  BY <1>4, <1>5 DEF SetToSeq
<1>7. SetToSeq(A) \in [1..n -> Pools]
  BY <1>2, <1>6
<1>8. QED BY <1>1, <1>4, <1>7

-----------------------------------------------------------------------------
(* Types. *)

\* Where a task waits says what it holds.
LEMMA Shapes ==
    ASSUME NEW h \in Work \cup {Idle}
    PROVE  /\ h = Idle <=> h.at = "idle"
           /\ h.at \in {"pool"} \cup Trading =>
                 h \in [at : {"pool"} \cup Trading, e : Events, p : Pools, pool : Rows]
           /\ h.at \in {"position", "counting"} =>
                 h \in [at : {"position", "counting"}, e : Events, p : Pools, pool : Rows,
                        existing : Positions \cup {None}]
           /\ h.at \in Updating =>
                 h \in [at : Updating, p : Pools, lpCount : Nat, reserves : Nat \X Nat]
           /\ h.at \in {"reading", "tvl"} =>
                 h \in [at : {"reading", "tvl"}, left : Seq(Pools) \ {<<>>},
                        tvl : [Pools -> Nat]]
           /\ h.at = "snapshot" =>
                 h \in [at : {"snapshot"}, left : Seq(Pools) \ {<<>>}, tvl : [Pools -> Nat],
                        pool : Rows]
BY DEF Work, Idle, Trading, Updating

LEMMA Holds ==
    ASSUME NEW h \in Work \cup {Idle}
    PROVE  /\ h.at \in Moving \cup Trading => h.e \in Events /\ h.p \in Pools /\ h.pool \in Rows
           /\ h.at \in Updating => h.p \in Pools /\ h.lpCount \in Nat /\ h.reserves \in Nat \X Nat
           /\ h.at \in Valuing =>
                 /\ h.left \in Seq(Pools) /\ h.left # <<>> /\ Head(h.left) \in Pools
                 /\ h.tvl \in [Pools -> Nat]
<1>1. h.at \in Moving \cup Trading => h.e \in Events /\ h.p \in Pools /\ h.pool \in Rows
  BY Shapes DEF Moving, Trading
<1>2. h.at \in Updating => h.p \in Pools /\ h.lpCount \in Nat /\ h.reserves \in Nat \X Nat
  BY Shapes
<1>3. h.at \in Valuing =>
         h.left \in Seq(Pools) /\ h.left # <<>> /\ h.tvl \in [Pools -> Nat]
  BY Shapes DEF Valuing
<1>4. \A s \in Seq(Pools) : s # <<>> => Head(s) \in Pools
  OBVIOUS
<1>5. QED BY <1>1, <1>2, <1>3, <1>4

LEMMA TasksApart ==
    /\ \A t \in Handlers : t \in Tasks /\ t \notin CronJobs
    /\ \A t \in CronJobs : t \in Tasks
BY PoolRowsAssumption DEF Tasks

\* Positions come and do not go.
LEMMA CountGrows ==
    ASSUME \A k \in Wallets \X Pools : position[k] # None => position'[k] # None,
           NEW p \in Pools
    PROVE  LpCount(p) \in Nat /\ LpCount(p)' \in Nat /\ LpCount(p) <= LpCount(p)'
<1> DEFINE H == {w \in Wallets : position[w, p] # None}
           G == {w \in Wallets : position'[w, p] # None}
<1>1. H \subseteq G /\ G \in SUBSET Wallets
  OBVIOUS
<1>2. IsFiniteSet(G) /\ IsFiniteSet(H)
  BY <1>1, PoolRowsAssumption, FS_Subset
<1>3. Cardinality(H) <= Cardinality(G) /\ Cardinality(H) \in Nat /\ Cardinality(G) \in Nat
  BY <1>1, <1>2, FS_Subset, FS_CardinalityType
<1>4. QED BY <1>3 DEF LpCount

\* What a task may hold stays so.
LEMMA WorkKept ==
    ASSUME NEW h \in Work \cup {Idle}, WorkOk(h), parses' = parses,
           Range(log) \subseteq Range(log'),
           \A k \in Wallets \X Pools : position[k] # None => position'[k] # None
    PROVE  WorkOk(h)'
<1>1. h.at \in Trading => IsTrade(h.e)'
  BY DEF WorkOk, IsTrade
<1>2. h.at \in Updating => h.lpCount <= LpCount(h.p)'
  <2>1. SUFFICES ASSUME h.at \in Updating PROVE h.lpCount <= LpCount(h.p)'
    OBVIOUS
  <2>2. h.p \in Pools /\ h.lpCount \in Nat /\ h.lpCount <= LpCount(h.p)
    BY <2>1, Holds DEF WorkOk
  <2>3. LpCount(h.p) \in Nat /\ LpCount(h.p)' \in Nat /\ LpCount(h.p) <= LpCount(h.p)'
    BY <2>2, CountGrows
  <2>4. QED BY <2>2, <2>3
<1>3. QED BY <1>1, <1>2 DEF WorkOk

\* One task goes on, the others stay.
LEMMA GoesTyped ==
    ASSUME RowsTyped, NEW t \in Tasks, NEW to \in Work \cup {Idle}, Goes(t, to)
    PROVE  /\ task' \in [Tasks -> Work \cup {Idle}]
           /\ task'[t] = to
           /\ \A u \in Tasks : u # t => task'[u] = task[u]
BY DEF RowsTyped, Goes

LEMMA GoesOk ==
    ASSUME RowsTyped, NEW t \in Tasks, NEW to \in Work \cup {Idle}, Goes(t, to),
           WorkOk(to)', parses' = parses, Range(log) \subseteq Range(log'),
           \A k \in Wallets \X Pools : position[k] # None => position'[k] # None
    PROVE  /\ task' \in [Tasks -> Work \cup {Idle}]
           /\ \A u \in Tasks : WorkOk(task[u])'
<1>1. /\ task' \in [Tasks -> Work \cup {Idle}]
      /\ task'[t] = to
      /\ \A u \in Tasks : u # t => task'[u] = task[u]
  BY GoesTyped
<1>2. ASSUME NEW u \in Tasks
      PROVE  WorkOk(task[u])'
  <2>1. CASE u = t
    BY <1>1, <2>1 DEF WorkOk
  <2>2. CASE u # t
    <3>1. PICK h \in Work \cup {Idle} : h = task[u] /\ WorkOk(h)
      BY DEF RowsTyped
    <3>2. WorkOk(h)'
      BY <3>1, WorkKept
    <3>3. h = task'[u]
      BY <1>1, <2>2, <3>1
    <3>4. QED BY <3>2, <3>3 DEF WorkOk
  <2>3. QED BY <2>1, <2>2
<1>3. QED BY <1>1, <1>2

LEMMA IdleTyped == Idle \in Work \cup {Idle} /\ WorkOk(Idle) /\ WorkOk(Idle)'
BY DEF Idle, WorkOk, Moving, Trading, Updating

LEMMA TypedInit == RowsInit => RowsTyped
<1> SUFFICES ASSUME RowsInit PROVE RowsTyped
  OBVIOUS
<1>1. /\ parses \in BOOLEAN /\ restarts \in Nat /\ row \in [Pools -> Rows]
      /\ position \in [Wallets \X Pools -> Positions \cup {None}]
      /\ DOMAIN emitted = Pools /\ log \in Seq(Events)
  BY PoolRowsAssumption DEF RowsInit
<1>2. IsFiniteSet(Range(log))
  <2>1. Range(log) = {}
    BY DEF RowsInit, Range
  <2>2. QED BY <2>1, FS_EmptySet
<1>3. task \in [Tasks -> Work \cup {Idle}] /\ \A t \in Tasks : WorkOk(task[t])
  BY IdleTyped DEF RowsInit
<1>4. ASSUME NEW p \in Pools
      PROVE  row[p].lpCount <= LpCount(p)
  <2>1. {w \in Wallets : position[w, p] # None} = {}
    BY DEF RowsInit
  <2>2. LpCount(p) = 0
    BY <2>1, FS_EmptySet DEF LpCount
  <2>3. QED BY <2>2, PoolRowsAssumption DEF RowsInit
<1>5. \A s, o \in swaps : <<s.time, s.txHash>> = <<o.time, o.txHash>> => s = o
  BY DEF RowsInit
<1>6. QED BY <1>1, <1>2, <1>3, <1>4, <1>5 DEF RowsTyped

\* What most steps leave alone, and why the rest then stays typed.
LEMMA TablesTyped ==
    ASSUME RowsTyped, parses' = parses, restarts' \in Nat, row' \in [Pools -> Rows],
           position' \in [Wallets \X Pools -> Positions \cup {None}],
           \A k \in Wallets \X Pools : position[k] # None => position'[k] # None,
           \A p \in Pools : row'[p].lpCount = row[p].lpCount \/ row'[p].lpCount <= LpCount(p)'
    PROVE  \A p \in Pools : row'[p].lpCount <= LpCount(p)'
<1>1. TAKE p \in Pools
<1>2. LpCount(p) \in Nat /\ LpCount(p)' \in Nat /\ LpCount(p) <= LpCount(p)'
  BY CountGrows
<1>3. row[p].lpCount \in Nat /\ row[p].lpCount <= LpCount(p)
  BY DEF RowsTyped, Rows
<1>4. QED BY <1>2, <1>3

LEMMA HandTyped ==
    ASSUME RowsTyped, NEW t \in Handlers, NEW e \in Events, Hand(t, e)
    PROVE  RowsTyped'
<1>1. /\ log' = Append(log, e) /\ parses' = parses /\ restarts' = restarts
      /\ row' = row /\ position' = position /\ emitted' = emitted /\ swaps' = swaps
  BY DEF Hand, Tables
<1>2. log' \in Seq(Events) /\ Range(log') = Range(log) \cup {e} /\ IsFiniteSet(Range(log'))
  <2>1. log \in Seq(Events) /\ IsFiniteSet(Range(log))
    BY DEF RowsTyped
  <2>2. Range(log') = Range(log) \cup {e}
    BY <1>1, <2>1, RangeOneMore
  <2>3. QED BY <1>1, <2>1, <2>2, FS_AddElement, SMTT(30)
<1>3. PICK to : /\ Goes(t, to)
                /\ to = IF ~Handled(e) THEN Idle
                        ELSE [at |-> IF e.type = "Swap" THEN "swap" ELSE "pool",
                              e |-> e, p |-> PoolOf(e), pool |-> row[PoolOf(e)]]
  BY DEF Hand
<1>4. to \in Work \cup {Idle} /\ WorkOk(to)'
  <2>1. CASE ~Handled(e)
    BY <1>3, <2>1, IdleTyped
  <2>2. CASE IsMove(e)
    <3>1. e.type # "Swap" /\ PoolOf(e) \in Pools /\ row[PoolOf(e)] \in Rows
      BY <2>2, AmountsPositive DEF IsMove, RowsTyped
    <3>2. to = [at |-> "pool", e |-> e, p |-> PoolOf(e), pool |-> row[PoolOf(e)]]
      BY <1>3, <2>2, <3>1 DEF Handled
    <3>3. to \in Work
      BY <3>1, <3>2 DEF Work
    <3>4. WorkOk(to)'
      BY <1>2, <2>2, <3>2 DEF WorkOk, Moving, Trading, Updating
    <3>5. QED BY <3>3, <3>4
  <2>3. CASE IsTrade(e)
    <3>1. e.type = "Swap" /\ PoolOf(e) \in Pools /\ row[PoolOf(e)] \in Rows
      BY <2>3, AmountsPositive DEF IsTrade, RowsTyped
    <3>2. to = [at |-> "swap", e |-> e, p |-> PoolOf(e), pool |-> row[PoolOf(e)]]
      BY <1>3, <2>3, <3>1 DEF Handled
    <3>3. to \in Work
      BY <3>1, <3>2 DEF Work, Trading
    <3>4. IsTrade(e)'
      BY <1>1, <2>3 DEF IsTrade
    <3>5. WorkOk(to)'
      BY <1>2, <3>2, <3>4 DEF WorkOk, Moving, Trading, Updating
    <3>6. QED BY <3>3, <3>5
  <2>4. QED BY <2>1, <2>2, <2>3 DEF Handled
<1>5. task' \in [Tasks -> Work \cup {Idle}] /\ \A u \in Tasks : WorkOk(task[u])'
  <2>1. t \in Tasks /\ Range(log) \subseteq Range(log')
    BY <1>2, TasksApart
  <2>2. \A k \in Wallets \X Pools : position[k] # None => position'[k] # None
    BY <1>1
  <2>3. QED BY <1>1, <1>3, <1>4, <2>1, <2>2, GoesOk
<1>6. \A p \in Pools : row'[p].lpCount <= LpCount(p)'
  BY <1>1 DEF RowsTyped, LpCount
<1>7. QED BY <1>1, <1>2, <1>5, <1>6 DEF RowsTyped

\* A step that writes no table and hands no event.
LEMMA QuietTyped ==
    ASSUME RowsTyped, NEW t \in Tasks, NEW to \in Work \cup {Idle}, Goes(t, to), WorkOk(to)',
           UNCHANGED <<parses, row, position, swaps, log, restarts>>,
           DOMAIN emitted' = DOMAIN emitted
    PROVE  RowsTyped'
<1>1. task' \in [Tasks -> Work \cup {Idle}] /\ \A u \in Tasks : WorkOk(task[u])'
  <2>1. parses' = parses /\ Range(log) \subseteq Range(log')
    OBVIOUS
  <2>2. \A k \in Wallets \X Pools : position[k] # None => position'[k] # None
    OBVIOUS
  <2>3. QED BY <2>1, <2>2, GoesOk
<1>2. \A p \in Pools : row'[p].lpCount <= LpCount(p)'
  BY DEF RowsTyped, LpCount
<1>3. QED BY <1>1, <1>2 DEF RowsTyped

LEMMA LookTyped ==
    ASSUME RowsTyped, NEW t \in Tasks, LookForPosition(t)
    PROVE  RowsTyped'
<1>1. PICK h \in Work \cup {Idle} : h = task[t] /\ WorkOk(h)
  BY DEF RowsTyped
<1>2. /\ h.at = "pool" /\ h.e \in Events /\ h.p \in Pools /\ h.pool \in Rows
      /\ IsMove(h.e) /\ h.p = PoolOf(h.e) /\ h.e \in Range(log)
  BY <1>1, Holds DEF LookForPosition, WorkOk, Moving
<1>3. PICK existing \in Positions \cup {None} : existing = position[h.e.data.caller, h.p]
  BY <1>2, MoverIsWallet DEF RowsTyped
<1>4. PICK at : /\ at = IF existing # None /\ ~parses THEN "idle"
                        ELSE IF existing # None \/ h.e.type = "Mint" THEN "position"
                        ELSE IF parses THEN "counting" ELSE "idle"
                /\ Goes(t, IF at = "idle" THEN Idle
                           ELSE [at |-> at, e |-> h.e, p |-> h.p, pool |-> h.pool,
                                 existing |-> existing])
  BY <1>1, <1>3 DEF LookForPosition
<1>5. UNCHANGED <<parses, row, position, swaps, log, restarts>> /\ emitted' = emitted
  BY DEF LookForPosition, Tables, History
<1>6. PICK to : /\ Goes(t, to)
                /\ to = IF at = "idle" THEN Idle
                        ELSE [at |-> at, e |-> h.e, p |-> h.p, pool |-> h.pool,
                              existing |-> existing]
  BY <1>4
<1>7. to \in Work \cup {Idle} /\ WorkOk(to)'
  <2>1. CASE at = "idle"
    BY <1>6, <2>1, IdleTyped
  <2>2. CASE at \in {"position", "counting"}
    <3>1. to = [at |-> at, e |-> h.e, p |-> h.p, pool |-> h.pool, existing |-> existing]
      BY <1>6, <2>2
    <3>2. to \in Work
      BY <1>2, <2>2, <3>1 DEF Work
    <3>3. WorkOk(to)'
      BY <1>2, <1>5, <2>2, <3>1 DEF WorkOk, Moving, Trading, Updating
    <3>4. QED BY <3>2, <3>3
  <2>3. at \in {"idle", "position", "counting"}
    BY <1>4
  <2>4. QED BY <2>1, <2>2, <2>3
<1>8. QED BY <1>5, <1>6, <1>7, QuietTyped

LEMMA SavePositionTyped ==
    ASSUME RowsTyped, NEW t \in Tasks, SavePosition(t)
    PROVE  RowsTyped'
<1>1. PICK h \in Work \cup {Idle} : h = task[t] /\ WorkOk(h)
  BY DEF RowsTyped
<1>2. /\ h.at = "position" /\ h.e \in Events /\ h.p \in Pools /\ h.pool \in Rows
      /\ h.existing \in Positions \cup {None}
      /\ IsMove(h.e) /\ h.p = PoolOf(h.e) /\ h.e \in Range(log)
  BY <1>1, Holds, Shapes DEF SavePosition, WorkOk, Moving
<1>3. PICK k \in Wallets \X Pools : k = <<h.e.data.caller, h.p>>
  BY <1>2, MoverIsWallet
<1>4. PICK new \in Positions : new = NewPosition(h.existing, h.e) /\ new # None
  BY <1>2, NewPositionTyped, PoolRowsAssumption
<1>5. /\ position' = position \/ position' = [position EXCEPT ![k] = new]
      /\ Goes(t, Idle) \/ Goes(t, [h EXCEPT !.at = "counting"])
      /\ UNCHANGED <<parses, row, swaps, log, restarts>> /\ emitted' = emitted
  BY <1>1, <1>3, <1>4 DEF SavePosition, History
<1>6. /\ position' \in [Wallets \X Pools -> Positions \cup {None}]
      /\ \A l \in Wallets \X Pools : position[l] # None => position'[l] # None
  BY <1>4, <1>5 DEF RowsTyped
<1>7. PICK to : Goes(t, to) /\ (to = Idle \/ to = [h EXCEPT !.at = "counting"])
  BY <1>5
<1>8. to \in Work \cup {Idle} /\ WorkOk(to)'
  <2>1. CASE to = Idle
    BY <2>1, IdleTyped
  <2>2. CASE to = [h EXCEPT !.at = "counting"]
    <3>1. /\ to \in [at : {"position", "counting"}, e : Events, p : Pools, pool : Rows,
                     existing : Positions \cup {None}]
          /\ to.at = "counting" /\ to.e = h.e /\ to.p = h.p
      BY <1>2, <2>2, Shapes
    <3>2. WorkOk(to)'
      BY <1>2, <1>5, <3>1 DEF WorkOk, Moving, Trading, Updating
    <3>3. QED BY <3>1, <3>2 DEF Work
  <2>3. QED BY <1>7, <2>1, <2>2
<1>9. task' \in [Tasks -> Work \cup {Idle}] /\ \A u \in Tasks : WorkOk(task[u])'
  <2>1. parses' = parses /\ Range(log) \subseteq Range(log')
    BY <1>5
  <2>2. QED BY <1>6, <1>7, <1>8, <2>1, GoesOk
<1>10. \A p \in Pools : row'[p].lpCount <= LpCount(p)'
  BY <1>5, <1>6, TablesTyped DEF RowsTyped
<1>11. QED BY <1>5, <1>6, <1>9, <1>10 DEF RowsTyped

LEMMA CountTyped ==
    ASSUME RowsTyped, NEW t \in Tasks, CountPositions(t)
    PROVE  RowsTyped'
<1>1. PICK h \in Work \cup {Idle} : h = task[t] /\ WorkOk(h)
  BY DEF RowsTyped
<1>2. /\ h.at = "counting" /\ h.e \in Events /\ h.p \in Pools /\ h.pool \in Rows
      /\ IsMove(h.e)
  BY <1>1, Holds DEF CountPositions, WorkOk, Moving
<1>3. UNCHANGED <<parses, row, position, swaps, log, restarts>> /\ emitted' = emitted
  BY DEF CountPositions, Tables, History
<1>4. PICK n \in Nat : n = LpCount(h.p) /\ n = LpCount(h.p)'
  BY <1>2, <1>3, CountGrows DEF LpCount
<1>5. PICK r \in Nat \X Nat : r = NewReserves(h.pool, h.e)
  BY <1>2, NewReservesTyped
<1>6. PICK to : /\ to = [at |-> "updating", p |-> h.p, lpCount |-> n, reserves |-> r]
                /\ Goes(t, to)
  BY <1>1, <1>4, <1>5 DEF CountPositions
<1>7. to \in Work
  BY <1>2, <1>6 DEF Work, Updating
<1>8. WorkOk(to)'
  BY <1>4, <1>6 DEF WorkOk, Moving, Trading, Updating
<1>9. QED BY <1>3, <1>6, <1>7, <1>8, QuietTyped

\* What the three writers of a row leave in it.
LEMMA PoolWritten ==
    ASSUME RowsTyped, NEW t \in Tasks, UpdatePool(t), NEW h \in Work \cup {Idle}, h = task[t]
    PROVE  /\ h.p \in Pools /\ row' \in [Pools -> Rows]
           /\ \A p \in Pools : p # h.p => row'[p] = row[p]
           /\ ReservesOf(row'[h.p]) = h.reserves
           /\ row'[h.p].lpCount = h.lpCount
           /\ row'[h.p].feeRevenue24h = row[h.p].feeRevenue24h
           /\ row'[h.p].volume24hUsd = row[h.p].volume24hUsd
<1>1. h.at = "updating" /\ h.p \in Pools /\ h.lpCount \in Nat /\ h.reserves \in Nat \X Nat
  BY Holds DEF UpdatePool, Updating
<1>2. PICK x \in Nat, y \in Nat : h.reserves = <<x, y>> /\ h.reserves[1] = x /\ h.reserves[2] = y
  BY <1>1
<1>3. PICK p \in Pools, n \in Nat : p = h.p /\ n = h.lpCount
  BY <1>1
<1>4. row' = [row EXCEPT ![p].reserve0 = x, ![p].reserve1 = y, ![p].lpCount = n]
  BY <1>2, <1>3 DEF UpdatePool
<1>5. row \in [Pools -> Rows]
  BY DEF RowsTyped
<1>6. PICK r \in Rows : r = row[p]
  BY <1>5
<1>7. row' = [row EXCEPT ![p] = [r EXCEPT !.reserve0 = x, !.reserve1 = y, !.lpCount = n]]
  BY <1>4, <1>5, <1>6
<1>8. /\ [r EXCEPT !.reserve0 = x, !.reserve1 = y, !.lpCount = n] \in Rows
      /\ [r EXCEPT !.reserve0 = x, !.reserve1 = y, !.lpCount = n].reserve0 = x
      /\ [r EXCEPT !.reserve0 = x, !.reserve1 = y, !.lpCount = n].reserve1 = y
      /\ [r EXCEPT !.reserve0 = x, !.reserve1 = y, !.lpCount = n].lpCount = n
      /\ [r EXCEPT !.reserve0 = x, !.reserve1 = y, !.lpCount = n].feeRevenue24h
            = r.feeRevenue24h
      /\ [r EXCEPT !.reserve0 = x, !.reserve1 = y, !.lpCount = n].volume24hUsd
            = r.volume24hUsd
  BY DEF Rows
<1>9. PICK s \in Rows : /\ s.reserve0 = x /\ s.reserve1 = y /\ s.lpCount = n
                        /\ s.feeRevenue24h = r.feeRevenue24h
                        /\ s.volume24hUsd = r.volume24hUsd
                        /\ row' = [row EXCEPT ![p] = s]
  BY <1>7, <1>8
<1>10. QED BY <1>1, <1>2, <1>3, <1>5, <1>6, <1>9 DEF ReservesOf

LEMMA VolumeWritten ==
    ASSUME RowsTyped, NEW t \in Tasks, UpdatePoolVolume(t),
           NEW h \in Work \cup {Idle}, h = task[t]
    PROVE  /\ h.p \in Pools /\ row' \in [Pools -> Rows]
           /\ \A p \in Pools : p # h.p => row'[p] = row[p]
           /\ ReservesOf(row'[h.p]) = ReservesOf(h.pool)
           /\ row'[h.p].lpCount = row[h.p].lpCount
           /\ row'[h.p].feeRevenue24h = h.pool.feeRevenue24h + SwapFee(h.e, h.p)
           /\ row'[h.p].volume24hUsd
                = h.pool.volume24hUsd
                    + (UsdIn(h.e, h.p, h.pool) + UsdOut(h.e, h.p, h.pool)) \div 2
<1>1. h.at = "volume" /\ WorkOk(h)
  BY DEF UpdatePoolVolume, RowsTyped
<1>2. h.e \in Events /\ h.p \in Pools /\ h.pool \in Rows /\ IsTrade(h.e)
  BY <1>1, Holds DEF WorkOk, Trading
<1>3. row \in [Pools -> Rows]
  BY DEF RowsTyped
<1>4. PICK p \in Pools, r \in Rows : p = h.p /\ r = row[p]
  BY <1>2, <1>3
<1>5. PICK s \in Rows : /\ s = WithVolume(r, h.pool, h.e, p)
                        /\ s.lpCount = r.lpCount /\ ReservesOf(s) = ReservesOf(h.pool)
                        /\ s.feeRevenue24h = h.pool.feeRevenue24h + SwapFee(h.e, p)
                        /\ s.volume24hUsd
                             = h.pool.volume24hUsd
                                 + (UsdIn(h.e, p, h.pool) + UsdOut(h.e, p, h.pool)) \div 2
  <2>1. PICK e \in Events, old \in Rows : e = h.e /\ old = h.pool /\ IsTrade(e)
    BY <1>2
  <2>2. /\ WithVolume(r, old, e, p) \in Rows
        /\ WithVolume(r, old, e, p).lpCount = r.lpCount
        /\ ReservesOf(WithVolume(r, old, e, p)) = ReservesOf(old)
        /\ WithVolume(r, old, e, p).feeRevenue24h = old.feeRevenue24h + SwapFee(e, p)
        /\ WithVolume(r, old, e, p).volume24hUsd
             = old.volume24hUsd + (UsdIn(e, p, old) + UsdOut(e, p, old)) \div 2
    BY <2>1, VolumeTyped, SMTT(30)
  <2>3. QED BY <2>1, <2>2, Zenon
<1>6. row' = [row EXCEPT ![p] = s]
  <2>1. row' = [row EXCEPT ![p] = WithVolume(row[p], h.pool, h.e, p)]
    BY <1>3, <1>4 DEF UpdatePoolVolume
  <2>2. QED BY <1>4, <1>5, <2>1
<1>7. QED BY <1>2, <1>3, <1>4, <1>5, <1>6

LEMMA TvlWritten ==
    ASSUME RowsTyped, NEW t \in Tasks, UpdateTvl(t)
    PROVE  /\ row' \in [Pools -> Rows]
           /\ \A p \in Pools : /\ ReservesOf(row'[p]) = ReservesOf(row[p])
                               /\ row'[p].lpCount = row[p].lpCount
                               /\ row'[p].feeRevenue24h = row[p].feeRevenue24h
                               /\ row'[p].volume24hUsd = row[p].volume24hUsd
<1>1. PICK h \in Work \cup {Idle} : h = task[t] /\ h.at = "tvl"
  BY DEF UpdateTvl, RowsTyped
<1>2. PICK q \in Pools, v \in Nat : q = Head(h.left) /\ v = h.tvl[q]
  BY <1>1, Holds DEF Valuing
<1>3. row \in [Pools -> Rows]
  BY DEF RowsTyped
<1>4. PICK r \in Rows : r = row[q]
  BY <1>3
<1>5. row' = [row EXCEPT ![q].tvlUsd = v]
  BY <1>1, <1>2 DEF UpdateTvl
<1>6. row' = [row EXCEPT ![q] = [r EXCEPT !.tvlUsd = v]]
  BY <1>3, <1>4, <1>5
<1>7. /\ [r EXCEPT !.tvlUsd = v] \in Rows
      /\ [r EXCEPT !.tvlUsd = v].lpCount = r.lpCount
      /\ [r EXCEPT !.tvlUsd = v].reserve0 = r.reserve0
      /\ [r EXCEPT !.tvlUsd = v].reserve1 = r.reserve1
      /\ [r EXCEPT !.tvlUsd = v].feeRevenue24h = r.feeRevenue24h
      /\ [r EXCEPT !.tvlUsd = v].volume24hUsd = r.volume24hUsd
  BY DEF Rows
<1>8. PICK s \in Rows : /\ row' = [row EXCEPT ![q] = s] /\ s.lpCount = r.lpCount
                        /\ s.reserve0 = r.reserve0 /\ s.reserve1 = r.reserve1
                        /\ s.feeRevenue24h = r.feeRevenue24h
                        /\ s.volume24hUsd = r.volume24hUsd
  BY <1>6, <1>7
<1>9. QED BY <1>3, <1>4, <1>8 DEF ReservesOf

\* A step that writes rows and nothing else.
LEMMA RowWriteTyped ==
    ASSUME RowsTyped, NEW t \in Tasks, NEW to \in Work \cup {Idle}, Goes(t, to), WorkOk(to)',
           UNCHANGED <<parses, position, swaps, log, restarts, emitted>>,
           row' \in [Pools -> Rows],
           \A p \in Pools : row'[p].lpCount = row[p].lpCount \/ row'[p].lpCount <= LpCount(p)'
    PROVE  RowsTyped'
<1>1. /\ parses' = parses /\ Range(log) \subseteq Range(log') /\ restarts' \in Nat
      /\ position' \in [Wallets \X Pools -> Positions \cup {None}]
      /\ \A k \in Wallets \X Pools : position[k] # None => position'[k] # None
  BY DEF RowsTyped
<1>2. task' \in [Tasks -> Work \cup {Idle}] /\ \A u \in Tasks : WorkOk(task[u])'
  BY <1>1, GoesOk
<1>3. \A p \in Pools : row'[p].lpCount <= LpCount(p)'
  BY <1>1, TablesTyped
<1>4. QED BY <1>1, <1>2, <1>3 DEF RowsTyped

LEMMA UpdatePoolTyped ==
    ASSUME RowsTyped, NEW t \in Tasks, UpdatePool(t)
    PROVE  RowsTyped'
<1>1. PICK h \in Work \cup {Idle} : h = task[t] /\ WorkOk(h)
  BY DEF RowsTyped
<1>2. h.at = "updating" /\ h.lpCount <= LpCount(h.p)
  BY <1>1 DEF UpdatePool, WorkOk, Updating
<1>3. UNCHANGED <<parses, position, swaps, log, restarts, emitted>>
  BY DEF UpdatePool, History
<1>4. PICK to : Goes(t, to) /\ to = [h EXCEPT !.at = "emitting"]
  BY <1>1 DEF UpdatePool
<1>5. /\ to \in [at : Updating, p : Pools, lpCount : Nat, reserves : Nat \X Nat]
      /\ to.at = "emitting" /\ to.p = h.p /\ to.lpCount = h.lpCount
  BY <1>2, <1>4, Shapes DEF Updating
<1>6. to \in Work /\ WorkOk(to)'
  BY <1>2, <1>3, <1>5 DEF Work, WorkOk, LpCount, Moving, Trading, Updating
<1>7. /\ row' \in [Pools -> Rows]
      /\ \A p \in Pools : row'[p].lpCount = row[p].lpCount \/ row'[p].lpCount <= LpCount(p)'
  <2>1. LpCount(h.p)' = LpCount(h.p)
    BY <1>3 DEF LpCount
  <2>2. QED BY <1>1, <1>2, <2>1, PoolWritten
<1>8. QED BY <1>3, <1>4, <1>6, <1>7, RowWriteTyped

LEMMA EmitTyped ==
    ASSUME RowsTyped, NEW t \in Tasks, EmitReserves(t)
    PROVE  RowsTyped'
<1>1. UNCHANGED <<parses, row, position, swaps, log, restarts>> /\ Goes(t, Idle)
  BY DEF EmitReserves, History
<1>2. DOMAIN emitted' = DOMAIN emitted
  BY DEF EmitReserves
<1>3. QED BY <1>1, <1>2, IdleTyped, QuietTyped

LEMMA SaveSwapTyped ==
    ASSUME RowsTyped, NEW t \in Tasks, SaveSwap(t)
    PROVE  RowsTyped'
<1>1. PICK h \in Work \cup {Idle} : h = task[t] /\ WorkOk(h)
  BY DEF RowsTyped
<1>2. /\ h.at = "swap" /\ h.e \in Events /\ h.p \in Pools /\ h.pool \in Rows
      /\ IsTrade(h.e) /\ h.p = PoolOf(h.e) /\ h.e \in Range(log)
  BY <1>1, Holds DEF SaveSwap, WorkOk, Trading
<1>3. UNCHANGED <<parses, row, position, log, restarts, emitted>>
  BY DEF SaveSwap, History
<1>4. PICK to : Goes(t, to) /\ to = [h EXCEPT !.at = "volume"]
  BY <1>1 DEF SaveSwap
<1>5. /\ to \in [at : {"pool"} \cup Trading, e : Events, p : Pools, pool : Rows]
      /\ to.at = "volume" /\ to.p = h.p /\ to.e = h.e
  BY <1>2, <1>4, Shapes DEF Trading
<1>6. IsTrade(h.e)'
  BY <1>2, <1>3 DEF IsTrade
<1>7. to \in Work /\ WorkOk(to)'
  BY <1>2, <1>3, <1>5, <1>6 DEF Work, WorkOk, Moving, Trading, Updating
<1>8. task' \in [Tasks -> Work \cup {Idle}] /\ \A u \in Tasks : WorkOk(task[u])'
  <2>1. parses' = parses /\ Range(log) \subseteq Range(log')
    BY <1>3
  <2>2. \A k \in Wallets \X Pools : position[k] # None => position'[k] # None
    BY <1>3
  <2>3. QED BY <1>4, <1>7, <2>1, <2>2, GoesOk
<1>9. \A s, o \in swaps' : <<s.time, s.txHash>> = <<o.time, o.txHash>> => s = o
  <2>1. PICK n : swaps' = Saved(swaps, n)
    BY DEF SaveSwap
  <2>2. QED BY <2>1 DEF Saved, RowsTyped
<1>10. \A p \in Pools : row'[p].lpCount <= LpCount(p)'
  BY <1>3 DEF RowsTyped, LpCount
<1>11. QED BY <1>3, <1>8, <1>9, <1>10 DEF RowsTyped

LEMMA VolumeStepTyped ==
    ASSUME RowsTyped, NEW t \in Tasks, UpdatePoolVolume(t)
    PROVE  RowsTyped'
<1>1. PICK h \in Work \cup {Idle} : h = task[t]
  BY DEF RowsTyped
<1>2. UNCHANGED <<parses, position, swaps, log, restarts, emitted>> /\ Goes(t, Idle)
  BY DEF UpdatePoolVolume, History
<1>3. /\ row' \in [Pools -> Rows]
      /\ \A p \in Pools : row'[p].lpCount = row[p].lpCount \/ row'[p].lpCount <= LpCount(p)'
  BY <1>1, VolumeWritten
<1>4. QED BY <1>2, <1>3, IdleTyped, RowWriteTyped

LEMMA StartTyped ==
    ASSUME RowsTyped, NEW t \in Tasks, StartSnapshot(t)
    PROVE  RowsTyped'
<1>1. UNCHANGED <<parses, row, position, swaps, log, restarts>> /\ emitted' = emitted
  BY DEF StartSnapshot, Tables
<1>2. PICK to : /\ Goes(t, to)
                /\ to = [at |-> "reading", left |-> SetToSeq(ActivePools),
                         tvl |-> [p \in Pools |-> PoolTvl(row[p])]]
                /\ ActivePools # {}
  BY DEF StartSnapshot
<1>3. [p \in Pools |-> PoolTvl(row[p])] \in [Pools -> Nat]
  BY TvlTyped DEF RowsTyped
<1>4. to \in Work /\ WorkOk(to)'
  BY <1>2, <1>3, PoolsInOrder DEF Work, WorkOk, Moving, Trading, Updating
<1>5. QED BY <1>1, <1>2, <1>4, QuietTyped

LEMMA ReadTyped ==
    ASSUME RowsTyped, NEW t \in Tasks, ReadAgain(t)
    PROVE  RowsTyped'
<1>1. PICK h \in Work \cup {Idle} : h = task[t]
  BY DEF RowsTyped
<1>2. /\ h.at = "reading" /\ h.left \in Seq(Pools) /\ h.left # <<>> /\ Head(h.left) \in Pools
      /\ h.tvl \in [Pools -> Nat]
  BY <1>1, Holds DEF ReadAgain, Valuing
<1>3. UNCHANGED <<parses, row, position, swaps, log, restarts>> /\ emitted' = emitted
  BY DEF ReadAgain, Tables, History
<1>4. PICK r \in Rows : r = row[Head(h.left)]
  BY <1>2 DEF RowsTyped
<1>5. PICK to : /\ Goes(t, to)
                /\ to = [at |-> "snapshot", left |-> h.left, tvl |-> h.tvl, pool |-> r]
  BY <1>1, <1>4 DEF ReadAgain
<1>6. to \in Work /\ WorkOk(to)'
  BY <1>2, <1>5 DEF Work, WorkOk, Moving, Trading, Updating
<1>7. QED BY <1>3, <1>5, <1>6, QuietTyped

LEMMA SaveSnapshotTyped ==
    ASSUME RowsTyped, NEW t \in Tasks, SaveSnapshot(t)
    PROVE  RowsTyped'
<1>1. PICK h \in Work \cup {Idle} : h = task[t]
  BY DEF RowsTyped
<1>2. /\ h.at = "snapshot" /\ h.left \in Seq(Pools) /\ h.left # <<>>
      /\ h.tvl \in [Pools -> Nat]
  BY <1>1, Holds DEF SaveSnapshot, Valuing
<1>3. UNCHANGED <<parses, row, position, swaps, log, restarts>> /\ emitted' = emitted
  BY DEF SaveSnapshot, History
<1>4. PICK to : /\ Goes(t, to)
                /\ to = [at |-> "tvl", left |-> h.left, tvl |-> h.tvl]
  BY <1>1 DEF SaveSnapshot
<1>5. to \in Work /\ WorkOk(to)'
  BY <1>2, <1>4 DEF Work, WorkOk, Moving, Trading, Updating
<1>6. QED BY <1>3, <1>4, <1>5, QuietTyped

LEMMA UpdateTvlTyped ==
    ASSUME RowsTyped, NEW t \in Tasks, UpdateTvl(t)
    PROVE  RowsTyped'
<1>1. PICK h \in Work \cup {Idle} : h = task[t]
  BY DEF RowsTyped
<1>2. /\ h.at = "tvl" /\ h.left \in Seq(Pools) /\ h.left # <<>> /\ h.tvl \in [Pools -> Nat]
  BY <1>1, Holds DEF UpdateTvl, Valuing
<1>3. UNCHANGED <<parses, position, swaps, log, restarts, emitted>>
  BY DEF UpdateTvl, History
<1>4. PICK to : /\ Goes(t, to)
                /\ to = IF Len(h.left) = 1 THEN Idle
                        ELSE [at |-> "reading", left |-> Tail(h.left), tvl |-> h.tvl]
  BY <1>1 DEF UpdateTvl
<1>5. to \in Work \cup {Idle} /\ WorkOk(to)'
  <2>1. CASE Len(h.left) = 1
    BY <1>4, <2>1, IdleTyped
  <2>2. CASE Len(h.left) # 1
    <3>1. PICK rest \in Seq(Pools) : rest = Tail(h.left) /\ rest # <<>>
      <4>1. Tail(h.left) \in Seq(Pools) /\ Len(Tail(h.left)) = Len(h.left) - 1
        BY <1>2
      <4>2. Len(h.left) \in Nat /\ Len(h.left) # 0 /\ Len(<<>>) = 0
        BY <1>2
      <4>3. Len(Tail(h.left)) # 0
        BY <2>2, <4>1, <4>2
      <4>4. QED BY <4>1, <4>2, <4>3
    <3>2. QED BY <1>2, <1>4, <2>2, <3>1 DEF Work, WorkOk, Moving, Trading, Updating
  <2>3. QED BY <2>1, <2>2
<1>6. QED BY <1>3, <1>4, <1>5, TvlWritten, RowWriteTyped

LEMMA RestartTyped == ASSUME RowsTyped, Restart PROVE RowsTyped'
<1>1. UNCHANGED <<parses, row, position, swaps, log, emitted>> /\ restarts' = restarts + 1
  BY DEF Restart, Tables
<1>2. task' \in [Tasks -> Work \cup {Idle}] /\ \A u \in Tasks : WorkOk(task[u])'
  <2>1. task' = [u \in Tasks |-> Idle]
    BY DEF Restart
  <2>2. \A u \in Tasks : task'[u] = Idle
    BY <2>1
  <2>3. QED BY <2>1, <2>2, IdleTyped DEF WorkOk
<1>3. \A p \in Pools : row'[p].lpCount <= LpCount(p)'
  BY <1>1 DEF RowsTyped, LpCount
<1>4. QED BY <1>1, <1>2, <1>3 DEF RowsTyped

LEMMA TypedStep == RowsTyped /\ [RowsNext]_vars => RowsTyped'
<1> SUFFICES ASSUME RowsTyped, [RowsNext]_vars PROVE RowsTyped'
  OBVIOUS
<1>1. ASSUME NEW t \in Handlers, NEW e \in Events, Hand(t, e)
      PROVE  RowsTyped'
  BY <1>1, HandTyped
<1>2. ASSUME NEW t \in Handlers,
             \/ LookForPosition(t) \/ SavePosition(t) \/ CountPositions(t)
             \/ UpdatePool(t) \/ EmitReserves(t) \/ SaveSwap(t) \/ UpdatePoolVolume(t)
      PROVE  RowsTyped'
  BY <1>2, TasksApart, LookTyped, SavePositionTyped, CountTyped, UpdatePoolTyped, EmitTyped,
     SaveSwapTyped, VolumeStepTyped
<1>3. ASSUME NEW t \in CronJobs,
             StartSnapshot(t) \/ ReadAgain(t) \/ SaveSnapshot(t) \/ UpdateTvl(t)
      PROVE  RowsTyped'
  BY <1>3, TasksApart, StartTyped, ReadTyped, SaveSnapshotTyped, UpdateTvlTyped
<1>4. ASSUME NEW t \in Tasks, TaskFails(t)
      PROVE  RowsTyped'
  <2>1. UNCHANGED <<parses, row, position, swaps, log, restarts>> /\ emitted' = emitted
        /\ Goes(t, Idle)
    BY <1>4 DEF TaskFails, Tables
  <2>2. QED BY <2>1, IdleTyped, QuietTyped
<1>5. CASE UNCHANGED vars
  <2>1. UNCHANGED <<parses, row, position, swaps, log, restarts, emitted, task>>
    BY <1>5 DEF vars
  <2>2. \A u \in Tasks : WorkOk(task[u])'
    BY <2>1 DEF RowsTyped, WorkOk, LpCount, IsTrade
  <2>3. \A p \in Pools : row'[p].lpCount <= LpCount(p)'
    BY <2>1 DEF RowsTyped, LpCount
  <2>4. QED BY <2>1, <2>2, <2>3 DEF RowsTyped
<1>6. QED BY <1>1, <1>2, <1>3, <1>4, <1>5, RestartTyped DEF RowsNext

\* Rows hold natural numbers: no burn takes a reserve below zero, and no row
\* counts more positions than there are, however stale the count that a handler
\* writes.
THEOREM RowsAreTyped == RowsSpec => []RowsTypeOK
<1>1. RowsInit => RowsTyped
  BY TypedInit
<1>2. RowsTyped /\ [RowsNext]_vars => RowsTyped'
  BY TypedStep
<1>3. RowsTyped => RowsTypeOK
  BY DEF RowsTyped, RowsTypeOK
<1>4. QED BY <1>1, <1>2, <1>3, PTL DEF RowsSpec

-----------------------------------------------------------------------------
(* No event counts twice. *)

LEMMA MovesFinite ==
    ASSUME RowsTyped, NEW p
    PROVE  IsFiniteSet(MovesOf(p))
<1>1. MovesOf(p) \in SUBSET Range(log)
  BY DEF MovesOf
<1>2. QED BY <1>1, FS_Subset DEF RowsTyped

\* More events explain what fewer do.
LEMMA ExplainedKept ==
    ASSUME NEW h, Explained(h), \A p : MovesOf(p) \subseteq MovesOf(p)'
    PROVE  Explained(h)'
<1>1. h.at \in Moving =>
         ReservesOf(h.pool) \in Explicable(h.p, MovesOf(h.p)' \ {h.e})
  <2>1. MovesOf(h.p) \ {h.e} \subseteq MovesOf(h.p)' \ {h.e}
    OBVIOUS
  <2>2. Explicable(h.p, MovesOf(h.p) \ {h.e}) \subseteq Explicable(h.p, MovesOf(h.p)' \ {h.e})
    BY <2>1, OrdersGrow
  <2>3. QED BY <2>2 DEF Explained
<1>2. \A p : Explicable(p, MovesOf(p)) \subseteq Explicable(p, MovesOf(p)')
  BY OrdersGrow
<1>3. QED BY <1>1, <1>2 DEF Explained

LEMMA OnceGoes ==
    ASSUME RowsTyped, OnceInv, restarts = 0, NEW t \in Tasks, NEW to \in Work \cup {Idle},
           Goes(t, to), Explained(to)', \A p : MovesOf(p) \subseteq MovesOf(p)'
    PROVE  \A u \in Tasks : Explained(task[u])'
<1>1. /\ task'[t] = to
      /\ \A u \in Tasks : u # t => task'[u] = task[u]
  BY GoesTyped
<1>2. ASSUME NEW u \in Tasks
      PROVE  Explained(task[u])'
  <2>1. CASE u = t
    BY <1>1, <2>1 DEF Explained
  <2>2. CASE u # t
    <3>1. PICK h : h = task[u] /\ Explained(h)
      BY DEF OnceInv
    <3>2. Explained(h)'
      BY <3>1, ExplainedKept
    <3>3. h = task'[u]
      BY <1>1, <2>2, <3>1
    <3>4. QED BY <3>2, <3>3 DEF Explained
  <2>3. QED BY <2>1, <2>2
<1>3. QED BY <1>2

\* A step that hands no event.
LEMMA OnceWrites ==
    ASSUME RowsTyped, OnceInv, restarts = 0, NEW t \in Tasks, NEW to \in Work \cup {Idle},
           Goes(t, to), Explained(to)', UNCHANGED <<log, processedKeys>>,
           \A p \in Pools : ReservesOf(row'[p]) \in Explicable(p, MovesOf(p)),
           \A s \in snapshots' : ReservesOf(s) \in Explicable(s.poolId, MovesOf(s.poolId))
    PROVE  OnceInv'
<1>1. \A p : MovesOf(p)' = MovesOf(p)
  BY DEF MovesOf
<1>2. \A u \in Tasks : Explained(task[u])'
  BY <1>1, OnceGoes
<1>3. \A p \in Pools : Reserves(p)' \in Explicable(p, MovesOf(p)')
  BY <1>1 DEF Reserves
<1>4. \A e \in Range(log') : Key(e) \in processedKeys'
  BY DEF OnceInv
<1>5. QED BY <1>1, <1>2, <1>3, <1>4 DEF OnceInv

LEMMA IdleExplained == Explained(Idle) /\ Explained(Idle)'
BY DEF Idle, Explained, Moving, Trading, Updating

\* What the invariant says of the tables, to be cited by the steps.
LEMMA OnceTables ==
    ASSUME OnceInv, restarts = 0
    PROVE  /\ \A p \in Pools : ReservesOf(row[p]) \in Explicable(p, MovesOf(p))
           /\ \A s \in snapshots : ReservesOf(s) \in Explicable(s.poolId, MovesOf(s.poolId))
BY DEF OnceInv, Reserves

LEMMA HandOnce ==
    ASSUME RowsTyped, OnceInv, restarts = 0, NEW t \in Handlers, NEW e \in Events, Hand(t, e)
    PROVE  OnceInv'
<1>1. /\ log' = Append(log, e) /\ row' = row /\ snapshots' = snapshots
      /\ processedKeys' = processedKeys \cup {Key(e)} /\ Key(e) \notin processedKeys
  BY DEF Hand, Tables
<1>2. Range(log') = Range(log) \cup {e}
  BY <1>1, RangeOneMore DEF RowsTyped
<1>3. \A f \in Range(log) : Key(f) \in processedKeys
  BY DEF OnceInv
<1>4. e \notin Range(log)
  BY <1>1, <1>3
<1>5. \A p : MovesOf(p) \subseteq MovesOf(p)' \ {e}
  BY <1>2, <1>4 DEF MovesOf
<1>6. \A p : /\ Explicable(p, MovesOf(p)) \subseteq Explicable(p, MovesOf(p)')
             /\ Explicable(p, MovesOf(p)) \subseteq Explicable(p, MovesOf(p)' \ {e})
  <2>1. TAKE p
  <2>2. MovesOf(p) \subseteq MovesOf(p)' /\ MovesOf(p) \subseteq MovesOf(p)' \ {e}
    BY <1>5
  <2>3. QED BY <2>2, OrdersGrow
<1>7. PICK to : /\ Goes(t, to)
                /\ to = IF ~Handled(e) THEN Idle
                        ELSE [at |-> IF e.type = "Swap" THEN "swap" ELSE "pool",
                              e |-> e, p |-> PoolOf(e), pool |-> row[PoolOf(e)]]
  BY DEF Hand
<1>8. to \in Work \cup {Idle} /\ Explained(to)'
  <2>1. CASE ~Handled(e)
    BY <1>7, <2>1, IdleTyped, IdleExplained
  <2>2. CASE Handled(e)
    <3>1. PICK p \in Pools, r \in Rows : p = PoolOf(e) /\ r = row[p]
      BY <2>2, AmountsPositive DEF Handled, RowsTyped
    <3>2. ReservesOf(r) \in Explicable(p, MovesOf(p))
      BY <3>1, OnceTables
    <3>3. to = [at |-> IF e.type = "Swap" THEN "swap" ELSE "pool",
                e |-> e, p |-> p, pool |-> r]
      BY <1>7, <2>2, <3>1
    <3>4. to \in Work
      BY <3>3 DEF Work, Trading
    <3>5. Explained(to)'
      BY <1>6, <3>2, <3>3 DEF Explained, Moving, Trading, Updating
    <3>6. QED BY <3>4, <3>5
  <2>3. QED BY <2>1, <2>2
<1>9. \A u \in Tasks : Explained(task[u])'
  <2>1. t \in Tasks /\ \A p : MovesOf(p) \subseteq MovesOf(p)'
    BY <1>5, TasksApart
  <2>2. QED BY <1>7, <1>8, <2>1, OnceGoes
<1>10. \A f \in Range(log') : Key(f) \in processedKeys'
  BY <1>1, <1>2, <1>3
<1>11. /\ \A p \in Pools : Reserves(p)' \in Explicable(p, MovesOf(p)')
       /\ \A s \in snapshots' : ReservesOf(s) \in Explicable(s.poolId, MovesOf(s.poolId)')
  BY <1>1, <1>6, OnceTables DEF Reserves
<1>12. QED BY <1>9, <1>10, <1>11 DEF OnceInv

LEMMA LookOnce ==
    ASSUME RowsTyped, OnceInv, restarts = 0, NEW t \in Tasks, LookForPosition(t)
    PROVE  OnceInv'
<1>1. PICK h \in Work \cup {Idle} : h = task[t] /\ WorkOk(h) /\ Explained(h)
  BY DEF RowsTyped, OnceInv
<1>2. /\ h.at = "pool" /\ h.e \in Events /\ h.p \in Pools /\ h.pool \in Rows
      /\ ReservesOf(h.pool) \in Explicable(h.p, MovesOf(h.p) \ {h.e})
      /\ IsMove(h.e) /\ h.p = PoolOf(h.e)
  BY <1>1, Holds DEF LookForPosition, WorkOk, Moving, Explained
<1>3. PICK existing \in Positions \cup {None} : existing = position[h.e.data.caller, h.p]
  BY <1>2, MoverIsWallet DEF RowsTyped
<1>4. PICK at : /\ at = IF existing # None /\ ~parses THEN "idle"
                        ELSE IF existing # None \/ h.e.type = "Mint" THEN "position"
                        ELSE IF parses THEN "counting" ELSE "idle"
                /\ Goes(t, IF at = "idle" THEN Idle
                           ELSE [at |-> at, e |-> h.e, p |-> h.p, pool |-> h.pool,
                                 existing |-> existing])
  BY <1>1, <1>3 DEF LookForPosition
<1>5. UNCHANGED <<row, snapshots, log, processedKeys>>
  BY DEF LookForPosition, Tables, History
<1>6. PICK to : /\ Goes(t, to)
                /\ to = IF at = "idle" THEN Idle
                        ELSE [at |-> at, e |-> h.e, p |-> h.p, pool |-> h.pool,
                              existing |-> existing]
  BY <1>4
<1>7. to \in Work \cup {Idle} /\ Explained(to)'
  <2>1. CASE at = "idle"
    BY <1>6, <2>1, IdleExplained
  <2>2. CASE at \in {"position", "counting"}
    <3>1. to = [at |-> at, e |-> h.e, p |-> h.p, pool |-> h.pool, existing |-> existing]
      BY <1>6, <2>2
    <3>2. to \in Work
      BY <1>2, <2>2, <3>1 DEF Work
    <3>3. Explained(to)
      BY <1>2, <2>2, <3>1 DEF Explained, Moving, Trading, Updating
    <3>4. \A p : MovesOf(p) \subseteq MovesOf(p)'
      BY <1>5 DEF MovesOf
    <3>5. QED BY <3>2, <3>3, <3>4, ExplainedKept
  <2>3. at \in {"idle", "position", "counting"}
    BY <1>4
  <2>4. QED BY <2>1, <2>2, <2>3
<1>8. /\ \A p \in Pools : ReservesOf(row'[p]) \in Explicable(p, MovesOf(p))
      /\ \A s \in snapshots' : ReservesOf(s) \in Explicable(s.poolId, MovesOf(s.poolId))
  BY <1>5, OnceTables
<1>9. QED BY <1>5, <1>6, <1>7, <1>8, OnceWrites

LEMMA SavePositionOnce ==
    ASSUME RowsTyped, OnceInv, restarts = 0, NEW t \in Tasks, SavePosition(t)
    PROVE  OnceInv'
<1>1. PICK h \in Work \cup {Idle} : h = task[t] /\ Explained(h)
  BY DEF RowsTyped, OnceInv
<1>2. /\ h.at = "position" /\ h.e \in Events /\ h.p \in Pools /\ h.pool \in Rows
      /\ ReservesOf(h.pool) \in Explicable(h.p, MovesOf(h.p) \ {h.e})
  BY <1>1, Holds DEF SavePosition, Moving, Explained
<1>3. UNCHANGED <<row, snapshots, log, processedKeys>>
  BY DEF SavePosition, History
<1>4. PICK to : Goes(t, to) /\ (to = Idle \/ to = [h EXCEPT !.at = "counting"])
  BY <1>1 DEF SavePosition
<1>5. to \in Work \cup {Idle} /\ Explained(to)'
  <2>1. CASE to = Idle
    BY <2>1, IdleExplained
  <2>2. CASE to = [h EXCEPT !.at = "counting"]
    <3>1. /\ to \in [at : {"position", "counting"}, e : Events, p : Pools, pool : Rows,
                     existing : Positions \cup {None}]
          /\ to.at = "counting" /\ to.e = h.e /\ to.p = h.p /\ to.pool = h.pool
      BY <1>2, <2>2, Shapes
    <3>2. Explained(to)
      BY <1>2, <3>1 DEF Explained, Moving, Trading, Updating
    <3>3. \A p : MovesOf(p) \subseteq MovesOf(p)'
      BY <1>3 DEF MovesOf
    <3>4. QED BY <3>1, <3>2, <3>3, ExplainedKept DEF Work
  <2>3. QED BY <1>4, <2>1, <2>2
<1>6. /\ \A p \in Pools : ReservesOf(row'[p]) \in Explicable(p, MovesOf(p))
      /\ \A s \in snapshots' : ReservesOf(s) \in Explicable(s.poolId, MovesOf(s.poolId))
  BY <1>3, OnceTables
<1>7. QED BY <1>3, <1>4, <1>5, <1>6, OnceWrites

\* Here the event itself is counted, on reserves that do not count it.
LEMMA CountOnce ==
    ASSUME RowsTyped, OnceInv, restarts = 0, NEW t \in Tasks, CountPositions(t)
    PROVE  OnceInv'
<1>1. PICK h \in Work \cup {Idle} : h = task[t] /\ WorkOk(h) /\ Explained(h)
  BY DEF RowsTyped, OnceInv
<1>2. /\ h.at = "counting" /\ h.e \in Events /\ h.p \in Pools /\ h.pool \in Rows
      /\ ReservesOf(h.pool) \in Explicable(h.p, MovesOf(h.p) \ {h.e})
      /\ IsMove(h.e) /\ h.p = PoolOf(h.e) /\ h.e \in Range(log)
  BY <1>1, Holds DEF CountPositions, WorkOk, Moving, Explained
<1>3. UNCHANGED <<row, position, snapshots, log, processedKeys>>
  BY DEF CountPositions, Tables, History
<1>4. PICK n \in Nat : n = LpCount(h.p)
  BY <1>2, <1>3, CountGrows
<1>5. PICK r \in Nat \X Nat : r = NewReserves(h.pool, h.e)
                              /\ r = After(h.p, ReservesOf(h.pool), h.e)
  BY <1>2, NewReservesTyped
<1>6. PICK to : /\ to = [at |-> "updating", p |-> h.p, lpCount |-> n, reserves |-> r]
                /\ Goes(t, to)
  BY <1>1, <1>4, <1>5 DEF CountPositions
<1>7. to \in Work
  BY <1>2, <1>6 DEF Work, Updating
<1>8. r \in Explicable(h.p, MovesOf(h.p))
  <2> DEFINE S == MovesOf(h.p) \ {h.e}
  <2>1. IsFiniteSet(S) /\ h.e \notin S
    <3>1. S \in SUBSET MovesOf(h.p)
      OBVIOUS
    <3>2. QED BY <3>1, MovesFinite, FS_Subset
  <2>2. S \cup {h.e} = MovesOf(h.p)
    BY <1>2 DEF MovesOf
  <2>3. ReservesOf(h.pool) \in Explicable(h.p, S)
    BY <1>2
  <2> HIDE DEF S
  <2>4. After(h.p, ReservesOf(h.pool), h.e) \in Explicable(h.p, S \cup {h.e})
    BY <2>1, <2>3, OneMoreExplains
  <2>5. QED BY <1>5, <2>2, <2>4
<1>9. Explained(to)'
  <2>1. Explained(to)
    BY <1>6, <1>8 DEF Explained, Moving, Trading, Updating
  <2>2. \A p : MovesOf(p) \subseteq MovesOf(p)'
    BY <1>3 DEF MovesOf
  <2>3. QED BY <2>1, <2>2, ExplainedKept
<1>10. /\ \A p \in Pools : ReservesOf(row'[p]) \in Explicable(p, MovesOf(p))
       /\ \A s \in snapshots' : ReservesOf(s) \in Explicable(s.poolId, MovesOf(s.poolId))
  BY <1>3, OnceTables
<1>11. QED BY <1>3, <1>6, <1>7, <1>9, <1>10, OnceWrites

LEMMA UpdatePoolOnce ==
    ASSUME RowsTyped, OnceInv, restarts = 0, NEW t \in Tasks, UpdatePool(t)
    PROVE  OnceInv'
<1>1. PICK h \in Work \cup {Idle} : h = task[t] /\ Explained(h)
  BY DEF RowsTyped, OnceInv
<1>2. h.at = "updating" /\ h.reserves \in Explicable(h.p, MovesOf(h.p))
  BY <1>1 DEF UpdatePool, Updating, Explained
<1>3. UNCHANGED <<snapshots, log, processedKeys>>
  BY DEF UpdatePool, History
<1>4. PICK to : Goes(t, to) /\ to = [h EXCEPT !.at = "emitting"]
  BY <1>1 DEF UpdatePool
<1>5. /\ to \in [at : Updating, p : Pools, lpCount : Nat, reserves : Nat \X Nat]
      /\ to.at = "emitting" /\ to.p = h.p /\ to.reserves = h.reserves
  BY <1>2, <1>4, Shapes DEF Updating
<1>6. to \in Work /\ Explained(to)'
  <2>1. Explained(to)
    BY <1>2, <1>5 DEF Explained, Moving, Trading, Updating
  <2>2. \A p : MovesOf(p) \subseteq MovesOf(p)'
    BY <1>3 DEF MovesOf
  <2>3. QED BY <1>5, <2>1, <2>2, ExplainedKept DEF Work
<1>7. /\ \A p \in Pools : ReservesOf(row'[p]) \in Explicable(p, MovesOf(p))
      /\ \A s \in snapshots' : ReservesOf(s) \in Explicable(s.poolId, MovesOf(s.poolId))
  <2>1. ASSUME NEW p \in Pools
        PROVE  ReservesOf(row'[p]) \in Explicable(p, MovesOf(p))
    <3>1. CASE p = h.p
      BY <1>1, <1>2, <3>1, PoolWritten
    <3>2. CASE p # h.p
      <4>1. row'[p] = row[p]
        BY <1>1, <3>2, PoolWritten
      <4>2. QED BY <4>1, OnceTables
    <3>3. QED BY <3>1, <3>2
  <2>2. QED BY <1>3, <2>1, OnceTables
<1>8. QED BY <1>3, <1>4, <1>6, <1>7, OnceWrites

LEMMA EmitOnce ==
    ASSUME RowsTyped, OnceInv, restarts = 0, NEW t \in Tasks, EmitReserves(t)
    PROVE  OnceInv'
<1>1. UNCHANGED <<row, snapshots, log, processedKeys>> /\ Goes(t, Idle)
  BY DEF EmitReserves, History
<1>2. /\ \A p \in Pools : ReservesOf(row'[p]) \in Explicable(p, MovesOf(p))
      /\ \A s \in snapshots' : ReservesOf(s) \in Explicable(s.poolId, MovesOf(s.poolId))
  BY <1>1, OnceTables
<1>3. QED BY <1>1, <1>2, IdleTyped, IdleExplained, OnceWrites

LEMMA SaveSwapOnce ==
    ASSUME RowsTyped, OnceInv, restarts = 0, NEW t \in Tasks, SaveSwap(t)
    PROVE  OnceInv'
<1>1. PICK h \in Work \cup {Idle} : h = task[t] /\ Explained(h)
  BY DEF RowsTyped, OnceInv
<1>2. h.at = "swap" /\ ReservesOf(h.pool) \in Explicable(h.p, MovesOf(h.p))
  BY <1>1 DEF SaveSwap, Trading, Explained
<1>3. UNCHANGED <<row, snapshots, log, processedKeys>>
  BY DEF SaveSwap, History
<1>4. PICK to : Goes(t, to) /\ to = [h EXCEPT !.at = "volume"]
  BY <1>1 DEF SaveSwap
<1>5. /\ to \in [at : {"pool"} \cup Trading, e : Events, p : Pools, pool : Rows]
      /\ to.at = "volume" /\ to.p = h.p /\ to.pool = h.pool
  BY <1>2, <1>4, Shapes DEF Trading
<1>6. to \in Work /\ Explained(to)'
  <2>1. Explained(to)
    BY <1>2, <1>5 DEF Explained, Moving, Trading, Updating
  <2>2. \A p : MovesOf(p) \subseteq MovesOf(p)'
    BY <1>3 DEF MovesOf
  <2>3. QED BY <1>5, <2>1, <2>2, ExplainedKept DEF Work
<1>7. /\ \A p \in Pools : ReservesOf(row'[p]) \in Explicable(p, MovesOf(p))
      /\ \A s \in snapshots' : ReservesOf(s) \in Explicable(s.poolId, MovesOf(s.poolId))
  BY <1>3, OnceTables
<1>8. QED BY <1>3, <1>4, <1>6, <1>7, OnceWrites

LEMMA VolumeOnce ==
    ASSUME RowsTyped, OnceInv, restarts = 0, NEW t \in Tasks, UpdatePoolVolume(t)
    PROVE  OnceInv'
<1>1. PICK h \in Work \cup {Idle} : h = task[t] /\ Explained(h)
  BY DEF RowsTyped, OnceInv
<1>2. ReservesOf(h.pool) \in Explicable(h.p, MovesOf(h.p))
  BY <1>1 DEF UpdatePoolVolume, Trading, Explained
<1>3. UNCHANGED <<snapshots, log, processedKeys>> /\ Goes(t, Idle)
  BY DEF UpdatePoolVolume, History
<1>4. /\ \A p \in Pools : ReservesOf(row'[p]) \in Explicable(p, MovesOf(p))
      /\ \A s \in snapshots' : ReservesOf(s) \in Explicable(s.poolId, MovesOf(s.poolId))
  <2>1. ASSUME NEW p \in Pools
        PROVE  ReservesOf(row'[p]) \in Explicable(p, MovesOf(p))
    <3>1. CASE p = h.p
      BY <1>1, <1>2, <3>1, VolumeWritten
    <3>2. CASE p # h.p
      <4>1. row'[p] = row[p]
        BY <1>1, <3>2, VolumeWritten
      <4>2. QED BY <4>1, OnceTables
    <3>3. QED BY <3>1, <3>2
  <2>2. QED BY <1>3, <2>1, OnceTables
<1>5. QED BY <1>3, <1>4, IdleTyped, IdleExplained, OnceWrites

LEMMA StartOnce ==
    ASSUME RowsTyped, OnceInv, restarts = 0, NEW t \in Tasks, StartSnapshot(t)
    PROVE  OnceInv'
<1>1. UNCHANGED <<row, snapshots, log, processedKeys>>
  BY DEF StartSnapshot, Tables
<1>2. PICK to : /\ Goes(t, to)
                /\ to = [at |-> "reading", left |-> SetToSeq(ActivePools),
                         tvl |-> [p \in Pools |-> PoolTvl(row[p])]]
                /\ ActivePools # {}
  BY DEF StartSnapshot
<1>3. [p \in Pools |-> PoolTvl(row[p])] \in [Pools -> Nat]
  BY TvlTyped DEF RowsTyped
<1>4. to \in Work /\ Explained(to)'
  BY <1>2, <1>3, PoolsInOrder DEF Work, Explained, Moving, Trading, Updating
<1>5. /\ \A p \in Pools : ReservesOf(row'[p]) \in Explicable(p, MovesOf(p))
      /\ \A s \in snapshots' : ReservesOf(s) \in Explicable(s.poolId, MovesOf(s.poolId))
  BY <1>1, OnceTables
<1>6. QED BY <1>1, <1>2, <1>4, <1>5, OnceWrites

LEMMA ReadOnce ==
    ASSUME RowsTyped, OnceInv, restarts = 0, NEW t \in Tasks, ReadAgain(t)
    PROVE  OnceInv'
<1>1. PICK h \in Work \cup {Idle} : h = task[t]
  BY DEF RowsTyped
<1>2. /\ h.at = "reading" /\ h.left \in Seq(Pools) /\ h.left # <<>>
      /\ h.tvl \in [Pools -> Nat]
  BY <1>1, Holds DEF ReadAgain, Valuing
<1>3. UNCHANGED <<row, snapshots, log, processedKeys>>
  BY DEF ReadAgain, Tables, History
<1>4. PICK p \in Pools, r \in Rows : p = Head(h.left) /\ r = row[p]
  BY <1>1, <1>2, Holds DEF RowsTyped, Valuing
<1>5. PICK to : /\ Goes(t, to)
                /\ to = [at |-> "snapshot", left |-> h.left, tvl |-> h.tvl, pool |-> r]
  BY <1>1, <1>4 DEF ReadAgain
<1>6. to \in Work
  BY <1>2, <1>5 DEF Work
<1>7. Explained(to)'
  <2>1. ReservesOf(r) \in Explicable(p, MovesOf(p))
    BY <1>4, OnceTables
  <2>2. Explained(to)
    BY <1>4, <1>5, <2>1 DEF Explained, Moving, Trading, Updating
  <2>3. \A q : MovesOf(q) \subseteq MovesOf(q)'
    BY <1>3 DEF MovesOf
  <2>4. QED BY <2>2, <2>3, ExplainedKept
<1>8. /\ \A q \in Pools : ReservesOf(row'[q]) \in Explicable(q, MovesOf(q))
      /\ \A s \in snapshots' : ReservesOf(s) \in Explicable(s.poolId, MovesOf(s.poolId))
  BY <1>3, OnceTables
<1>9. QED BY <1>3, <1>5, <1>6, <1>7, <1>8, OnceWrites

LEMMA SaveSnapshotOnce ==
    ASSUME RowsTyped, OnceInv, restarts = 0, NEW t \in Tasks, SaveSnapshot(t)
    PROVE  OnceInv'
<1>1. PICK h \in Work \cup {Idle} : h = task[t] /\ Explained(h)
  BY DEF RowsTyped, OnceInv
<1>2. /\ h.at = "snapshot" /\ h.left \in Seq(Pools) /\ h.left # <<>>
      /\ h.tvl \in [Pools -> Nat]
      /\ ReservesOf(h.pool) \in Explicable(Head(h.left), MovesOf(Head(h.left)))
  BY <1>1, Holds DEF SaveSnapshot, Valuing, Explained
<1>3. UNCHANGED <<row, log, processedKeys>>
  BY DEF SaveSnapshot, History
<1>4. PICK to : /\ Goes(t, to)
                /\ to = [at |-> "tvl", left |-> h.left, tvl |-> h.tvl]
  BY <1>1 DEF SaveSnapshot
<1>5. to \in Work /\ Explained(to)'
  BY <1>2, <1>4 DEF Work, Explained, Moving, Trading, Updating
<1>6. \A s \in snapshots' : ReservesOf(s) \in Explicable(s.poolId, MovesOf(s.poolId))
  <2>1. PICK n : /\ snapshots' = snapshots \cup {n}
                 /\ n = [poolId |-> Head(h.left), tvlUsd |-> h.tvl[Head(h.left)],
                         number |-> Cardinality(snapshots),
                         reserve0 |-> h.pool.reserve0, reserve1 |-> h.pool.reserve1]
    BY <1>1, Zenon DEF SaveSnapshot
  <2>2. n.poolId = Head(h.left) /\ ReservesOf(n) = ReservesOf(h.pool)
    BY <2>1 DEF ReservesOf
  <2>3. QED BY <1>2, <2>1, <2>2, OnceTables
<1>7. \A p \in Pools : ReservesOf(row'[p]) \in Explicable(p, MovesOf(p))
  BY <1>3, OnceTables
<1>8. QED BY <1>3, <1>4, <1>5, <1>6, <1>7, OnceWrites

LEMMA UpdateTvlOnce ==
    ASSUME RowsTyped, OnceInv, restarts = 0, NEW t \in Tasks, UpdateTvl(t)
    PROVE  OnceInv'
<1>1. UNCHANGED <<snapshots, log, processedKeys>>
  BY DEF UpdateTvl, History
<1>2. PICK to : /\ Goes(t, to) /\ to \in Work \cup {Idle}
                /\ to = Idle \/ to.at = "reading"
  <2>1. PICK to : /\ Goes(t, to)
                  /\ \/ to = Idle
                     \/ to = [at |-> "reading", left |-> Tail(task[t].left), tvl |-> task[t].tvl]
    BY DEF UpdateTvl
  <2>2. to = task'[t] /\ task'[t] \in Work \cup {Idle}
    BY <2>1, UpdateTvlTyped DEF RowsTyped, Goes
  <2>3. QED BY <2>1, <2>2
<1>3. Explained(to)'
  BY <1>2, IdleExplained DEF Explained, Moving, Trading, Updating
<1>4. /\ \A p \in Pools : ReservesOf(row'[p]) \in Explicable(p, MovesOf(p))
      /\ \A s \in snapshots' : ReservesOf(s) \in Explicable(s.poolId, MovesOf(s.poolId))
  <2>1. \A p \in Pools : ReservesOf(row'[p]) = ReservesOf(row[p])
    BY TvlWritten
  <2>2. QED BY <1>1, <2>1, OnceTables
<1>5. QED BY <1>1, <1>2, <1>3, <1>4, OnceWrites

LEMMA OnceStep == RowsTyped /\ OnceInv /\ [RowsNext]_vars => OnceInv'
<1> SUFFICES ASSUME RowsTyped, OnceInv, [RowsNext]_vars, restarts' = 0 PROVE OnceInv'
  BY DEF OnceInv
<1>1. restarts = 0 \/ Restart
  <2>1. ASSUME RowsNext, ~Restart PROVE restarts' = restarts
    BY <2>1 DEF RowsNext, Hand, LookForPosition, SavePosition, CountPositions, UpdatePool,
                EmitReserves, SaveSwap, UpdatePoolVolume, StartSnapshot, ReadAgain,
                SaveSnapshot, UpdateTvl, TaskFails, History
  <2>2. QED BY <2>1, SMTT(30) DEF vars
<1>2. ~Restart
  BY DEF Restart, RowsTyped
<1>3. restarts = 0
  BY <1>1, <1>2
<1>4. ASSUME NEW t \in Handlers, NEW e \in Events, Hand(t, e)
      PROVE  OnceInv'
  BY <1>3, <1>4, HandOnce
<1>5. ASSUME NEW t \in Handlers,
             \/ LookForPosition(t) \/ SavePosition(t) \/ CountPositions(t)
             \/ UpdatePool(t) \/ EmitReserves(t) \/ SaveSwap(t) \/ UpdatePoolVolume(t)
      PROVE  OnceInv'
  BY <1>3, <1>5, TasksApart, LookOnce, SavePositionOnce, CountOnce, UpdatePoolOnce, EmitOnce,
     SaveSwapOnce, VolumeOnce
<1>6. ASSUME NEW t \in CronJobs,
             StartSnapshot(t) \/ ReadAgain(t) \/ SaveSnapshot(t) \/ UpdateTvl(t)
      PROVE  OnceInv'
  BY <1>3, <1>6, TasksApart, StartOnce, ReadOnce, SaveSnapshotOnce, UpdateTvlOnce
<1>7. ASSUME NEW t \in Tasks, TaskFails(t)
      PROVE  OnceInv'
  <2>1. UNCHANGED <<row, snapshots, log, processedKeys>> /\ Goes(t, Idle)
    BY <1>7 DEF TaskFails, Tables
  <2>2. /\ \A p \in Pools : ReservesOf(row'[p]) \in Explicable(p, MovesOf(p))
        /\ \A s \in snapshots' : ReservesOf(s) \in Explicable(s.poolId, MovesOf(s.poolId))
    BY <1>3, <2>1, OnceTables
  <2>3. QED BY <1>3, <2>1, <2>2, IdleTyped, IdleExplained, OnceWrites
<1>8. CASE UNCHANGED vars
  <2>1. UNCHANGED <<row, snapshots, log, processedKeys, task, restarts>>
    BY <1>8 DEF vars
  <2>2. QED BY <2>1 DEF OnceInv, Explained, Reserves, MovesOf
<1>9. QED BY <1>2, <1>4, <1>5, <1>6, <1>7, <1>8 DEF RowsNext

\* Whatever two or more handlers and the job overwrite or leave undone, in one
\* life of the process the reserves of a row or a snapshot are what some of the
\* mints and burns of its pool leave, each counted once.
THEOREM RowsCountOnce == RowsSpec => []NoEventCountsTwice
<1>1. RowsInit => RowsTyped /\ OnceInv
  <2> SUFFICES ASSUME RowsInit PROVE OnceInv
    BY TypedInit
  <2>1. \A e \in Range(log) : Key(e) \in processedKeys
    BY DEF RowsInit, Range
  <2>2. \A p \in Pools : Reserves(p) \in Explicable(p, MovesOf(p))
    BY NoEventExplains DEF RowsInit, Reserves
  <2>3. \A t \in Tasks : Explained(task[t])
    BY IdleExplained DEF RowsInit
  <2>4. snapshots = {}
    BY DEF RowsInit
  <2>5. QED BY <2>1, <2>2, <2>3, <2>4 DEF OnceInv
<1>2. RowsTyped /\ OnceInv /\ [RowsNext]_vars => RowsTyped' /\ OnceInv'
  BY TypedStep, OnceStep
<1>3. OnceInv => NoEventCountsTwice
  BY DEF OnceInv, NoEventCountsTwice
<1>4. QED BY <1>1, <1>2, <1>3, PTL DEF RowsSpec

-----------------------------------------------------------------------------
(* Nothing is lost while nothing interferes. *)

\* A step of one task, which then is the only one at work.
LEMMA CalmGoes ==
    ASSUME RowsTyped, NEW t \in Tasks, NEW to \in Work \cup {Idle}, Goes(t, to),
           Others(t), Exact(to)'
    PROVE  CalmInv'
<1>1. /\ task'[t] = to
      /\ \A u \in Tasks : u # t => task'[u] = Idle
  BY GoesTyped DEF Others
<1>2. \A u, v \in Tasks : task'[u] # Idle /\ task'[v] # Idle => u = v
  BY <1>1
<1>3. ASSUME NEW u \in Tasks, task'[u] # Idle
      PROVE  Exact(task[u])'
  <2>1. task'[u] = to
    BY <1>1, <1>3
  <2>2. QED BY <2>1 DEF Exact, CalmWork, RowExact, ToldExact, HoldersExact
<1>4. ASSUME \A u \in Tasks : task'[u] = Idle
      PROVE  Exact(Idle)'
  <2>1. Idle = to
    BY <1>1, <1>4
  <2>2. QED BY <2>1
<1>5. QED BY <1>2, <1>3, <1>4 DEF CalmInv

\* What the invariant says to the task at work, and to one that starts.
LEMMA CalmWorker ==
    ASSUME CalmInv, calm, parses, NEW t \in Tasks, task[t] # Idle
    PROVE  Others(t) /\ Exact(task[t])
BY DEF CalmInv, Others

LEMMA CalmStarts ==
    ASSUME CalmInv, calm, parses, NEW t \in Tasks, task[t] = Idle, Others(t)
    PROVE  Exact(Idle)
BY DEF CalmInv, Others

LEMMA SameReserves ==
    ASSUME NEW r, NEW s, ReservesOf(r) = ReservesOf(s)
    PROVE  PoolTvl(r) = PoolTvl(s)
<1>1. r.reserve0 = s.reserve0 /\ r.reserve1 = s.reserve1
  BY DEF ReservesOf
<1>2. QED BY <1>1 DEF PoolTvl

\* Where the log stays, so does what it asks for.
LEMMA SameLog ==
    ASSUME log' = log, parses' = parses
    PROVE  /\ \A p : Providers(p)' = Providers(p)
           /\ TradeHashes' = TradeHashes
BY DEF Providers, MovesOf, TradeHashes, IsTrade

\* What one more event asks for.
LEMMA LongerLog ==
    ASSUME RowsTyped, NEW e \in Events, log' = Append(log, e), parses' = parses
    PROVE  /\ \A p : ReservesAfter(p, log') = After(p, ReservesAfter(p, log), e)
           /\ \A p : ~IsMove(e) \/ PoolOf(e) # p =>
                 /\ ReservesAfter(p, log') = ReservesAfter(p, log)
                 /\ Providers(p)' = Providers(p)
           /\ IsMove(e) =>
                 Providers(PoolOf(e))' = Providers(PoolOf(e)) \cup Caller(e)
           /\ IsTrade(e) => TradeHashes' = TradeHashes \cup {e.txHash}
           /\ ~IsTrade(e) => TradeHashes' = TradeHashes
<1>1. log \in Seq(Events)
  BY DEF RowsTyped
<1>2. Range(log') = Range(log) \cup {e}
  BY <1>1, RangeOneMore
<1>3. \A p : ReservesAfter(p, log') = After(p, ReservesAfter(p, log), e)
  <2>1. TAKE p
  <2>2. ReservesAfter(p, Append(log, e)) = After(p, ReservesAfter(p, log), e)
    BY <1>1, AfterOneMore
  <2>3. QED BY <2>2, Zenon
<1>4. \A p, r : ~IsMove(e) \/ PoolOf(e) # p => After(p, r, e) = r
  BY DEF After
<1>5. \A p : MovesOf(p)' = IF IsMove(e) /\ PoolOf(e) = p THEN MovesOf(p) \cup {e}
                           ELSE MovesOf(p)
  BY <1>2 DEF MovesOf
<1>6. \A p : ~IsMove(e) \/ PoolOf(e) # p => Providers(p)' = Providers(p)
  BY <1>5 DEF Providers
<1>7. IsMove(e) => Providers(PoolOf(e))' = Providers(PoolOf(e)) \cup Caller(e)
  BY <1>5 DEF Providers, Caller
<1>8. /\ IsTrade(e) => TradeHashes' = TradeHashes \cup {e.txHash}
      /\ ~IsTrade(e) => TradeHashes' = TradeHashes
  <2>1. \A f : IsTrade(f)' <=> IsTrade(f)
    BY DEF IsTrade
  <2>2. TradeHashes' = {f.txHash : f \in {g \in Range(log') : IsTrade(g)}}
    BY <2>1 DEF TradeHashes
  <2>3. QED BY <1>2, <2>2 DEF TradeHashes
<1>9. QED BY <1>3, <1>4, <1>6, <1>7, <1>8

\* Stages, one by one.
LEMMA Stages ==
    /\ \A s \in Moving : s \notin Trading /\ s \notin Updating /\ s \notin Valuing
                         /\ s \notin {"idle", "updating", "emitting", "swap", "snapshot"}
    /\ \A s \in Trading : s \notin Updating /\ s \notin Valuing
                          /\ s \notin {"idle", "pool", "position", "updating", "emitting", "snapshot"}
    /\ \A s \in Updating : s \notin Valuing /\ s \notin {"idle", "pool", "position", "swap", "snapshot"}
    /\ \A s \in Valuing :
          s \notin {"idle", "pool", "position", "updating", "emitting", "swap"}
BY DEF Moving, Trading, Updating, Valuing

LEMMA ExactIdle ==
    ASSUME Exact(Idle)
    PROVE  /\ \A p \in Pools :
                 /\ Reserves(p) = ReservesAfter(p, log)
                 /\ \/ emitted[p] = None
                    \/ emitted[p] = Reserves(p) /\ row[p].lpCount = Cardinality(Providers(p))
                 /\ Holders(p) = Providers(p)
           /\ Rowed = TradeHashes
           /\ \A s \in snapshots : s.tvlUsd = PoolTvl(s)
<1>1. Idle.at = "idle"
  BY DEF Idle
<1>2. \A p \in Pools : RowExact(Idle, p) /\ ToldExact(Idle, p) /\ HoldersExact(Idle, p)
  BY DEF Exact
<1>3. QED BY <1>1, <1>2 DEF Exact, RowExact, ToldExact, HoldersExact, Moving, Updating

LEMMA HandCalm ==
    ASSUME RowsTyped, NEW t \in Tasks, NEW e \in Events, Hand(t, e), Others(t),
           Exact(Idle), parses
    PROVE  CalmInv'
<1>1. /\ log' = Append(log, e)
      /\ UNCHANGED <<parses, row, position, swaps, snapshots, emitted>>
  BY DEF Hand, Tables
<1>2. PICK to : /\ Goes(t, to)
                /\ to = IF ~Handled(e) THEN Idle
                        ELSE [at |-> IF e.type = "Swap" THEN "swap" ELSE "pool",
                              e |-> e, p |-> PoolOf(e), pool |-> row[PoolOf(e)]]
  BY DEF Hand
<1>3. /\ \A p \in Pools :
            /\ Reserves(p)' = ReservesAfter(p, log) /\ Reserves(p)' = Reserves(p)
            /\ \/ emitted'[p] = None
               \/ emitted'[p] = Reserves(p)' /\ row'[p].lpCount = Cardinality(Providers(p))
            /\ Holders(p)' = Providers(p)
      /\ Rowed' = TradeHashes
      /\ \A s \in snapshots' : s.tvlUsd = PoolTvl(s)'
  BY <1>1, ExactIdle DEF Reserves, Holders, Rowed, PoolTvl
<1>4. /\ \A p : ReservesAfter(p, log') = After(p, ReservesAfter(p, log), e)
      /\ \A p : ~IsMove(e) \/ PoolOf(e) # p =>
            /\ ReservesAfter(p, log') = ReservesAfter(p, log)
            /\ Providers(p)' = Providers(p)
      /\ IsMove(e) =>
            Providers(PoolOf(e))' = Providers(PoolOf(e)) \cup Caller(e)
      /\ IsTrade(e) => TradeHashes' = TradeHashes \cup {e.txHash}
      /\ ~IsTrade(e) => TradeHashes' = TradeHashes
  BY <1>1, LongerLog
<1>5. to \in Work \cup {Idle} /\ Exact(to)'
  <2>1. CASE ~Handled(e)
    <3>1. to = Idle /\ to.at = "idle" /\ ~IsMove(e) /\ ~IsTrade(e)
      BY <1>2, <2>1 DEF Handled, Idle
    <3>2. \A p \in Pools : RowExact(to, p)' /\ ToldExact(to, p)' /\ HoldersExact(to, p)'
      BY <1>3, <1>4, <3>1 DEF RowExact, ToldExact, HoldersExact
    <3>3. CalmWork(to)'
      BY <3>1 DEF CalmWork, Moving, Trading, Updating, Valuing
    <3>4. QED BY <1>3, <1>4, <3>1, <3>2, <3>3 DEF Exact
  <2>2. CASE IsMove(e)
    <3>1. PICK q \in Pools, r \in Rows : q = PoolOf(e) /\ r = row[q]
      BY <2>2, AmountsPositive DEF RowsTyped
    <3>2. to = [at |-> "pool", e |-> e, p |-> q, pool |-> r] /\ ~IsTrade(e)
      BY <1>2, <2>2, <3>1 DEF Handled, IsMove, IsTrade
    <3>3. \A p \in Pools : RowExact(to, p)' /\ ToldExact(to, p)' /\ HoldersExact(to, p)'
      BY <1>3, <1>4, <3>1, <3>2 DEF RowExact, ToldExact, HoldersExact, Moving
    <3>4. ReservesOf(r) = Reserves(q)' /\ Providers(q)' = Holders(q)' \cup Caller(e)
      BY <1>1, <1>3, <1>4, <2>2, <3>1 DEF Reserves
    <3>5. ReservesAfter(q, log') = After(q, Reserves(q)', e)
      BY <1>3, <1>4
    <3>6. CalmWork(to)'
      BY <3>2, <3>4, <3>5 DEF CalmWork, Moving, Trading, Updating, Valuing
    <3>7. to \in Work
      BY <3>2 DEF Work
    <3>8. QED BY <1>3, <1>4, <3>2, <3>3, <3>6, <3>7 DEF Exact
  <2>3. CASE IsTrade(e)
    <3>1. PICK q \in Pools, r \in Rows : q = PoolOf(e) /\ r = row[q]
      BY <2>3, AmountsPositive DEF RowsTyped
    <3>2. to = [at |-> "swap", e |-> e, p |-> q, pool |-> r] /\ ~IsMove(e)
      BY <1>2, <2>3, <3>1 DEF Handled, IsMove, IsTrade
    <3>3. \A p \in Pools : RowExact(to, p)' /\ ToldExact(to, p)' /\ HoldersExact(to, p)'
      BY <1>3, <1>4, <3>2 DEF RowExact, ToldExact, HoldersExact
    <3>4. ReservesOf(r) = Reserves(q)' /\ TradeHashes' = Rowed' \cup {e.txHash}
      BY <1>1, <1>3, <1>4, <2>3, <3>1 DEF Reserves
    <3>5. CalmWork(to)'
      BY <3>2, <3>4 DEF CalmWork, Moving, Trading, Updating, Valuing
    <3>6. to \in Work
      BY <3>2 DEF Work, Trading
    <3>7. QED BY <1>3, <3>2, <3>3, <3>5, <3>6 DEF Exact
  <2>4. QED BY <2>1, <2>2, <2>3 DEF Handled
<1>6. QED BY <1>2, <1>5, CalmGoes

\* What is exact stays so where nothing is written.
LEMMA ExactKept ==
    ASSUME NEW h, Exact(h),
           UNCHANGED <<parses, row, position, swaps, snapshots, emitted, log>>
    PROVE  Exact(h)'
<1>1. /\ \A p : Providers(p)' = Providers(p) /\ Holders(p)' = Holders(p)
      /\ \A p : Reserves(p)' = Reserves(p)
      /\ \A r : PoolTvl(r)' = PoolTvl(r)
      /\ TradeHashes' = TradeHashes /\ Rowed' = Rowed
  BY SameLog DEF Holders, Reserves, PoolTvl, Rowed
<1>2. CalmWork(h)'
  BY <1>1 DEF Exact, CalmWork
<1>3. \A p \in Pools : RowExact(h, p)' /\ ToldExact(h, p)' /\ HoldersExact(h, p)'
  BY <1>1 DEF Exact, RowExact, ToldExact, HoldersExact
<1>4. QED BY <1>1, <1>2, <1>3 DEF Exact

LEMMA LookCalm ==
    ASSUME RowsTyped, NEW t \in Tasks, LookForPosition(t), Others(t), Exact(task[t]), parses
    PROVE  CalmInv'
<1>1. PICK h \in Work \cup {Idle} : h = task[t] /\ WorkOk(h) /\ Exact(h)
  BY DEF RowsTyped
<1>2. /\ h.at = "pool" /\ h.e \in Events /\ h.p \in Pools /\ h.pool \in Rows
      /\ IsMove(h.e)
  BY <1>1, Holds DEF LookForPosition, WorkOk, Moving
<1>3. PICK existing \in Positions \cup {None} : existing = position[h.e.data.caller, h.p]
  BY <1>2, MoverIsWallet DEF RowsTyped
<1>4. PICK at : /\ at = IF existing # None \/ h.e.type = "Mint" THEN "position" ELSE "counting"
                /\ Goes(t, [at |-> at, e |-> h.e, p |-> h.p, pool |-> h.pool,
                            existing |-> existing])
  BY <1>1, <1>3 DEF LookForPosition
<1>5. PICK to : /\ to = [at |-> at, e |-> h.e, p |-> h.p, pool |-> h.pool,
                         existing |-> existing]
                /\ Goes(t, to)
  BY <1>4
<1>6. UNCHANGED <<parses, row, position, swaps, snapshots, emitted, log>>
  BY DEF LookForPosition, Tables, History
<1>7. to \in Work
  BY <1>2, <1>4, <1>5 DEF Work
<1>8. Exact(to)
  <2>1. /\ ReservesOf(h.pool) = Reserves(h.p)
        /\ ReservesAfter(h.p, log) = After(h.p, Reserves(h.p), h.e)
        /\ Providers(h.p) = Holders(h.p) \cup Caller(h.e)
    BY <1>1, <1>2 DEF Exact, CalmWork, Moving
  <2>2. CalmWork(to)
    BY <1>3, <1>4, <1>5, <2>1 DEF CalmWork, Moving, Trading, Updating, Valuing, Caller
  <2>3. \A p \in Pools : RowExact(to, p) /\ ToldExact(to, p)
    BY <1>1, <1>2, <1>4, <1>5 DEF Exact, RowExact, ToldExact, Moving, Updating
  <2>4. \A p \in Pools : HoldersExact(to, p)
    <3>1. at = "counting" => Caller(h.e) = {}
      BY <1>2, <1>4 DEF Caller, IsMove
    <3>2. QED BY <1>1, <1>2, <1>4, <1>5, <2>1, <3>1 DEF Exact, HoldersExact
  <2>5. to.at # "swap" /\ Rowed = TradeHashes /\ \A s \in snapshots : s.tvlUsd = PoolTvl(s)
    BY <1>1, <1>2, <1>4, <1>5 DEF Exact
  <2>6. QED BY <2>2, <2>3, <2>4, <2>5 DEF Exact
<1>9. QED BY <1>5, <1>6, <1>7, <1>8, ExactKept, CalmGoes

LEMMA SavePositionCalm ==
    ASSUME RowsTyped, NEW t \in Tasks, SavePosition(t), Others(t), Exact(task[t]), parses
    PROVE  CalmInv'
<1>1. PICK h \in Work \cup {Idle} : h = task[t] /\ WorkOk(h) /\ Exact(h)
  BY DEF RowsTyped
<1>2. /\ h.at = "position" /\ h.e \in Events /\ h.p \in Pools /\ h.pool \in Rows
      /\ h.existing \in Positions \cup {None} /\ IsMove(h.e)
  BY <1>1, Holds, Shapes DEF SavePosition, WorkOk, Moving
<1>3. /\ ReservesOf(h.pool) = Reserves(h.p)
      /\ ReservesAfter(h.p, log) = After(h.p, Reserves(h.p), h.e)
      /\ Providers(h.p) = Holders(h.p) \cup Caller(h.e)
      /\ h.existing = position[h.e.data.caller, h.p]
      /\ h.e.type = "Burn" => h.existing # None
  BY <1>1, <1>2 DEF Exact, CalmWork, Moving
<1>4. PICK w \in Wallets, q \in Pools : w = h.e.data.caller /\ q = h.p
  BY <1>2, MoverIsWallet
<1>5. PICK new \in Positions : new = NewPosition(h.existing, h.e) /\ new # None
  BY <1>2, NewPositionTyped, PoolRowsAssumption
<1>6. /\ position' = [position EXCEPT ![<<w, q>>] = new]
      /\ Goes(t, [h EXCEPT !.at = "counting"])
      /\ UNCHANGED <<parses, row, swaps, snapshots, emitted, log>>
  BY <1>1, <1>3, <1>4, <1>5 DEF SavePosition, History
<1>7. PICK to : Goes(t, to) /\ to = [h EXCEPT !.at = "counting"]
  BY <1>6
<1>8. /\ to \in Work
      /\ to.at = "counting" /\ to.e = h.e /\ to.p = h.p /\ to.pool = h.pool
  <2>1. h \in [at : {"position", "counting"}, e : Events, p : Pools, pool : Rows,
               existing : Positions \cup {None}]
    BY <1>2, Shapes
  <2>2. QED BY <1>7, <2>1 DEF Work
<1>9. \A p \in Pools : Holders(p)' = IF p = q THEN Holders(p) \cup {w} ELSE Holders(p)
  BY <1>5, <1>6 DEF Holders, RowsTyped
<1>10. /\ \A p : Providers(p)' = Providers(p) /\ Reserves(p)' = Reserves(p)
       /\ \A r : PoolTvl(r)' = PoolTvl(r)
       /\ TradeHashes' = TradeHashes /\ Rowed' = Rowed
  BY <1>6, SameLog DEF Reserves, PoolTvl, Rowed
<1>11. Holders(q)' = Providers(q)'
  <2>1. CASE h.e.type = "Mint"
    BY <1>3, <1>4, <1>9, <1>10, <2>1 DEF Caller
  <2>2. CASE h.e.type = "Burn"
    <3>1. w \in Holders(q)
      BY <1>3, <1>4, <2>2 DEF Holders
    <3>2. QED BY <1>3, <1>4, <1>9, <1>10, <2>2, <3>1 DEF Caller
  <2>3. QED BY <1>2, <2>1, <2>2 DEF IsMove
<1>12. Exact(to)'
  <2>1. CalmWork(to)'
    BY <1>3, <1>6, <1>8, <1>10 DEF CalmWork, Moving, Trading, Updating, Valuing
  <2>2. \A p \in Pools : RowExact(to, p)' /\ ToldExact(to, p)'
    BY <1>1, <1>2, <1>6, <1>8, <1>10 DEF Exact, RowExact, ToldExact, Moving, Updating
  <2>3. \A p \in Pools : HoldersExact(to, p)'
    BY <1>1, <1>2, <1>4, <1>8, <1>9, <1>10, <1>11 DEF Exact, HoldersExact
  <2>4. Rowed' = TradeHashes' /\ \A s \in snapshots' : s.tvlUsd = PoolTvl(s)'
    BY <1>1, <1>2, <1>6, <1>10 DEF Exact
  <2>5. QED BY <2>1, <2>2, <2>3, <2>4 DEF Exact
<1>13. QED BY <1>7, <1>8, <1>12, CalmGoes

LEMMA CountCalm ==
    ASSUME RowsTyped, NEW t \in Tasks, CountPositions(t), Others(t), Exact(task[t])
    PROVE  CalmInv'
<1>1. PICK h \in Work \cup {Idle} : h = task[t] /\ WorkOk(h) /\ Exact(h)
  BY DEF RowsTyped
<1>2. /\ h.at = "counting" /\ h.e \in Events /\ h.p \in Pools /\ h.pool \in Rows
      /\ IsMove(h.e) /\ h.p = PoolOf(h.e)
  BY <1>1, Holds DEF CountPositions, WorkOk, Moving
<1>3. UNCHANGED <<parses, row, position, swaps, snapshots, emitted, log>>
  BY DEF CountPositions, Tables, History
<1>4. PICK n \in Nat : n = LpCount(h.p) /\ n = Cardinality(Providers(h.p))
  <2>1. Holders(h.p) = Providers(h.p)
    BY <1>1, <1>2 DEF Exact, HoldersExact
  <2>2. LpCount(h.p) \in Nat
    BY <1>2, <1>3, CountGrows
  <2>3. QED BY <2>1, <2>2 DEF LpCount, Holders
<1>5. PICK r \in Nat \X Nat : r = NewReserves(h.pool, h.e) /\ r = ReservesAfter(h.p, log)
  <2>1. /\ ReservesOf(h.pool) = Reserves(h.p)
        /\ ReservesAfter(h.p, log) = After(h.p, Reserves(h.p), h.e)
    BY <1>1, <1>2 DEF Exact, CalmWork, Moving
  <2>2. /\ NewReserves(h.pool, h.e) \in Nat \X Nat
        /\ NewReserves(h.pool, h.e) = After(PoolOf(h.e), ReservesOf(h.pool), h.e)
    BY <1>2, NewReservesTyped
  <2>3. QED BY <1>2, <2>1, <2>2
<1>6. PICK to : /\ to = [at |-> "updating", p |-> h.p, lpCount |-> n, reserves |-> r]
                /\ Goes(t, to)
  BY <1>1, <1>4, <1>5 DEF CountPositions
<1>7. to \in Work
  BY <1>2, <1>6 DEF Work, Updating
<1>8. Exact(to)
  <2>1. CalmWork(to)
    BY <1>4, <1>5, <1>6 DEF CalmWork, Moving, Trading, Updating, Valuing
  <2>2. \A p \in Pools : RowExact(to, p) /\ ToldExact(to, p) /\ HoldersExact(to, p)
    BY <1>1, <1>2, <1>6 DEF Exact, RowExact, ToldExact, HoldersExact, Moving, Updating
  <2>3. Rowed = TradeHashes /\ \A s \in snapshots : s.tvlUsd = PoolTvl(s)
    BY <1>1, <1>2 DEF Exact
  <2>4. QED BY <2>1, <2>2, <2>3 DEF Exact
<1>9. QED BY <1>3, <1>6, <1>7, <1>8, ExactKept, CalmGoes

\* A step that writes rows of pools and their clients, and leaves the positions,
\* the swaps and the snapshots.
LEMMA RowsWritten ==
    ASSUME UNCHANGED <<parses, position, swaps, snapshots, log>>
    PROVE  /\ \A p : Providers(p)' = Providers(p) /\ Holders(p)' = Holders(p)
           /\ \A p : Reserves(p)' = ReservesOf(row'[p])
           /\ \A r : PoolTvl(r)' = PoolTvl(r)
           /\ TradeHashes' = TradeHashes /\ Rowed' = Rowed
BY SameLog DEF Holders, Reserves, PoolTvl, Rowed

LEMMA UpdatePoolCalm ==
    ASSUME RowsTyped, NEW t \in Tasks, UpdatePool(t), Others(t), Exact(task[t])
    PROVE  CalmInv'
<1>1. PICK h \in Work \cup {Idle} : h = task[t] /\ Exact(h)
  BY DEF RowsTyped
<1>2. h.at = "updating"
  BY <1>1 DEF UpdatePool
<1>3. h.reserves = ReservesAfter(h.p, log) /\ h.lpCount = Cardinality(Providers(h.p))
  BY <1>1, <1>2 DEF Exact, CalmWork, Updating
<1>4. UNCHANGED <<parses, position, swaps, snapshots, emitted, log>>
  BY DEF UpdatePool, History
<1>5. PICK to : Goes(t, to) /\ to = [h EXCEPT !.at = "emitting"]
  BY <1>1 DEF UpdatePool
<1>6. /\ to \in Work /\ to.at = "emitting"
      /\ to.p = h.p /\ to.lpCount = h.lpCount /\ to.reserves = h.reserves
  <2>1. h \in [at : Updating, p : Pools, lpCount : Nat, reserves : Nat \X Nat]
    BY <1>2, Shapes DEF Updating
  <2>2. QED BY <1>5, <2>1 DEF Work, Updating
<1>7. /\ h.p \in Pools
      /\ \A p \in Pools : p # h.p => row'[p] = row[p]
      /\ ReservesOf(row'[h.p]) = h.reserves
      /\ row'[h.p].lpCount = h.lpCount
  BY <1>1, PoolWritten
<1>8. /\ \A p : Providers(p)' = Providers(p) /\ Holders(p)' = Holders(p)
      /\ \A p : Reserves(p)' = ReservesOf(row'[p])
      /\ \A r : PoolTvl(r)' = PoolTvl(r)
      /\ TradeHashes' = TradeHashes /\ Rowed' = Rowed
  BY <1>4, RowsWritten
<1>9. Exact(to)'
  <2>1. CalmWork(to)'
    BY <1>3, <1>4, <1>6, <1>7, <1>8 DEF CalmWork, Moving, Trading, Updating, Valuing
  <2>2. \A p \in Pools : RowExact(to, p)' /\ ToldExact(to, p)' /\ HoldersExact(to, p)'
    <3>1. TAKE p \in Pools
    <3>2. RowExact(h, p) /\ ToldExact(h, p) /\ HoldersExact(h, p)
      BY <1>1 DEF Exact
    <3>3. CASE p = h.p
      BY <1>2, <1>3, <1>4, <1>6, <1>7, <1>8, <3>2, <3>3
         DEF RowExact, ToldExact, HoldersExact, Moving, Updating
    <3>4. CASE p # h.p
      <4>1. row'[p] = row[p] /\ Reserves(p)' = Reserves(p)
        BY <1>7, <1>8, <3>4 DEF Reserves
      <4>2. QED BY <1>2, <1>4, <1>6, <1>8, <3>2, <3>4, <4>1
                   DEF RowExact, ToldExact, HoldersExact, Moving, Updating
    <3>5. QED BY <3>3, <3>4
  <2>3. Rowed' = TradeHashes' /\ \A s \in snapshots' : s.tvlUsd = PoolTvl(s)'
    BY <1>1, <1>2, <1>4, <1>8 DEF Exact
  <2>4. QED BY <2>1, <2>2, <2>3 DEF Exact
<1>10. QED BY <1>5, <1>6, <1>9, CalmGoes

LEMMA IdleWorks == Idle.at = "idle" /\ CalmWork(Idle) /\ CalmWork(Idle)'
BY DEF Idle, CalmWork, Moving, Trading, Updating, Valuing

LEMMA EmitCalm ==
    ASSUME RowsTyped, NEW t \in Tasks, EmitReserves(t), Others(t), Exact(task[t])
    PROVE  CalmInv'
<1>1. PICK h \in Work \cup {Idle} : h = task[t] /\ Exact(h)
  BY DEF RowsTyped
<1>2. /\ h.at = "emitting" /\ h.p \in Pools
  BY <1>1, Holds DEF EmitReserves, Updating
<1>3. /\ h.reserves = ReservesAfter(h.p, log) /\ h.lpCount = Cardinality(Providers(h.p))
      /\ row[h.p].lpCount = h.lpCount
  BY <1>1, <1>2 DEF Exact, CalmWork, Updating
<1>4. UNCHANGED <<parses, row, position, swaps, snapshots, log>> /\ Goes(t, Idle)
  BY DEF EmitReserves, History
<1>5. /\ emitted'[h.p] = h.reserves
      /\ \A p \in Pools : p # h.p => emitted'[p] = emitted[p]
  BY <1>1, <1>2 DEF EmitReserves, RowsTyped
<1>6. /\ \A p : Providers(p)' = Providers(p) /\ Holders(p)' = Holders(p)
      /\ \A p : Reserves(p)' = Reserves(p)
      /\ \A r : PoolTvl(r)' = PoolTvl(r)
      /\ TradeHashes' = TradeHashes /\ Rowed' = Rowed
  BY <1>4, RowsWritten DEF Reserves
<1>7. \A p \in Pools : RowExact(Idle, p)' /\ ToldExact(Idle, p)' /\ HoldersExact(Idle, p)'
  <2>1. TAKE p \in Pools
  <2>2. RowExact(h, p) /\ ToldExact(h, p) /\ HoldersExact(h, p)
    BY <1>1 DEF Exact
  <2>3. Reserves(p) = ReservesAfter(p, log) /\ Holders(p) = Providers(p)
    BY <1>2, <2>2 DEF RowExact, HoldersExact, Moving
  <2>4. CASE p = h.p
    BY <1>3, <1>4, <1>5, <1>6, <2>3, <2>4 DEF RowExact, ToldExact, HoldersExact
  <2>5. CASE p # h.p
    BY <1>4, <1>5, <1>6, <2>2, <2>3, <2>5 DEF RowExact, ToldExact, HoldersExact
  <2>6. QED BY <2>4, <2>5
<1>8. Exact(Idle)'
  <2>1. Rowed' = TradeHashes' /\ \A s \in snapshots' : s.tvlUsd = PoolTvl(s)'
    BY <1>1, <1>2, <1>4, <1>6 DEF Exact
  <2>2. QED BY <1>7, <2>1, IdleWorks DEF Exact
<1>9. QED BY <1>4, <1>8, CalmGoes

LEMMA SaveSwapCalm ==
    ASSUME RowsTyped, NEW t \in Tasks, SaveSwap(t), Others(t), Exact(task[t])
    PROVE  CalmInv'
<1>1. PICK h \in Work \cup {Idle} : h = task[t] /\ Exact(h)
  BY DEF RowsTyped
<1>2. h.at = "swap" /\ h.p \in Pools
  BY <1>1, Holds DEF SaveSwap, Trading
<1>3. ReservesOf(h.pool) = Reserves(h.p) /\ TradeHashes = Rowed \cup {h.e.txHash}
  BY <1>1, <1>2 DEF Exact, CalmWork, Trading
<1>4. UNCHANGED <<parses, row, position, snapshots, emitted, log>>
  BY DEF SaveSwap, History
<1>5. PICK to : Goes(t, to) /\ to = [h EXCEPT !.at = "volume"]
  BY <1>1 DEF SaveSwap
<1>6. to \in Work /\ to.at = "volume" /\ to.p = h.p /\ to.e = h.e /\ to.pool = h.pool
  <2>1. h \in [at : {"pool"} \cup Trading, e : Events, p : Pools, pool : Rows]
    BY <1>2, Shapes DEF Trading
  <2>2. QED BY <1>5, <2>1 DEF Work, Trading
<1>7. Rowed' = Rowed \cup {h.e.txHash}
  <2>1. PICK n : swaps' = Saved(swaps, n) /\ n.txHash = h.e.txHash
    BY <1>1 DEF SaveSwap, SwapRow
  <2>2. QED BY <2>1 DEF Saved, Rowed
<1>8. /\ \A p : Providers(p)' = Providers(p) /\ Holders(p)' = Holders(p)
      /\ \A p : Reserves(p)' = Reserves(p)
      /\ \A r : PoolTvl(r)' = PoolTvl(r)
      /\ TradeHashes' = TradeHashes
  BY <1>4, SameLog DEF Holders, Reserves, PoolTvl
<1>9. Exact(to)'
  <2>1. CalmWork(to)'
    BY <1>3, <1>6, <1>8 DEF CalmWork, Moving, Trading, Updating, Valuing
  <2>2. \A p \in Pools : RowExact(to, p)' /\ ToldExact(to, p)' /\ HoldersExact(to, p)'
    BY <1>1, <1>2, <1>4, <1>6, <1>8
       DEF Exact, RowExact, ToldExact, HoldersExact, Moving, Updating
  <2>3. Rowed' = TradeHashes' /\ \A s \in snapshots' : s.tvlUsd = PoolTvl(s)'
    BY <1>1, <1>3, <1>4, <1>7, <1>8 DEF Exact
  <2>4. QED BY <2>1, <2>2, <2>3 DEF Exact
<1>10. QED BY <1>5, <1>6, <1>9, CalmGoes

LEMMA VolumeCalm ==
    ASSUME RowsTyped, NEW t \in Tasks, UpdatePoolVolume(t), Others(t), Exact(task[t])
    PROVE  CalmInv'
<1>1. PICK h \in Work \cup {Idle} : h = task[t] /\ Exact(h)
  BY DEF RowsTyped
<1>2. h.at = "volume"
  BY <1>1 DEF UpdatePoolVolume
<1>3. ReservesOf(h.pool) = Reserves(h.p)
  BY <1>1, <1>2 DEF Exact, CalmWork, Trading
<1>4. UNCHANGED <<parses, position, swaps, snapshots, emitted, log>> /\ Goes(t, Idle)
  BY DEF UpdatePoolVolume, History
<1>5. /\ \A p \in Pools : p # h.p => row'[p] = row[p]
      /\ ReservesOf(row'[h.p]) = ReservesOf(h.pool)
      /\ row'[h.p].lpCount = row[h.p].lpCount
  BY <1>1, VolumeWritten
<1>6. /\ \A p : Providers(p)' = Providers(p) /\ Holders(p)' = Holders(p)
      /\ \A p : Reserves(p)' = ReservesOf(row'[p])
      /\ \A r : PoolTvl(r)' = PoolTvl(r)
      /\ TradeHashes' = TradeHashes /\ Rowed' = Rowed
  BY <1>4, RowsWritten
<1>7. \A p \in Pools : Reserves(p)' = Reserves(p) /\ row'[p].lpCount = row[p].lpCount
  BY <1>3, <1>5, <1>6 DEF Reserves
<1>8. Exact(Idle)'
  <2>1. \A p \in Pools : RowExact(Idle, p)' /\ ToldExact(Idle, p)' /\ HoldersExact(Idle, p)'
    BY <1>1, <1>2, <1>4, <1>6, <1>7
       DEF Exact, RowExact, ToldExact, HoldersExact, Moving, Updating
  <2>2. Rowed' = TradeHashes' /\ \A s \in snapshots' : s.tvlUsd = PoolTvl(s)'
    BY <1>1, <1>2, <1>4, <1>6 DEF Exact
  <2>3. QED BY <2>1, <2>2, IdleWorks DEF Exact
<1>9. QED BY <1>4, <1>8, CalmGoes

LEMMA StartCalm ==
    ASSUME RowsTyped, NEW t \in Tasks, StartSnapshot(t), Others(t), Exact(Idle)
    PROVE  CalmInv'
<1>1. UNCHANGED <<parses, row, position, swaps, snapshots, emitted, log>>
  BY DEF StartSnapshot, Tables
<1>2. PICK to : /\ Goes(t, to)
                /\ to = [at |-> "reading", left |-> SetToSeq(ActivePools),
                         tvl |-> [p \in Pools |-> PoolTvl(row[p])]]
                /\ ActivePools # {}
  BY DEF StartSnapshot
<1>3. [p \in Pools |-> PoolTvl(row[p])] \in [Pools -> Nat]
  BY TvlTyped DEF RowsTyped
<1>4. to \in Work
  BY <1>2, <1>3, PoolsInOrder DEF Work
<1>5. Exact(to)
  <2>1. to.at = "reading" /\ \A p \in Pools : to.tvl[p] = PoolTvl(row[p])
    BY <1>2
  <2>2. CalmWork(to)
    BY <2>1 DEF CalmWork, Moving, Trading, Updating, Valuing
  <2>3. \A p \in Pools : RowExact(to, p) /\ ToldExact(to, p) /\ HoldersExact(to, p)
    BY <2>1, ExactIdle DEF RowExact, ToldExact, HoldersExact
  <2>4. QED BY <2>2, <2>3, ExactIdle DEF Exact
<1>6. QED BY <1>1, <1>2, <1>4, <1>5, ExactKept, CalmGoes

\* A run of snapshotTvl finds everything exact, from its first read to its last
\* write.
LEMMA ValuingExact ==
    ASSUME NEW h, h.at \in Valuing, Exact(h)
    PROVE  /\ \A p \in Pools :
                 /\ Reserves(p) = ReservesAfter(p, log)
                 /\ \/ emitted[p] = None
                    \/ emitted[p] = Reserves(p) /\ row[p].lpCount = Cardinality(Providers(p))
                 /\ Holders(p) = Providers(p)
                 /\ h.tvl[p] = PoolTvl(row[p])
           /\ Rowed = TradeHashes
           /\ \A s \in snapshots : s.tvlUsd = PoolTvl(s)
<1>1. h.at \notin Moving \cup Updating \cup {"pool", "position", "updating", "swap"}
  BY DEF Moving, Updating, Valuing
<1>2. \A p \in Pools : RowExact(h, p) /\ ToldExact(h, p) /\ HoldersExact(h, p)
  BY DEF Exact
<1>3. \A p \in Pools : h.tvl[p] = PoolTvl(row[p])
  BY DEF Exact, CalmWork
<1>4. QED BY <1>1, <1>2, <1>3 DEF Exact, RowExact, ToldExact, HoldersExact

LEMMA ReadCalm ==
    ASSUME RowsTyped, NEW t \in Tasks, ReadAgain(t), Others(t), Exact(task[t])
    PROVE  CalmInv'
<1>1. PICK h \in Work \cup {Idle} : h = task[t] /\ Exact(h)
  BY DEF RowsTyped
<1>2. /\ h.at = "reading" /\ h.at \in Valuing
      /\ h.left \in Seq(Pools) /\ h.left # <<>> /\ Head(h.left) \in Pools
      /\ h.tvl \in [Pools -> Nat]
  BY <1>1, Holds DEF ReadAgain, Valuing
<1>3. UNCHANGED <<parses, row, position, swaps, snapshots, emitted, log>>
  BY DEF ReadAgain, Tables, History
<1>4. PICK r \in Rows : r = row[Head(h.left)]
  BY <1>2 DEF RowsTyped
<1>5. PICK to : /\ Goes(t, to)
                /\ to = [at |-> "snapshot", left |-> h.left, tvl |-> h.tvl, pool |-> r]
  BY <1>1, <1>4 DEF ReadAgain
<1>6. to \in Work
  BY <1>2, <1>5 DEF Work
<1>7. Exact(to)
  <2>1. CalmWork(to)
    BY <1>1, <1>2, <1>4, <1>5, ValuingExact
       DEF CalmWork, Reserves, Moving, Trading, Updating, Valuing
  <2>2. \A p \in Pools : RowExact(to, p) /\ ToldExact(to, p) /\ HoldersExact(to, p)
    BY <1>1, <1>2, <1>5, ValuingExact DEF RowExact, ToldExact, HoldersExact
  <2>3. QED BY <1>1, <1>2, <2>1, <2>2, ValuingExact DEF Exact
<1>8. QED BY <1>3, <1>5, <1>6, <1>7, ExactKept, CalmGoes

LEMMA SaveSnapshotCalm ==
    ASSUME RowsTyped, NEW t \in Tasks, SaveSnapshot(t), Others(t), Exact(task[t])
    PROVE  CalmInv'
<1>1. PICK h \in Work \cup {Idle} : h = task[t] /\ Exact(h)
  BY DEF RowsTyped
<1>2. /\ h.at = "snapshot" /\ h.at \in Valuing
      /\ h.left \in Seq(Pools) /\ h.left # <<>> /\ Head(h.left) \in Pools
      /\ h.tvl \in [Pools -> Nat]
  BY <1>1, Holds DEF SaveSnapshot, Valuing
<1>3. UNCHANGED <<parses, row, position, swaps, emitted, log>>
  BY DEF SaveSnapshot, History
<1>4. PICK to : /\ Goes(t, to)
                /\ to = [at |-> "tvl", left |-> h.left, tvl |-> h.tvl]
  BY <1>1 DEF SaveSnapshot
<1>5. to \in Work
  BY <1>2, <1>4 DEF Work
<1>6. /\ \A p : Providers(p)' = Providers(p) /\ Holders(p)' = Holders(p)
      /\ \A p : Reserves(p)' = Reserves(p)
      /\ \A r : PoolTvl(r)' = PoolTvl(r)
      /\ TradeHashes' = TradeHashes /\ Rowed' = Rowed
  BY <1>3, SameLog DEF Holders, Reserves, PoolTvl, Rowed
<1>7. \A s \in snapshots' : s.tvlUsd = PoolTvl(s)
  <2>1. PICK q \in Pools : q = Head(h.left)
    BY <1>2
  <2>2. PICK n : /\ snapshots' = snapshots \cup {n}
                 /\ n = [poolId |-> q, tvlUsd |-> h.tvl[q], number |-> Cardinality(snapshots),
                         reserve0 |-> h.pool.reserve0, reserve1 |-> h.pool.reserve1]
    BY <1>1, <2>1, Zenon DEF SaveSnapshot
  <2>3. n.tvlUsd = h.tvl[q] /\ ReservesOf(n) = ReservesOf(h.pool)
    BY <2>2 DEF ReservesOf
  <2>4. ReservesOf(h.pool) = ReservesOf(row[q])
    BY <1>1, <1>2, <2>1 DEF Exact, CalmWork, Reserves
  <2>5. h.tvl[q] = PoolTvl(row[q])
    BY <1>1, <1>2, ValuingExact
  <2>6. PoolTvl(n) = PoolTvl(row[q])
    BY <2>3, <2>4, SameReserves
  <2>7. QED BY <1>1, <1>2, <2>2, <2>3, <2>5, <2>6, ValuingExact
<1>8. Exact(to)'
  <2>1. CalmWork(to)'
    BY <1>1, <1>2, <1>3, <1>4, <1>6, ValuingExact
       DEF CalmWork, Moving, Trading, Updating, Valuing
  <2>2. \A p \in Pools : RowExact(to, p)' /\ ToldExact(to, p)' /\ HoldersExact(to, p)'
    BY <1>1, <1>2, <1>3, <1>4, <1>6, ValuingExact DEF RowExact, ToldExact, HoldersExact
  <2>3. Rowed' = TradeHashes' /\ \A s \in snapshots' : s.tvlUsd = PoolTvl(s)'
    BY <1>1, <1>2, <1>6, <1>7, ValuingExact
  <2>4. QED BY <2>1, <2>2, <2>3 DEF Exact
<1>9. QED BY <1>4, <1>5, <1>8, CalmGoes

LEMMA UpdateTvlCalm ==
    ASSUME RowsTyped, NEW t \in Tasks, UpdateTvl(t), Others(t), Exact(task[t])
    PROVE  CalmInv'
<1>1. PICK h \in Work \cup {Idle} : h = task[t] /\ Exact(h)
  BY DEF RowsTyped
<1>2. h.at \in Valuing
  BY <1>1 DEF UpdateTvl, Valuing
<1>3. UNCHANGED <<parses, position, swaps, snapshots, emitted, log>>
  BY DEF UpdateTvl, History
<1>4. PICK to : /\ Goes(t, to) /\ to \in Work \cup {Idle}
                /\ to = Idle \/ (to.at = "reading" /\ to.tvl = h.tvl)
  <2>1. PICK to : /\ Goes(t, to)
                  /\ \/ to = Idle
                     \/ to = [at |-> "reading", left |-> Tail(h.left), tvl |-> h.tvl]
    BY <1>1 DEF UpdateTvl
  <2>2. to = task'[t] /\ task'[t] \in Work \cup {Idle}
    BY <2>1, UpdateTvlTyped DEF RowsTyped, Goes
  <2>3. QED BY <2>1, <2>2
<1>5. /\ \A p : Providers(p)' = Providers(p) /\ Holders(p)' = Holders(p)
      /\ \A p : Reserves(p)' = ReservesOf(row'[p])
      /\ \A r : PoolTvl(r)' = PoolTvl(r)
      /\ TradeHashes' = TradeHashes /\ Rowed' = Rowed
  BY <1>3, RowsWritten
<1>6. \A p \in Pools : /\ Reserves(p)' = Reserves(p)
                       /\ row'[p].lpCount = row[p].lpCount
                       /\ PoolTvl(row'[p]) = PoolTvl(row[p])
  BY <1>5, TvlWritten, SameReserves DEF Reserves
<1>7. Exact(to)'
  <2>1. CASE to = Idle
    <3>1. \A p \in Pools : RowExact(Idle, p)' /\ ToldExact(Idle, p)' /\ HoldersExact(Idle, p)'
      BY <1>1, <1>2, <1>3, <1>5, <1>6, ValuingExact DEF RowExact, ToldExact, HoldersExact
    <3>2. Rowed' = TradeHashes' /\ \A s \in snapshots' : s.tvlUsd = PoolTvl(s)'
      BY <1>1, <1>2, <1>3, <1>5, ValuingExact
    <3>3. QED BY <2>1, <3>1, <3>2, IdleWorks DEF Exact
  <2>2. CASE to.at = "reading" /\ to.tvl = h.tvl
    <3>1. \A p \in Pools : to.tvl[p] = PoolTvl(row[p])'
      BY <1>1, <1>2, <1>5, <1>6, <2>2, ValuingExact
    <3>2. CalmWork(to)'
      BY <2>2, <3>1 DEF CalmWork, Moving, Trading, Updating, Valuing
    <3>3. \A p \in Pools : RowExact(to, p)' /\ ToldExact(to, p)' /\ HoldersExact(to, p)'
      BY <1>1, <1>2, <1>3, <1>5, <1>6, <2>2, ValuingExact
         DEF RowExact, ToldExact, HoldersExact
    <3>4. Rowed' = TradeHashes' /\ \A s \in snapshots' : s.tvlUsd = PoolTvl(s)'
      BY <1>1, <1>2, <1>3, <1>5, ValuingExact
    <3>5. QED BY <3>2, <3>3, <3>4 DEF Exact
  <2>3. QED BY <1>4, <2>1, <2>2
<1>8. QED BY <1>4, <1>7, CalmGoes

\* Only a task at work goes on.
LEMMA AtWork ==
    ASSUME NEW t \in Tasks,
           \/ LookForPosition(t) \/ SavePosition(t) \/ CountPositions(t)
           \/ UpdatePool(t) \/ EmitReserves(t) \/ SaveSwap(t) \/ UpdatePoolVolume(t)
           \/ ReadAgain(t) \/ SaveSnapshot(t) \/ UpdateTvl(t)
    PROVE  task[t] # Idle /\ calm' = calm /\ parses' = parses
<1>1. Idle.at = "idle"
  BY SMTT(30) DEF Idle
<1>2. task[t].at # "idle"
  BY ZenonT(60) DEF LookForPosition, SavePosition, CountPositions, UpdatePool, EmitReserves, SaveSwap,
         UpdatePoolVolume, ReadAgain, SaveSnapshot, UpdateTvl
<1>3. calm' = calm /\ parses' = parses
  BY DEF LookForPosition, SavePosition, CountPositions, UpdatePool, EmitReserves, SaveSwap,
         UpdatePoolVolume, ReadAgain, SaveSnapshot, UpdateTvl, Tables, History
<1>4. QED BY <1>1, <1>2, <1>3

LEMMA CalmStep == RowsTyped /\ CalmInv /\ [RowsNext]_vars => CalmInv'
<1> SUFFICES ASSUME RowsTyped, CalmInv, [RowsNext]_vars, calm', parses' PROVE CalmInv'
  BY DEF CalmInv
<1>1. ASSUME NEW t \in Handlers, NEW e \in Events, Hand(t, e)
      PROVE  CalmInv'
  <2>1. t \in Tasks /\ task[t] = Idle /\ calm /\ parses /\ Others(t)
    BY <1>1, TasksApart DEF Hand, Tables
  <2>2. QED BY <1>1, <2>1, CalmStarts, HandCalm
<1>2. ASSUME NEW t \in Handlers,
             \/ LookForPosition(t) \/ SavePosition(t) \/ CountPositions(t)
             \/ UpdatePool(t) \/ EmitReserves(t) \/ SaveSwap(t) \/ UpdatePoolVolume(t)
      PROVE  CalmInv'
  <2>1. t \in Tasks /\ Others(t) /\ Exact(task[t]) /\ parses
    BY <1>2, TasksApart, AtWork, CalmWorker
  <2>2. QED BY <1>2, <2>1, LookCalm, SavePositionCalm, CountCalm, UpdatePoolCalm, EmitCalm,
               SaveSwapCalm, VolumeCalm
<1>3. ASSUME NEW t \in CronJobs, StartSnapshot(t)
      PROVE  CalmInv'
  <2>1. t \in Tasks /\ task[t] = Idle /\ calm /\ parses /\ Others(t)
    BY <1>3, TasksApart DEF StartSnapshot, Tables
  <2>2. QED BY <1>3, <2>1, CalmStarts, StartCalm
<1>4. ASSUME NEW t \in CronJobs, ReadAgain(t) \/ SaveSnapshot(t) \/ UpdateTvl(t)
      PROVE  CalmInv'
  <2>1. t \in Tasks /\ Others(t) /\ Exact(task[t])
    BY <1>4, TasksApart, AtWork, CalmWorker
  <2>2. QED BY <1>4, <2>1, ReadCalm, SaveSnapshotCalm, UpdateTvlCalm
<1>5. ASSUME NEW t \in Tasks, TaskFails(t)
      PROVE  CalmInv'
  BY <1>5 DEF TaskFails
<1>6. CASE Restart
  <2>1. calm /\ parses /\ \A t \in Tasks : task[t] = Idle
    BY <1>6 DEF Restart, Tables
  <2>2. UNCHANGED <<parses, row, position, swaps, snapshots, emitted, log>>
    BY <1>6 DEF Restart, Tables
  <2>3. Exact(Idle)'
    BY <2>1, <2>2, ExactKept DEF CalmInv
  <2>4. \A t \in Tasks : task'[t] = Idle
    BY <1>6 DEF Restart
  <2>5. QED BY <2>3, <2>4 DEF CalmInv
<1>7. CASE UNCHANGED vars
  <2>1. UNCHANGED <<parses, row, position, swaps, snapshots, emitted, log, task, calm>>
    BY <1>7 DEF vars
  <2>2. ASSUME NEW t \in Tasks, task'[t] # Idle
        PROVE  Exact(task[t])'
    <3>1. PICK h : h = task[t] /\ h = task'[t] /\ Exact(h)
      BY <2>1, <2>2 DEF CalmInv
    <3>2. Exact(h)'
      BY <2>1, <3>1, ExactKept
    <3>3. QED BY <3>1, <3>2, ZenonT(60) DEF Exact, CalmWork, RowExact, ToldExact, HoldersExact
  <2>3. (\A t \in Tasks : task'[t] = Idle) => Exact(Idle)'
    BY <2>1, ExactKept DEF CalmInv
  <2>4. QED BY <2>1, <2>2, <2>3 DEF CalmInv
<1>8. QED BY <1>1, <1>2, <1>3, <1>4, <1>5, <1>6, <1>7 DEF RowsNext

LEMMA CalmInit == RowsInit => CalmInv
<1> SUFFICES ASSUME RowsInit PROVE CalmInv
  OBVIOUS
<1>1. /\ log = <<>> /\ row = Seeded /\ swaps = {} /\ snapshots = {}
      /\ \A p \in Pools : emitted[p] = None
      /\ \A t \in Tasks : task[t] = Idle
  BY DEF RowsInit
<1>2. Range(log) = {}
  BY <1>1 DEF Range
<1>3. \A p \in Pools : Providers(p) = {} /\ Holders(p) = {}
  BY <1>2 DEF Providers, MovesOf, Holders, RowsInit
<1>4. TradeHashes = {} /\ Rowed = {}
  BY <1>1, <1>2 DEF TradeHashes, Rowed
<1>5. \A p \in Pools : Reserves(p) = ReservesAfter(p, log)
  BY <1>1, AfterNone DEF Reserves
<1>6. Exact(Idle)
  BY <1>1, <1>3, <1>4, <1>5, IdleWorks DEF Exact, RowExact, ToldExact, HoldersExact
<1>7. QED BY <1>1, <1>6 DEF CalmInv

-----------------------------------------------------------------------------
(* With columns that do not read as whole numbers no handler gets far. *)

\* No task is where a column has been read as a whole number.
Stuck(h) == h.at \notin {"counting", "swap", "volume"} \cup Updating

\* A row as it was, its value apart.
Untouched(p) ==
    /\ Reserves(p) = ReservesOf(Seeded[p])
    /\ row[p].feeRevenue24h = Seeded[p].feeRevenue24h
    /\ row[p].volume24hUsd = Seeded[p].volume24hUsd

UnparsedInv ==
    ~parses =>
        /\ swaps = {}
        /\ \A p \in Pools : emitted[p] = None /\ Untouched(p)
        /\ \A t \in Tasks : Stuck(task[t])

LEMMA UnparsedGoes ==
    ASSUME RowsTyped, UnparsedInv, NEW t \in Tasks, NEW to, Goes(t, to), Stuck(to),
           UNCHANGED <<parses, row, swaps, emitted>>
    PROVE  UnparsedInv'
<1>1. \A u \in Tasks : task'[u] = IF u = t THEN to ELSE task[u]
  BY DEF Goes, RowsTyped
<1>2. ASSUME ~parses, NEW u \in Tasks
      PROVE  Stuck(task'[u])
  BY <1>1, <1>2 DEF UnparsedInv
<1>3. ASSUME ~parses, NEW p \in Pools
      PROVE  emitted'[p] = None /\ Untouched(p)'
  BY <1>3 DEF UnparsedInv, Untouched, Reserves
<1>4. ~parses => swaps' = {}
  BY DEF UnparsedInv
<1>5. parses' = parses
  OBVIOUS
<1>6. (~parses =>
         /\ swaps = {}
         /\ \A p \in Pools : emitted[p] = None /\ Untouched(p)
         /\ \A u \in Tasks : Stuck(task[u]))'
  <2> SUFFICES ASSUME ~parses
               PROVE  /\ swaps' = {}
                      /\ \A p \in Pools : emitted'[p] = None /\ Untouched(p)'
                      /\ \A u \in Tasks : Stuck(task[u])'
    BY <1>5
  <2>1. \A u \in Tasks : Stuck(task[u])'
    BY <1>2 DEF Stuck
  <2>2. QED BY <1>3, <1>4, <2>1
<1>7. QED BY <1>6 DEF UnparsedInv

LEMMA IdleStuck == Stuck(Idle)
BY DEF Stuck, Idle, Updating

LEMMA UnparsedStep == RowsTyped /\ UnparsedInv /\ [RowsNext]_vars => UnparsedInv'
<1> SUFFICES ASSUME RowsTyped, UnparsedInv, [RowsNext]_vars, ~parses
             PROVE  UnparsedInv'
  <2>1. [RowsNext]_vars => parses' = parses
    BY DEF RowsNext, vars, Tables, Hand, LookForPosition, SavePosition, CountPositions,
       UpdatePool, EmitReserves, SaveSwap, UpdatePoolVolume, StartSnapshot, ReadAgain,
       SaveSnapshot, UpdateTvl, TaskFails, Restart
  <2>2. QED BY <2>1 DEF UnparsedInv
<1>1. ASSUME NEW t \in Handlers, NEW e \in Events, Hand(t, e)
      PROVE  UnparsedInv'
  <2>1. ~IsTrade(e)
    BY DEF IsTrade
  <2>2. PICK to : Goes(t, to) /\ (to = Idle \/ to.at = "pool")
    <3>1. CASE Handled(e)
      <4>1. IsMove(e) /\ e.type # "Swap"
        BY <2>1, <3>1 DEF Handled, IsMove
      <4>2. QED BY <1>1, <3>1, <4>1 DEF Hand
    <3>2. CASE ~Handled(e)
      BY <1>1, <3>2 DEF Hand
    <3>3. QED BY <3>1, <3>2
  <2>3. Stuck(to)
    BY <2>2, IdleStuck DEF Stuck, Updating
  <2>4. UNCHANGED <<parses, row, swaps, emitted>> /\ t \in Tasks
    BY <1>1 DEF Hand, Tables, Tasks
  <2>5. QED BY <2>2, <2>3, <2>4, UnparsedGoes
<1>2. ASSUME NEW t \in Handlers, LookForPosition(t)
      PROVE  UnparsedInv'
  <2>1. PICK to : Goes(t, to) /\ (to = Idle \/ to.at = "position")
    <3>1. PICK h, existing, at :
            /\ at \in {"idle", "position"}
            /\ Goes(t, IF at = "idle" THEN Idle
                       ELSE [at |-> at, e |-> h.e, p |-> h.p, pool |-> h.pool,
                             existing |-> existing])
      BY <1>2, Zenon DEF LookForPosition
    <3>2. at = "idle" \/ at = "position"
      BY <3>1
    <3>3. QED BY <3>1, <3>2
  <2>2. Stuck(to)
    BY <2>1, IdleStuck DEF Stuck, Updating
  <2>3. UNCHANGED <<parses, row, swaps, emitted>> /\ t \in Tasks
    BY <1>2 DEF LookForPosition, Tables, Tasks
  <2>4. QED BY <2>1, <2>2, <2>3, UnparsedGoes
<1>3. ASSUME NEW t \in Handlers, SavePosition(t)
      PROVE  UnparsedInv'
  <2>1. Goes(t, Idle)
    BY <1>3 DEF SavePosition
  <2>2. UNCHANGED <<parses, row, swaps, emitted>> /\ t \in Tasks
    BY <1>3 DEF SavePosition, Tasks
  <2>3. QED BY <2>1, <2>2, IdleStuck, UnparsedGoes
<1>4. ASSUME NEW t \in Handlers,
             CountPositions(t) \/ UpdatePool(t) \/ EmitReserves(t) \/ SaveSwap(t)
               \/ UpdatePoolVolume(t)
      PROVE  UnparsedInv'
  <2>1. Stuck(task[t])
    BY <1>4 DEF UnparsedInv, Tasks
  <2>2. QED BY <1>4, <2>1 DEF Stuck, Updating, CountPositions, UpdatePool, EmitReserves,
                               SaveSwap, UpdatePoolVolume
<1>5. ASSUME NEW t \in CronJobs, StartSnapshot(t) \/ ReadAgain(t) \/ SaveSnapshot(t)
      PROVE  UnparsedInv'
  <2>1. PICK to : Goes(t, to) /\ to.at \in Valuing
    BY <1>5 DEF StartSnapshot, ReadAgain, SaveSnapshot, Valuing
  <2>2. Stuck(to)
    BY <2>1 DEF Stuck, Updating, Valuing
  <2>3. UNCHANGED <<parses, row, swaps, emitted>> /\ t \in Tasks
    BY <1>5 DEF StartSnapshot, ReadAgain, SaveSnapshot, Tables, Tasks
  <2>4. QED BY <2>1, <2>2, <2>3, UnparsedGoes
<1>6. ASSUME NEW t \in CronJobs, UpdateTvl(t)
      PROVE  UnparsedInv'
  <2>1. PICK h : h = task[t]
    OBVIOUS
  <2>2. PICK q, v : row' = [row EXCEPT ![q].tvlUsd = v]
    BY <1>6 DEF UpdateTvl
  <2>3. UNCHANGED <<parses, swaps, emitted>> /\ t \in Tasks
    BY <1>6 DEF UpdateTvl, Tasks
  <2>4. PICK to : Goes(t, to) /\ (to = Idle \/ to.at = "reading")
    BY <1>6 DEF UpdateTvl
  <2>5. Stuck(to)
    BY <2>4, IdleStuck DEF Stuck, Updating
  <2>6. ASSUME NEW p \in Pools
        PROVE  /\ row'[p].reserve0 = row[p].reserve0 /\ row'[p].reserve1 = row[p].reserve1
               /\ row'[p].feeRevenue24h = row[p].feeRevenue24h
               /\ row'[p].volume24hUsd = row[p].volume24hUsd
    <3>1. PICK r \in Rows : r = row[p]
      BY DEF RowsTyped
    <3>2. row'[p] = r \/ row'[p] = [r EXCEPT !.tvlUsd = v]
      BY <2>2, <3>1 DEF RowsTyped
    <3>3. QED BY <3>1, <3>2 DEF Rows
  <2>7. (\A p \in Pools : emitted[p] = None /\ Untouched(p))'
    BY <2>3, <2>6 DEF UnparsedInv, Untouched, Reserves, ReservesOf
  <2>8. (\A u \in Tasks : Stuck(task[u]))'
    <3>1. \A u \in Tasks : task'[u] = IF u = t THEN to ELSE task[u]
      BY <2>3, <2>4 DEF Goes, RowsTyped
    <3>2. ASSUME NEW u \in Tasks PROVE Stuck(task'[u])
      BY <2>5, <3>1 DEF UnparsedInv
    <3>3. QED BY <3>2 DEF Stuck
  <2>9. (swaps = {})'
    BY <2>3 DEF UnparsedInv
  <2>10. QED BY <2>7, <2>8, <2>9 DEF UnparsedInv
<1>7. ASSUME NEW t \in Tasks, TaskFails(t)
      PROVE  UnparsedInv'
  <2>1. Goes(t, Idle) /\ UNCHANGED <<parses, row, swaps, emitted>>
    BY <1>7 DEF TaskFails, Tables
  <2>2. QED BY <2>1, IdleStuck, UnparsedGoes
<1>8. CASE Restart
  <2>1. UNCHANGED <<parses, row, swaps, emitted>> /\ task' = [t \in Tasks |-> Idle]
    BY <1>8 DEF Restart, Tables
  <2>2. (\A u \in Tasks : Stuck(task[u]))'
    <3>1. \A u \in Tasks : Stuck(task'[u])
      BY <2>1, IdleStuck
    <3>2. QED BY <3>1 DEF Stuck
  <2>3. (\A p \in Pools : emitted[p] = None /\ Untouched(p))'
    BY <2>1 DEF UnparsedInv, Untouched, Reserves
  <2>4. (swaps = {})'
    BY <2>1 DEF UnparsedInv
  <2>5. QED BY <2>2, <2>3, <2>4 DEF UnparsedInv
<1>9. CASE UNCHANGED vars
  <2>1. UNCHANGED <<parses, row, swaps, emitted, task>>
    BY <1>9 DEF vars
  <2>2. (\A p \in Pools : emitted[p] = None /\ Untouched(p))'
    BY <2>1 DEF UnparsedInv, Untouched, Reserves
  <2>3. (\A u \in Tasks : Stuck(task[u]))'
    BY <2>1 DEF UnparsedInv, Stuck
  <2>4. (swaps = {})'
    BY <2>1 DEF UnparsedInv
  <2>5. QED BY <2>2, <2>3, <2>4 DEF UnparsedInv
<1>10. QED BY <1>1, <1>2, <1>3, <1>4, <1>5, <1>6, <1>7, <1>8, <1>9 DEF RowsNext

LEMMA UnparsedInit == RowsInit => UnparsedInv
<1> SUFFICES ASSUME RowsInit PROVE UnparsedInv
  OBVIOUS
<1>1. swaps = {} /\ \A t \in Tasks : Stuck(task[t])
  BY IdleStuck DEF RowsInit
<1>2. \A p \in Pools : emitted[p] = None /\ Untouched(p)
  BY DEF RowsInit, Untouched, Reserves
<1>3. QED BY <1>1, <1>2 DEF UnparsedInv

\* When no two tasks met and none failed, and all are done.  If columns read as
\* whole numbers, what was handed is in the rows: the reserves of a pool that has
\* not traded, the number of its providers and what its clients were told, the
\* positions, the swaps, and snapshots that value what they show.  If they do
\* not, none of it but the positions is.
THEOREM RowsAreExact == RowsSpec => []CalmRowsAreExact
<1>1. RowsInit => RowsTyped /\ CalmInv /\ UnparsedInv
  BY TypedInit, CalmInit, UnparsedInit
<1>2. RowsTyped /\ CalmInv /\ UnparsedInv /\ [RowsNext]_vars
        => RowsTyped' /\ CalmInv' /\ UnparsedInv'
  BY TypedStep, CalmStep, UnparsedStep
<1>3. CalmInv /\ UnparsedInv => CalmRowsAreExact
  <2> SUFFICES ASSUME CalmInv, UnparsedInv, calm, \A t \in Tasks : task[t] = Idle
               PROVE  CalmRowsAreExact
    BY DEF CalmRowsAreExact
  <2>1. CASE parses
    <3>1. Exact(Idle)
      BY <2>1 DEF CalmInv
    <3>2. QED BY <2>1, <3>1, ExactIdle DEF CalmRowsAreExact, Holders, Rowed, TradeHashes
  <2>2. CASE ~parses
    BY <2>2 DEF UnparsedInv, Untouched, CalmRowsAreExact
  <2>3. QED BY <2>1, <2>2
<1>4. QED BY <1>1, <1>2, <1>3, PTL DEF RowsSpec

-----------------------------------------------------------------------------
(* Boards. *)

\* The first of a descending order are the best.
LEMMA FirstIsBest ==
    ASSUME NEW S, IsFiniteSet(S), NEW key \in [S -> Int], NEW limit \in Nat
    PROVE  ShowsBest(First(Descending(S, key), limit), S, key, limit)
<1>1a. PICK n \in Nat : n = Cardinality(S)
  BY OrderDescends
<1>1. PICK order : n = Cardinality(S) /\ order = Descending(S, key)
  BY <1>1a
<1>2. order \in [1..n -> S] /\ IsInjective(order) /\ Descends(order, key)
  BY <1>1, OrderDescends
<1>3. PICK m \in Nat : m = IF n < limit THEN n ELSE limit
  BY Zenon
<1>4. PICK list : list = First(order, limit)
  OBVIOUS
<1>5. list = [i \in 1..m |-> order[i]] /\ m <= n
  BY <1>2, <1>3, <1>4 DEF First
<1>6. list \in [1..m -> S] /\ \A i \in 1..m : list[i] = order[i] /\ i \in 1..n
  BY <1>2, <1>5
<1>7. IsInjective(list) /\ Descends(list, key)
  BY <1>2, <1>6 DEF IsInjective, Descends
<1>8. PICK shown : shown = {list[i] : i \in DOMAIN list}
  OBVIOUS
<1>9. PICK one \in Int : one = 1
  OBVIOUS
<1>10. Cardinality(shown) = m
  <2>1. PICK N : N = 1..m
    OBVIOUS
  <2>2. IsFiniteSet(N) /\ Cardinality(N) = m
    <3>1. IsFiniteSet(one..m) /\ Cardinality(one..m) = IF one > m THEN 0 ELSE m - one + 1
      BY FS_Interval
    <3>2. QED BY <1>9, <2>1, <3>1
  <2>3. list \in Injection(N, shown)
    BY <1>6, <1>7, <1>8, <2>1 DEF Injection, IsInjective
  <2>4. list \in Surjection(N, shown)
    BY <1>6, <1>8, <2>1 DEF Surjection
  <2>5. QED BY <2>2, <2>3, <2>4, FS_Surjection
<1>11. \A o \in S : \E j \in 1..n : order[j] = o
  <2>1. IsFiniteSet(1..n) /\ Cardinality(1..n) = n
    <3>1. IsFiniteSet(one..n) /\ Cardinality(one..n) = IF one > n THEN 0 ELSE n - one + 1
      BY FS_Interval
    <3>2. QED BY <1>9, <3>1
  <2>2. order \in Injection(1..n, S)
    BY <1>2 DEF Injection, IsInjective
  <2>3. order \in Surjection(1..n, S)
    BY <1>1, <2>1, <2>2, FS_Injection
  <2>4. QED BY <2>3 DEF Surjection
<1>12. ASSUME NEW o \in S \ shown, NEW s \in shown
       PROVE  key[o] <= key[s]
  <2>1. PICK j \in 1..n : order[j] = o
    BY <1>11
  <2>2. PICK i \in 1..m : s = order[i] /\ i \in 1..n
    BY <1>6, <1>8
  <2>3. j > m
    <3>1. ASSUME ~(j > m) PROVE FALSE
      <4>1. j \in 1..m
        BY <3>1
      <4>2. QED BY <1>6, <1>8, <2>1, <4>1
    <3>2. QED BY <3>1
  <2>4. i < j
    BY <2>3
  <2>5. key[order[i]] >= key[order[j]]
    BY <1>2, <2>2, <2>4 DEF Descends
  <2>6. key[o] \in Int /\ key[s] \in Int
    BY <1>2, <2>1, <2>2
  <2>7. QED BY <2>1, <2>2, <2>5, <2>6
<1>13. shown \subseteq S
  BY <1>6, <1>8
<1>14. ShowsBest(list, S, key, limit)
  <2>1. Cardinality(shown) = IF Cardinality(S) < limit THEN Cardinality(S) ELSE limit
    BY <1>1, <1>3, <1>10
  <2>2. QED BY <1>7, <1>8, <1>12, <1>13, <2>1 DEF ShowsBest
<1>15. QED BY <1>1, <1>4, <1>14

\* The boards of value, volume and fees show the best, whatever the rows.
THEOREM BoardAlwaysBest ==
    ASSUME NEW S, IsFiniteSet(S), NEW r \in [S -> Rows], NEW limit \in Nat,
           NEW metric \in {"tvl", "volume", "fees"}
    PROVE  ShowsBest([i \in DOMAIN TopPools(r, metric, limit) |->
                         TopPools(r, metric, limit)[i].poolId], DOMAIN r,
                     [p \in DOMAIN r |-> MetricValue(r[p], metric)], limit)
<1>1. \A p \in S : /\ r[p].tvlUsd \in Int /\ r[p].volume24hUsd \in Int
                    /\ r[p].feeRevenue24h \in Int
  BY DEF Rows
<1>2. PICK column, value : /\ column = [p \in S |-> OrderColumn(r[p], metric)]
                           /\ value = [p \in S |-> MetricValue(r[p], metric)]
  OBVIOUS
<1>3. column = value /\ value \in [S -> Int]
  BY <1>1, <1>2 DEF OrderColumn, MetricValue
<1>4. PICK top : top = First(Descending(S, column), limit)
  OBVIOUS
<1>5. ShowsBest(top, S, value, limit)
  BY <1>3, <1>4, FirstIsBest
<1>6. [i \in DOMAIN TopPools(r, metric, limit) |-> TopPools(r, metric, limit)[i].poolId] = top
  <2>1. TopPools(r, metric, limit)
          = [i \in DOMAIN top |-> [poolId |-> top[i], value |-> MetricValue(r[top[i]], metric)]]
    BY <1>2, <1>4 DEF TopPools
  <2>2. top = [i \in DOMAIN top |-> top[i]]
    BY <1>4 DEF First
  <2>3. QED BY <2>1, <2>2
<1>7. QED BY <1>2, <1>5, <1>6

LEMMA BoardsBest == BoardsShowBest
<1>1. PICK S : S = {"a", "b", "c"}
  OBVIOUS
<1>2. IsFiniteSet(S)
  <2>1. IsFiniteSet({}) /\ {} \cup {"a"} = {"a"} /\ {"a"} \cup {"b"} = {"a", "b"}
        /\ {"a", "b"} \cup {"c"} = {"a", "b", "c"}
    BY FS_EmptySet
  <2>2. IsFiniteSet({"a"})
    BY <2>1, FS_AddElement
  <2>3. IsFiniteSet({"a", "b"})
    BY <2>1, <2>2, FS_AddElement
  <2>4. QED BY <1>1, <2>1, <2>3, FS_AddElement
<1>3. PICK kinds : kinds = [reserve0 : {1}, reserve1 : {1}, tvlUsd : 0..2, volume24hUsd : 0..1,
                            feeRevenue24h : 0..1, lpCount : {0}]
  OBVIOUS
<1>4. kinds \subseteq Rows
  BY <1>3 DEF Rows
<1>5. ASSUME NEW r \in [S -> kinds], NEW limit \in 0..4,
             NEW metric \in {"tvl", "volume", "fees"}
      PROVE  ShowsBest([i \in DOMAIN TopPools(r, metric, limit) |->
                           TopPools(r, metric, limit)[i].poolId], DOMAIN r,
                       [p \in DOMAIN r |-> MetricValue(r[p], metric)], limit)
  <2>1. r \in [S -> Rows] /\ limit \in Nat
    BY <1>4
  <2>2. QED BY <1>2, <2>1, BoardAlwaysBest
<1>6. QED BY <1>1, <1>3, <1>5 DEF BoardsShowBest

\* The board of providers shows those who put in most, whatever the positions.
LEMMA LpsBest ==
    ASSUME NEW lps \in [Wallets \X Pools -> Positions \cup {None}], NEW limit \in Nat
    PROVE  ShowsBest(TopLps(lps, limit), Providing(lps), Totals(lps), limit)
<1>1. IsFiniteSet(Providing(lps))
  <2>1. Providing(lps) \in SUBSET Wallets
    BY DEF Providing
  <2>2. QED BY <2>1, PoolRowsAssumption, FS_Subset
<1>2. \A w \in Wallets : TotalValue(w, lps) \in Int
  <2>1. TAKE w \in Wallets
  <2>2. PICK held : held = {p \in Pools : lps[<<w, p>>] # None}
    OBVIOUS
  <2>3. PICK f : f = [p \in held |-> lps[<<w, p>>].token0Deposited
                                      + lps[<<w, p>>].token1Deposited]
    OBVIOUS
  <2>4. held \in SUBSET Pools
    BY <2>2
  <2>5. IsFiniteSet(held)
    BY <2>4, PoolRowsAssumption, FS_Subset
  <2>6. \A p \in held : f[p] \in Int
    <3>1. TAKE p \in held
    <3>2. lps[<<w, p>>] \in Positions
      BY <2>2
    <3>3. QED BY <2>3, <3>2 DEF Positions
  <2>7. SumFunctionOnSet(f, held) \in Int
    BY <2>5, <2>6, SumAt
  <2>8. QED BY <2>2, <2>3, <2>7 DEF TotalValue
<1>3. Totals(lps) \in [Providing(lps) -> Int]
  BY <1>2 DEF Totals, Providing
<1>4. QED BY <1>1, <1>3, FirstIsBest DEF TopLps

LEMMA ProvidersBest == ProvidersShowBest
<1>1. PICK some : some = [lpTokenAmount : {1}, token0Deposited : -1..1, token1Deposited : {1}]
  OBVIOUS
<1>2. some \subseteq Positions
  BY <1>1 DEF Positions
<1>3. ASSUME NEW lps \in [Wallets \X Pools -> some \cup {None}], NEW limit \in 0..3
      PROVE  ShowsBest(TopLps(lps, limit), Providing(lps), Totals(lps), limit)
  <2>1. lps \in [Wallets \X Pools -> Positions \cup {None}]
    BY <1>2
  <2>2. limit \in Nat
    OBVIOUS
  <2>3. QED BY <2>1, <2>2, LpsBest
<1>4. QED BY <1>1, <1>3 DEF ProvidersShowBest

\* The newest swaps of a pool.
LEMMA NewestShown ==
    ASSUME IsFiniteSet(swaps), restarts \in Nat, \A s \in swaps : s.time \in 0..restarts,
           NEW p, NEW take \in Nat,
           NEW all, all = {s \in swaps : s.poolId = p}
    PROVE  ShowsBest(SwapHistory(swaps, p, 0, restarts, take), all, [s \in all |-> s.time], take)
<1>1. all = {s \in swaps : s.poolId = p /\ s.time \in 0..restarts}
  OBVIOUS
<1>2. IsFiniteSet(all)
  <2>1. all \in SUBSET swaps
    OBVIOUS
  <2>2. QED BY <2>1, FS_Subset
<1>3. PICK key : key = [s \in all |-> s.time]
  OBVIOUS
<1>4. key \in [all -> Int]
  BY <1>3
<1>5. SwapHistory(swaps, p, 0, restarts, take) = First(Descending(all, key), take)
  BY <1>1, <1>3 DEF SwapHistory
<1>6. ShowsBest(First(Descending(all, key), take), all, key, take)
  BY <1>2, <1>4, FirstIsBest
<1>7. QED BY <1>3, <1>5, <1>6

-----------------------------------------------------------------------------
(* A resampled history. *)

\* Where the bucket of each snapshot starts.
LEMMA BucketsStart ==
    ASSUME NEW n \in Nat, NEW times \in [1..n -> Nat], NEW interval \in Nat
    PROVE  /\ BucketStarts(times, interval) \in [1..n -> Nat]
           /\ \A i \in 1..n :
                 BucketStarts(times, interval)[i]
                   = IF i = 1 THEN times[1]
                     ELSE IF times[i] < BucketStarts(times, interval)[i - 1] + interval
                     THEN BucketStarts(times, interval)[i - 1] ELSE times[i]
<1>1. PICK S : S = 1..n
  OBVIOUS
<1>2. PICK Body : Body = [f \in [S -> Nat] |->
                            [i \in S |->
                               IF i = 1 THEN times[1]
                               ELSE IF times[i] < f[i - 1] + interval THEN f[i - 1] ELSE times[i]]]
  OBVIOUS
<1>3. PICK rank : rank = [i \in S |-> i]
  OBVIOUS
<1>4. \A f \in [S -> Nat], i \in S :
         /\ Body[f][i] = IF i = 1 THEN times[1]
                         ELSE IF times[i] < f[i - 1] + interval THEN f[i - 1] ELSE times[i]
         /\ Body[f][i] \in Nat
         /\ i # 1 => i - 1 \in S /\ rank[i - 1] < rank[i]
  BY <1>1, <1>2, <1>3
<1>5. IsRecursion(S, Nat, rank, Body)
  <2>1. rank \in [S -> Nat]
    BY <1>1, <1>3
  <2>2. Body \in [[S -> Nat] -> [S -> Nat]]
    BY <1>1, <1>2, <1>4
  <2>3. ASSUME NEW f \in [S -> Nat], NEW h \in [S -> Nat], NEW i \in S,
               \A z \in S : rank[z] < rank[i] => f[z] = h[z]
        PROVE  Body[f][i] = Body[h][i]
    <3>1. CASE i = 1
      <4>1. Body[f][i] = times[1] /\ Body[h][i] = times[1]
        BY <1>4, <3>1
      <4>2. QED BY <4>1
    <3>2. CASE i # 1
      <4>1. f[i - 1] = h[i - 1]
        BY <1>4, <2>3, <3>2
      <4>2. /\ Body[f][i] = IF times[i] < f[i - 1] + interval THEN f[i - 1] ELSE times[i]
            /\ Body[h][i] = IF times[i] < h[i - 1] + interval THEN h[i - 1] ELSE times[i]
        BY <1>4, <3>2
      <4>3. QED BY <4>1, <4>2, Zenon
    <3>3. QED BY <3>1, <3>2
  <2>4. QED BY <2>1, <2>2, <2>3 DEF IsRecursion
<1>6. PICK f \in [S -> Nat] : f = Body[f]
  <2>1. Nat # {}
    OBVIOUS
  <2>2. QED BY <1>5, <2>1, RankedRecursion
<1> DEFINE Is(start) ==
      start = [i \in DOMAIN times |->
                 IF i = 1 THEN times[1]
                 ELSE IF times[i] < start[i - 1] + interval THEN start[i - 1] ELSE times[i]]
<1>7. Is(f)
  <2>1. Body[f] = [i \in S |-> IF i = 1 THEN times[1]
                               ELSE IF times[i] < f[i - 1] + interval THEN f[i - 1] ELSE times[i]]
    BY <1>2, Zenon
  <2>2. DOMAIN times = S
    BY <1>1
  <2>3. QED BY <1>6, <2>1, <2>2, Zenon
<1>8. PICK start : Is(start) /\ start = BucketStarts(times, interval)
  <2>1. BucketStarts(times, interval) = CHOOSE start : Is(start)
    BY Zenon DEF BucketStarts
  <2>2. Is(CHOOSE start : Is(start))
    <3> HIDE DEF Is
    <3>1. QED BY <1>7
  <2>3. QED BY <2>1, <2>2
<1>9. /\ DOMAIN start = 1..n /\ start = [i \in 1..n |-> start[i]]
      /\ \A i \in 1..n :
            start[i] = IF i = 1 THEN times[1]
                       ELSE IF times[i] < start[i - 1] + interval THEN start[i - 1] ELSE times[i]
  BY <1>8
<1>10. \A i \in Nat : i \in 1..n => start[i] \in Nat
  <2> DEFINE N == {i \in Nat : i \in 1..n => start[i] \in Nat}
  <2>1. 0 \in N
    OBVIOUS
  <2>2. ASSUME NEW i \in Nat, i \in N PROVE i + 1 \in N
    <3> SUFFICES ASSUME i + 1 \in 1..n PROVE start[i + 1] \in Nat
      OBVIOUS
    <3>1. /\ times[1] \in Nat /\ times[i + 1] \in Nat
          /\ i + 1 # 1 => i \in 1..n /\ (i + 1) - 1 = i
      OBVIOUS
    <3>2. QED BY <1>9, <2>2, <3>1
  <2>3. Nat \subseteq N
    <3>1. \A i \in Nat : i \in N => i + 1 \in N
      BY <2>2
    <3> HIDE DEF N
    <3>2. QED BY <2>1, <3>1, InductiveSet
  <2>4. QED BY <2>3
<1>11. start \in [1..n -> Nat]
  BY <1>9, <1>10
<1>12. QED BY <1>8, <1>9, <1>11

\* A history thinned out keeps a snapshot for each one it leaves out, however long.
THEOREM HistoryAlwaysKept ==
    ASSUME NEW n \in Nat, NEW times \in [1..n -> Nat], NEW interval \in Nat, interval > 0,
           \A i, j \in 1..n : i < j => times[i] <= times[j],
           NEW kept, kept = ResampleSnapshots(times, interval)
    PROVE  /\ \A i \in 1..n : \E k \in kept : i <= k /\ times[k] < times[i] + interval
           /\ \A i, j, k \in kept : i < j /\ j < k => times[i] + interval <= times[k]
<1>1. PICK start \in [1..n -> Nat] :
        /\ start = BucketStarts(times, interval)
        /\ \A i \in 1..n :
              start[i] = IF i = 1 THEN times[1]
                         ELSE IF times[i] < start[i - 1] + interval THEN start[i - 1] ELSE times[i]
  <2>1. /\ BucketStarts(times, interval) \in [1..n -> Nat]
        /\ \A i \in 1..n :
              BucketStarts(times, interval)[i]
                = IF i = 1 THEN times[1]
                  ELSE IF times[i] < BucketStarts(times, interval)[i - 1] + interval
                  THEN BucketStarts(times, interval)[i - 1] ELSE times[i]
    BY BucketsStart, ZenonT(60)
  <2>2. QED BY <2>1, Zenon
<1>2. /\ kept \subseteq 1..n
      /\ \A i \in 1..n : i \in kept <=> (i = n \/ times[i + 1] >= start[i] + interval)
  <2>1. DOMAIN times = 1..n /\ Len(times) = n
    OBVIOUS
  <2>2. kept = {i \in 1..n : i = n \/ times[i + 1] >= start[i] + interval}
    BY <1>1, <2>1 DEF ResampleSnapshots
  <2>3. QED BY <2>2
\* From one place to the next.
<1>3. ASSUME NEW i \in 1..n, i < n
      PROVE  /\ i + 1 \in 1..n /\ times[i] \in Nat /\ times[i + 1] \in Nat
             /\ start[i] \in Nat /\ start[i + 1] \in Nat
             /\ i \in kept => start[i + 1] = times[i + 1] /\ times[i + 1] >= start[i] + interval
             /\ i \notin kept => start[i + 1] = start[i] /\ times[i + 1] < start[i] + interval
  <2>1. i + 1 \in 1..n /\ i + 1 # 1 /\ (i + 1) - 1 = i
    BY <1>3
  <2>2. start[i + 1] = IF times[i + 1] < start[i] + interval THEN start[i] ELSE times[i + 1]
    BY <1>1, <2>1
  <2>3. times[i + 1] \in Nat /\ start[i] \in Nat /\ start[i + 1] \in Nat
    BY <1>1, <2>1
  <2>4. QED BY <1>2, <1>3, <2>1, <2>2, <2>3
<1>4. \A i \in Nat : i \in 1..n => start[i] <= times[i] /\ times[i] < start[i] + interval
  <2> DEFINE N == {i \in Nat : i \in 1..n => start[i] <= times[i] /\ times[i] < start[i] + interval}
  <2>1. 0 \in N
    OBVIOUS
  <2>2. ASSUME NEW i \in Nat, i \in N PROVE i + 1 \in N
    <3> SUFFICES ASSUME i + 1 \in 1..n
                 PROVE  start[i + 1] <= times[i + 1] /\ times[i + 1] < start[i + 1] + interval
      OBVIOUS
    <3>1. CASE i = 0
      BY <1>1, <3>1
    <3>2. CASE i # 0
      <4>1. i \in 1..n /\ i < n /\ start[i] <= times[i] /\ times[i] <= times[i + 1]
        BY <2>2, <3>2
      <4>2. PICK a \in Nat, b \in Nat, x \in Nat, y \in Nat :
               /\ a = start[i] /\ b = start[i + 1] /\ x = times[i] /\ y = times[i + 1]
               /\ (b = y /\ y >= a + interval) \/ (b = a /\ y < a + interval)
        BY <1>3, <4>1
      <4>3. a <= x /\ x <= y
        BY <4>1, <4>2
      <4>4. b <= y /\ y < b + interval
        BY <4>2, <4>3
      <4>5. QED BY <4>2, <4>4
    <3>3. QED BY <3>1, <3>2
  <2>3. Nat \subseteq N
    <3>1. \A i \in Nat : i \in N => i + 1 \in N
      BY <2>2
    <3> HIDE DEF N
    <3>2. QED BY <2>1, <3>1, InductiveSet
  <2>4. QED BY <2>3
\* The last of a bucket is kept, and buckets do not go back.
<1>5. \A d \in Nat : d < n => \E k \in kept : n - d <= k /\ start[k] = start[n - d]
  <2> DEFINE N == {d \in Nat : d < n => \E k \in kept : n - d <= k /\ start[k] = start[n - d]}
  <2>1. 0 \in N
    BY <1>2
  <2>2. ASSUME NEW d \in Nat, d \in N PROVE d + 1 \in N
    <3> SUFFICES ASSUME d + 1 < n
                 PROVE  \E k \in kept : n - (d + 1) <= k /\ start[k] = start[n - (d + 1)]
      OBVIOUS
    <3>1. PICK i \in 1..n : i = n - (d + 1) /\ i < n /\ i + 1 = n - d
      OBVIOUS
    <3>2. CASE i \in kept
      BY <3>1, <3>2
    <3>3. CASE i \notin kept
      <4>1. PICK k \in kept : n - d <= k /\ start[k] = start[n - d]
        BY <2>2
      <4>2. start[i + 1] = start[i]
        BY <1>3, <3>1, <3>3
      <4>3. k \in 1..n /\ i <= k
        BY <1>2, <3>1, <4>1
      <4>4. start[k] = start[i]
        BY <3>1, <4>1, <4>2
      <4>5. QED BY <3>1, <4>3, <4>4
    <3>4. QED BY <3>2, <3>3
  <2>3. Nat \subseteq N
    <3>1. \A d \in Nat : d \in N => d + 1 \in N
      BY <2>2
    <3> HIDE DEF N
    <3>2. QED BY <2>1, <3>1, InductiveSet
  <2>4. QED BY <2>3
<1>6. \A d \in Nat : \A i \in 1..n : i + d <= n => start[i] <= start[i + d]
  <2> DEFINE N == {d \in Nat : \A i \in 1..n : i + d <= n => start[i] <= start[i + d]}
  <2>1. 0 \in N
    OBVIOUS
  <2>2. ASSUME NEW d \in Nat, d \in N PROVE d + 1 \in N
    <3> SUFFICES ASSUME NEW i \in 1..n, i + (d + 1) <= n PROVE start[i] <= start[i + (d + 1)]
      OBVIOUS
    <3>1. PICK j \in 1..n : j = i + d /\ j < n /\ j + 1 = i + (d + 1)
      OBVIOUS
    <3>2. start[i] <= start[j]
      BY <2>2, <3>1
    <3>3. start[j] <= start[j + 1]
      <4>1. PICK a \in Nat, b \in Nat, y \in Nat :
               /\ a = start[j] /\ b = start[j + 1]
               /\ (b = y /\ y >= a + interval) \/ b = a
        BY <1>3, <3>1
      <4>2. a <= b
        BY <4>1
      <4>3. QED BY <4>1, <4>2
    <3>4. start[i] \in Nat /\ start[j] \in Nat /\ start[j + 1] \in Nat
      BY <1>3, <3>1
    <3>5. start[i] <= start[j + 1]
      BY <3>2, <3>3, <3>4
    <3>6. QED BY <3>1, <3>5
  <2>3. Nat \subseteq N
    <3>1. \A d \in Nat : d \in N => d + 1 \in N
      BY <2>2
    <3> HIDE DEF N
    <3>2. QED BY <2>1, <3>1, InductiveSet
  <2>4. QED BY <2>3
<1>7. ASSUME NEW i \in 1..n
      PROVE  \E k \in kept : i <= k /\ times[k] < times[i] + interval
  <2>1. n - i \in Nat /\ n - i < n /\ n - (n - i) = i
    OBVIOUS
  <2>2. PICK k \in kept : n - (n - i) <= k /\ start[k] = start[n - (n - i)]
    BY <1>5, <2>1
  <2>3. i <= k /\ start[k] = start[i] /\ k \in 1..n
    BY <1>2, <2>1, <2>2
  <2>4. start[i] <= times[i] /\ times[k] < start[k] + interval
    BY <1>4, <2>3
  <2>5. start[i] \in Nat /\ times[i] \in Nat /\ times[k] \in Nat
    BY <2>3
  <2>6. times[k] < times[i] + interval
    BY <2>3, <2>4, <2>5
  <2>7. QED BY <2>3, <2>6
<1>8. ASSUME NEW i \in kept, NEW j \in kept, NEW k \in kept, i < j, j < k
      PROVE  times[i] + interval <= times[k]
  <2>1. i \in 1..n /\ j \in 1..n /\ k \in 1..n /\ i < n /\ j < n
    BY <1>2, <1>8
  <2>2. start[i + 1] = times[i + 1] /\ times[j + 1] >= start[j] + interval
    BY <1>3, <2>1
  <2>3. start[i + 1] <= start[j]
    <3>1. PICK d \in Nat : d = j - (i + 1)
      BY <1>8, <2>1
    <3>2. PICK k1 \in 1..n : k1 = i + 1 /\ k1 + d = j /\ k1 + d <= n
      BY <2>1, <3>1
    <3>3. start[k1] <= start[k1 + d]
      BY <1>6, <3>2
    <3>4. QED BY <3>2, <3>3
  <2>4. times[i] <= times[i + 1]
    BY <1>3, <2>1
  <2>5. times[j + 1] <= times[k]
    <3>1. j + 1 = k \/ j + 1 < k
      BY <1>8, <2>1
    <3>2. j + 1 \in 1..n
      BY <2>1
    <3>3. QED BY <2>1, <3>1, <3>2
  <2>6. /\ times[i] \in Nat /\ times[i + 1] \in Nat /\ times[j + 1] \in Nat
        /\ times[k] \in Nat /\ start[j] \in Nat
    BY <1>3, <2>1
  <2>7. PICK a \in Nat, b \in Nat, c \in Nat, x \in Nat, y \in Nat :
           /\ a = times[i] /\ b = times[i + 1] /\ c = times[j + 1] /\ x = times[k]
           /\ y = start[j]
    BY <2>6
  <2>8. c >= y + interval /\ b <= y /\ a <= b /\ c <= x
    BY <2>2, <2>3, <2>4, <2>5, <2>7
  <2>9. a + interval <= x
    BY <2>8
  <2>10. QED BY <2>7, <2>9
<1>9. QED BY <1>7, <1>8

LEMMA HistoriesKeepUp == HistoryKeepsUp
<1>1. ASSUME NEW n \in 0..4, NEW times \in [1..n -> 0..5], NEW interval \in 1..4,
             \A i, j \in 1..n : i < j => times[i] <= times[j],
             NEW kept, kept = ResampleSnapshots(times, interval)
      PROVE  /\ \A i \in 1..n : \E k \in kept : i <= k /\ times[k] < times[i] + interval
             /\ \A i, j, k \in kept : i < j /\ j < k => times[i] + interval <= times[k]
  <2>1. n \in Nat /\ times \in [1..n -> Nat] /\ interval \in Nat /\ interval > 0
    OBVIOUS
  <2>2. QED BY <1>1, <2>1, HistoryAlwaysKept
<1>2. QED BY <1>1 DEF HistoryKeepsUp

-----------------------------------------------------------------------------
(* The books.  For every trade of the log there is the swap that its handler  *)
(* wrote, until another with the same key was written over it; as long as     *)
(* nothing interferes the rows add those swaps up.                            *)

SwapOk(s) ==
    /\ s.poolId \in Pools
    /\ s.amountIn \in Nat /\ s.feeAmount \in Nat
    /\ s.amountInUsd \in Nat /\ s.amountOutUsd \in Nat

SwapsTyped == IsFiniteSet(swaps) /\ \A s \in swaps : SwapOk(s) /\ s.time \in 0..restarts

Half(s) == (s.amountInUsd + s.amountOutUsd) \div 2

\* The trades whose swap is written, and those that the rows count.
Written(h) == IF h.at = "swap" THEN Trades \ {Len(log)} ELSE Trades

Added(h) == IF h.at \in Trading THEN Trades \ {Len(log)} ELSE Trades

AddedTo(p, h) == {i \in Added(h) : PoolOf(log[i]) = p}

Fees(b, D) == SumFunctionOnSet([i \in D |-> b[i].feeAmount], D)

Volumes(b, D) == SumFunctionOnSet([i \in D |-> Half(b[i])], D)

\* b has the swap of each trade, while the one task at work holds h.
Ledger(b, h) ==
    /\ \A i \in Written(h) :
          /\ SwapOk(b[i])
          /\ b[i].txHash = log[i].txHash /\ b[i].poolId = PoolOf(log[i])
          /\ b[i].amountIn = log[i].data.amountA
    /\ \A s \in swaps : \E i \in Written(h) : s = b[i]
    /\ \A p \in Pools :
          /\ row[p].feeRevenue24h = Seeded[p].feeRevenue24h + Fees(b, AddedTo(p, h))
          /\ row[p].volume24hUsd = Seeded[p].volume24hUsd + Volumes(b, AddedTo(p, h))
    /\ h.at \in Trading =>
          /\ Len(log) \in Trades /\ h.e = log[Len(log)]
          /\ h.pool.feeRevenue24h = row[h.p].feeRevenue24h
          /\ h.pool.volume24hUsd = row[h.p].volume24hUsd
    /\ h.at = "volume" =>
          /\ b[Len(log)].feeAmount = SwapFee(h.e, h.p)
          /\ Half(b[Len(log)]) = (UsdIn(h.e, h.p, h.pool) + UsdOut(h.e, h.p, h.pool)) \div 2

Booked(h) == \E b : Ledger(b, h)

BooksInv ==
    calm /\ parses =>
        /\ \A t \in Tasks : task[t] # Idle => Booked(task[t])
        /\ (\A t \in Tasks : task[t] = Idle) => Booked(Idle)

\* What a handler writes of a trade.
LEMMA SwapRowOk ==
    ASSUME NEW e \in Events, IsTrade(e), NEW p \in Pools, NEW r \in Rows,
           NEW s, s = SwapRow(e, p, r)
    PROVE  /\ SwapOk(s) /\ s.time = restarts
           /\ s.txHash = e.txHash /\ s.poolId = p /\ s.amountIn = e.data.amountA
           /\ s.feeAmount = SwapFee(e, p)
           /\ Half(s) = (UsdIn(e, p, r) + UsdOut(e, p, r)) \div 2
<1>1. e.data.amountA \in Nat /\ e.data.amountB \in Nat /\ Listing[p].feeBps \in Nat
  BY AmountsPositive, PoolRowsAssumption
<1>2. UsdIn(e, p, r) \in Nat /\ UsdOut(e, p, r) \in Nat
  BY <1>1, ValueIsNatural DEF UsdIn, UsdOut
<1>3. SwapFee(e, p) \in Nat
  <2>1. e.data.amountA * Listing[p].feeBps \in Nat
    BY <1>1
  <2>2. \A n \in Nat : n \div 10000 \in Nat
    OBVIOUS
  <2>3. QED BY <2>1, <2>2 DEF SwapFee
<1>4. /\ s.time = restarts /\ s.txHash = e.txHash /\ s.poolId = p
      /\ s.amountIn = e.data.amountA /\ s.feeAmount = SwapFee(e, p)
      /\ s.amountInUsd = UsdIn(e, p, r) /\ s.amountOutUsd = UsdOut(e, p, r)
  BY DEF SwapRow
<1>5. QED BY <1>1, <1>2, <1>3, <1>4 DEF SwapOk, Half

\* The table of swaps stays typed.
LEMMA SwapsKept ==
    ASSUME SwapsTyped, swaps' = swaps, restarts \in Nat, restarts' \in Nat,
           restarts <= restarts'
    PROVE  SwapsTyped'
<1>1. \A n \in 0..restarts : n \in 0..restarts'
  OBVIOUS
<1>2. \A s \in swaps : SwapOk(s)' /\ s.time \in 0..restarts'
  BY <1>1 DEF SwapsTyped, SwapOk
<1>3. QED BY <1>2 DEF SwapsTyped

LEMMA SwapSaved ==
    ASSUME RowsTyped, SwapsTyped, NEW t \in Tasks, SaveSwap(t)
    PROVE  SwapsTyped'
<1>1. PICK h \in Work \cup {Idle} : h = task[t] /\ WorkOk(h)
  BY DEF RowsTyped
<1>2. h.at = "swap" /\ h.e \in Events /\ h.p \in Pools /\ h.pool \in Rows /\ IsTrade(h.e)
  BY <1>1, Holds DEF SaveSwap, WorkOk, Trading
<1>3. PICK new : new = SwapRow(h.e, h.p, h.pool)
  OBVIOUS
<1>4. SwapOk(new) /\ new.time = restarts
  BY <1>2, <1>3, SwapRowOk
<1>5. swaps' = Saved(swaps, new) /\ restarts' = restarts
  BY <1>1, <1>3 DEF SaveSwap, History
<1>6. restarts \in 0..restarts
  BY DEF RowsTyped
<1>7. IsFiniteSet(swaps')
  <2>1. PICK rest : /\ rest = {o \in swaps : <<o.time, o.txHash>> # <<new.time, new.txHash>>}
                    /\ rest \in SUBSET swaps
    OBVIOUS
  <2>2. swaps' = rest \cup {new}
    BY <1>5, <2>1 DEF Saved
  <2>3. QED BY <2>1, <2>2, FS_Subset, FS_AddElement DEF SwapsTyped
<1>8. \A s \in swaps' : SwapOk(s) /\ s.time \in 0..restarts
  BY <1>4, <1>5, <1>6 DEF Saved, SwapsTyped
<1>9. QED BY <1>5, <1>7, <1>8 DEF SwapsTyped, SwapOk

LEMMA SwapsStep == RowsTyped /\ SwapsTyped /\ [RowsNext]_vars => SwapsTyped'
<1> SUFFICES ASSUME RowsTyped, SwapsTyped, [RowsNext]_vars PROVE SwapsTyped'
  OBVIOUS
<1>1. restarts \in Nat /\ restarts <= restarts
  BY DEF RowsTyped
<1>2. ASSUME NEW t \in Handlers, NEW e \in Events, Hand(t, e)
      PROVE  SwapsTyped'
  BY <1>1, <1>2, SwapsKept DEF Hand, Tables
<1>3. ASSUME NEW t \in Handlers,
             \/ LookForPosition(t) \/ SavePosition(t) \/ CountPositions(t)
             \/ UpdatePool(t) \/ EmitReserves(t) \/ UpdatePoolVolume(t)
      PROVE  SwapsTyped'
  <2>1. swaps' = swaps /\ restarts' = restarts
    BY <1>3 DEF LookForPosition, SavePosition, CountPositions, UpdatePool, EmitReserves,
                UpdatePoolVolume, Tables, History
  <2>2. QED BY <1>1, <2>1, SwapsKept, SMTT(30)
<1>4. ASSUME NEW t \in CronJobs,
             StartSnapshot(t) \/ ReadAgain(t) \/ SaveSnapshot(t) \/ UpdateTvl(t)
      PROVE  SwapsTyped'
  <2>1. swaps' = swaps /\ restarts' = restarts
    BY <1>4 DEF StartSnapshot, ReadAgain, SaveSnapshot, UpdateTvl, Tables, History
  <2>2. QED BY <1>1, <2>1, SwapsKept
<1>5. ASSUME NEW t \in Tasks, TaskFails(t)
      PROVE  SwapsTyped'
  BY <1>1, <1>5, SwapsKept DEF TaskFails, Tables
<1>6. CASE Restart
  <2>1. swaps' = swaps /\ restarts' = restarts + 1
    BY <1>6 DEF Restart, Tables
  <2>2. restarts + 1 \in Nat /\ restarts <= restarts + 1
    BY <1>1
  <2>3. QED BY <1>1, <2>1, <2>2, SwapsKept
<1>7. CASE UNCHANGED vars
  BY <1>1, <1>7, SwapsKept DEF vars
<1>8. QED BY <1>2, <1>3, <1>4, <1>5, <1>6, <1>7, TasksApart, SwapSaved DEF RowsNext

\* Sums over trades.
LEMMA FeesOneMore ==
    ASSUME NEW D, IsFiniteSet(D), NEW n, n \notin D,
           NEW b, \A i \in D \cup {n} : SwapOk(b[i])
    PROVE  /\ Fees(b, D) \in Int /\ Volumes(b, D) \in Int
           /\ Fees(b, D \cup {n}) = Fees(b, D) + b[n].feeAmount
           /\ Volumes(b, D \cup {n}) = Volumes(b, D) + Half(b[n])
<1>1. PICK E : E = D \cup {n}
  OBVIOUS
<1>2. IsFiniteSet(E) /\ n \in E /\ E \ {n} = D
  BY <1>1, FS_AddElement
<1>3. \A i \in E : b[i].feeAmount \in Int /\ Half(b[i]) \in Int
  <2>1. \A x \in Nat, y \in Nat : (x + y) \div 2 \in Int
    OBVIOUS
  <2>2. QED BY <1>1, <2>1 DEF SwapOk, Half
<1>4. PICK f : f = [i \in E |-> b[i].feeAmount]
  OBVIOUS
<1>5. PICK g : g = [i \in D |-> b[i].feeAmount]
  OBVIOUS
<1>6. /\ \A i \in E : f[i] \in Int
      /\ \A i \in D : f[i] \in Int /\ g[i] = f[i] /\ g[i] \in Int
      /\ f[n] = b[n].feeAmount
  BY <1>1, <1>3, <1>4, <1>5
<1>7. /\ SumFunctionOnSet(f, E) = f[n] + SumFunctionOnSet(f, D)
      /\ SumFunctionOnSet(g, D) = SumFunctionOnSet(f, D)
      /\ SumFunctionOnSet(g, D) \in Int
  <2>1. SumFunctionOnSet(f, E) = f[n] + SumFunctionOnSet(f, E \ {n})
    BY <1>2, <1>6, SumWithout
  <2>2. SumFunctionOnSet(g, D) = SumFunctionOnSet(f, D)
    BY <1>6, SumSame
  <2>3. SumFunctionOnSet(g, D) \in Int
    BY <1>6, SumAt
  <2>4. QED BY <1>2, <2>1, <2>2, <2>3
<1>8. Fees(b, D) \in Int /\ Fees(b, E) = Fees(b, D) + b[n].feeAmount
  BY <1>2, <1>3, <1>4, <1>5, <1>6, <1>7 DEF Fees
<1>9. PICK u : u = [i \in E |-> Half(b[i])]
  OBVIOUS
<1>10. PICK v : v = [i \in D |-> Half(b[i])]
  OBVIOUS
<1>11. /\ \A i \in E : u[i] \in Int
       /\ \A i \in D : u[i] \in Int /\ v[i] = u[i] /\ v[i] \in Int
       /\ u[n] = Half(b[n])
  BY <1>1, <1>3, <1>9, <1>10
<1>12. /\ SumFunctionOnSet(u, E) = u[n] + SumFunctionOnSet(u, D)
       /\ SumFunctionOnSet(v, D) = SumFunctionOnSet(u, D)
       /\ SumFunctionOnSet(v, D) \in Int
  <2>1. SumFunctionOnSet(u, E) = u[n] + SumFunctionOnSet(u, E \ {n})
    BY <1>2, <1>11, SumWithout
  <2>2. SumFunctionOnSet(v, D) = SumFunctionOnSet(u, D)
    BY <1>11, SumSame
  <2>3. SumFunctionOnSet(v, D) \in Int
    BY <1>11, SumAt
  <2>4. QED BY <1>2, <2>1, <2>2, <2>3
<1>13. Volumes(b, D) \in Int /\ Volumes(b, E) = Volumes(b, D) + Half(b[n])
  BY <1>2, <1>3, <1>9, <1>10, <1>11, <1>12 DEF Volumes
<1>14. QED BY <1>1, <1>8, <1>13

LEMMA SameSums ==
    ASSUME NEW D, NEW b, NEW c, \A i \in D : b[i] = c[i]
    PROVE  Fees(b, D) = Fees(c, D) /\ Volumes(b, D) = Volumes(c, D)
<1>1. [i \in D |-> b[i].feeAmount] = [i \in D |-> c[i].feeAmount]
  OBVIOUS
<1>2. [i \in D |-> Half(b[i])] = [i \in D |-> Half(c[i])]
  OBVIOUS
<1>3. QED BY <1>1, <1>2 DEF Fees, Volumes

LEMMA TradesFinite ==
    ASSUME RowsTyped
    PROVE  /\ IsFiniteSet(Trades) /\ Trades \subseteq 1..Len(log) /\ Len(log) \in Nat
           /\ \A i \in Trades : log[i] \in Events /\ IsTrade(log[i]) /\ PoolOf(log[i]) \in Pools
<1>1. log \in Seq(Events) /\ Len(log) \in Nat /\ DOMAIN log = 1..Len(log)
      /\ \A i \in 1..Len(log) : log[i] \in Events
  BY DEF RowsTyped
<1>2. Trades \in SUBSET (1..Len(log)) /\ \A i \in Trades : IsTrade(log[i])
  BY <1>1 DEF Trades
<1>3. IsFiniteSet(1..Len(log))
  <2>1. PICK one \in Int : one = 1
    OBVIOUS
  <2>2. IsFiniteSet(one..Len(log))
    BY <1>1, FS_Interval
  <2>3. QED BY <2>1, <2>2
<1>4. \A i \in Trades : log[i] \in Events /\ IsTrade(log[i])
  BY <1>1, <1>2
<1>5. \A i \in Trades : PoolOf(log[i]) \in Pools
  BY <1>4, AmountsPositive
<1>6. IsFiniteSet(Trades)
  BY <1>2, <1>3, FS_Subset
<1>7. QED BY <1>1, <1>2, <1>4, <1>5, <1>6

\* The step of the one task at work.
LEMMA BooksGoes ==
    ASSUME RowsTyped, NEW t \in Tasks, NEW to \in Work \cup {Idle}, Goes(t, to),
           Others(t), Booked(to)'
    PROVE  BooksInv'
<1>1. /\ task'[t] = to
      /\ \A u \in Tasks : u # t => task'[u] = Idle
  BY GoesTyped DEF Others
<1>2. ASSUME NEW u \in Tasks, task'[u] # Idle
      PROVE  Booked(task[u])'
  <2>1. task'[u] = to
    BY <1>1, <1>2
  <2>2. PICK b : Ledger(b, to)'
    BY DEF Booked
  <2>3. Ledger(b, task[u])'
    BY <2>1, <2>2 DEF Ledger, Written, Added, AddedTo
  <2>4. QED BY <2>3 DEF Booked
<1>3. ASSUME \A u \in Tasks : task'[u] = Idle
      PROVE  Booked(Idle)'
  <2>1. Idle = to
    BY <1>1, <1>3
  <2>2. QED BY <2>1
<1>4. QED BY <1>2, <1>3 DEF BooksInv

\* Where no trade is at work and no row's fees and volume are written the books
\* stay as they are.
LEMMA BooksKept ==
    ASSUME UNCHANGED <<parses, swaps, log>>,
           \A p \in Pools : /\ row'[p].feeRevenue24h = row[p].feeRevenue24h
                            /\ row'[p].volume24hUsd = row[p].volume24hUsd,
           NEW h, NEW to, h.at \notin Trading, to.at \notin Trading, Booked(h)
    PROVE  Booked(to)'
<1>1. PICK b : Ledger(b, h)
  BY DEF Booked
<1>2. Trades' = Trades
  BY DEF Trades, IsTrade
<1>3. /\ Written(to)' = Written(h)
      /\ \A p : AddedTo(p, to)' = AddedTo(p, h)
  BY <1>2 DEF Written, Added, AddedTo, Trading
<1>4. /\ \A i \in Written(h) :
            /\ SwapOk(b[i])
            /\ b[i].txHash = log[i].txHash /\ b[i].poolId = PoolOf(log[i])
            /\ b[i].amountIn = log[i].data.amountA
      /\ \A s \in swaps : \E i \in Written(h) : s = b[i]
      /\ \A p \in Pools :
            /\ row[p].feeRevenue24h = Seeded[p].feeRevenue24h + Fees(b, AddedTo(p, h))
            /\ row[p].volume24hUsd = Seeded[p].volume24hUsd + Volumes(b, AddedTo(p, h))
  BY <1>1 DEF Ledger
<1>5. to.at \notin Trading /\ to.at # "volume"
  BY DEF Trading
<1>6. Ledger(b, to)'
  <2>1. \A p \in Pools :
           /\ row'[p].feeRevenue24h = Seeded[p].feeRevenue24h + Fees(b, AddedTo(p, to)')
           /\ row'[p].volume24hUsd = Seeded[p].volume24hUsd + Volumes(b, AddedTo(p, to)')
    BY <1>3, <1>4
  <2>2. QED BY <1>3, <1>4, <1>5, <2>1 DEF Ledger
<1>7. QED BY <1>6 DEF Booked

LEMMA BookedIdle ==
    ASSUME Booked(Idle)
    PROVE  \E b :
             /\ \A i \in Trades :
                   /\ SwapOk(b[i])
                   /\ b[i].txHash = log[i].txHash /\ b[i].poolId = PoolOf(log[i])
                   /\ b[i].amountIn = log[i].data.amountA
             /\ \A s \in swaps : \E i \in Trades : s = b[i]
             /\ \A p \in Pools :
                   /\ row[p].feeRevenue24h
                        = Seeded[p].feeRevenue24h + Fees(b, {i \in Trades : PoolOf(log[i]) = p})
                   /\ row[p].volume24hUsd
                        = Seeded[p].volume24hUsd + Volumes(b, {i \in Trades : PoolOf(log[i]) = p})
<1>1. PICK b : Ledger(b, Idle)
  BY DEF Booked
<1>2. Idle.at = "idle"
  BY DEF Idle
<1>3. Written(Idle) = Trades /\ Added(Idle) = Trades
  BY <1>2 DEF Written, Added, Trading
<1>4. \A p : AddedTo(p, Idle) = {i \in Trades : PoolOf(log[i]) = p}
  BY <1>3 DEF AddedTo
<1>5. /\ \A i \in Trades :
            /\ SwapOk(b[i])
            /\ b[i].txHash = log[i].txHash /\ b[i].poolId = PoolOf(log[i])
            /\ b[i].amountIn = log[i].data.amountA
      /\ \A s \in swaps : \E i \in Trades : s = b[i]
  BY <1>1, <1>3 DEF Ledger
<1>6. \A p \in Pools :
         /\ row[p].feeRevenue24h = Seeded[p].feeRevenue24h + Fees(b, AddedTo(p, Idle))
         /\ row[p].volume24hUsd = Seeded[p].volume24hUsd + Volumes(b, AddedTo(p, Idle))
  BY <1>1 DEF Ledger
<1>7. \A p \in Pools :
         /\ row[p].feeRevenue24h
              = Seeded[p].feeRevenue24h + Fees(b, {i \in Trades : PoolOf(log[i]) = p})
         /\ row[p].volume24hUsd
              = Seeded[p].volume24hUsd + Volumes(b, {i \in Trades : PoolOf(log[i]) = p})
  BY <1>4, <1>6
<1>8. QED BY <1>5, <1>7, Zenon

\* A trade that was handed is not in the books yet.
LEMMA HandBooks ==
    ASSUME RowsTyped, NEW t \in Tasks, NEW e \in Events, Hand(t, e), Others(t), Booked(Idle)
    PROVE  BooksInv'
<1>1. /\ log' = Append(log, e)
      /\ UNCHANGED <<parses, row, swaps>>
  BY DEF Hand, Tables
<1>2. PICK to : /\ Goes(t, to)
                /\ to = IF ~Handled(e) THEN Idle
                        ELSE [at |-> IF e.type = "Swap" THEN "swap" ELSE "pool",
                              e |-> e, p |-> PoolOf(e), pool |-> row[PoolOf(e)]]
  BY DEF Hand
<1>3. PICK b :
        /\ \A i \in Trades :
              /\ SwapOk(b[i])
              /\ b[i].txHash = log[i].txHash /\ b[i].poolId = PoolOf(log[i])
              /\ b[i].amountIn = log[i].data.amountA
        /\ \A s \in swaps : \E i \in Trades : s = b[i]
        /\ \A p \in Pools :
              /\ row[p].feeRevenue24h
                   = Seeded[p].feeRevenue24h + Fees(b, {i \in Trades : PoolOf(log[i]) = p})
              /\ row[p].volume24hUsd
                   = Seeded[p].volume24hUsd + Volumes(b, {i \in Trades : PoolOf(log[i]) = p})
  BY BookedIdle
<1>4. PICK n \in Nat : n = Len(log')
  BY <1>1 DEF RowsTyped
<1>5. /\ n = Len(log) + 1 /\ log'[n] = e /\ DOMAIN log' = 1..n /\ DOMAIN log = 1..(n - 1)
      /\ \A i \in 1..(n - 1) : log'[i] = log[i]
  BY <1>1, <1>4 DEF RowsTyped
<1>6. \A f : IsTrade(f)' <=> IsTrade(f)
  BY <1>1 DEF IsTrade
<1>7. /\ Trades \subseteq 1..(n - 1) /\ n \notin Trades
      /\ \A i \in Trades : log'[i] = log[i]
      /\ Trades' = IF IsTrade(e) THEN Trades \cup {n} ELSE Trades
  <2>1. Trades \subseteq 1..(n - 1)
    BY <1>5 DEF Trades
  <2>2. Trades' = {i \in 1..n : IsTrade(log'[i])}
    BY <1>5, <1>6 DEF Trades
  <2>3. 1..n = 1..(n - 1) \cup {n} /\ n \notin 1..(n - 1)
    BY <1>4, <1>5
  <2>4. Trades = {i \in 1..(n - 1) : IsTrade(log'[i])}
    BY <1>5 DEF Trades
  <2>5. Trades' = IF IsTrade(e) THEN Trades \cup {n} ELSE Trades
    BY <1>5, <2>2, <2>3, <2>4
  <2>6. QED BY <1>5, <2>1, <2>3, <2>5
<1>8. \A p : {i \in Trades : PoolOf(log'[i]) = p} = {i \in Trades : PoolOf(log[i]) = p}
  BY <1>7
<1>9. to \in Work \cup {Idle} /\ Ledger(b, to)'
  <2>1. CASE IsTrade(e)
    <3>1. PICK q \in Pools, r \in Rows : q = PoolOf(e) /\ r = row[q]
      BY <2>1, AmountsPositive DEF RowsTyped
    <3>2. to = [at |-> "swap", e |-> e, p |-> q, pool |-> r]
      BY <1>2, <2>1, <3>1 DEF Handled, IsTrade
    <3>3. to.at = "swap" /\ to.e = e /\ to.p = q /\ to.pool = r /\ to.at \in Trading
      BY <3>2 DEF Trading
    <3>4. Written(to)' = Trades /\ Added(to)' = Trades /\ n \in Trades'
      BY <1>4, <1>7, <2>1, <3>3 DEF Written, Added
    <3>5. \A p : AddedTo(p, to)' = {i \in Trades : PoolOf(log[i]) = p}
      BY <1>8, <3>4 DEF AddedTo
    <3>6. Ledger(b, to)'
      <4>1. /\ \A i \in Written(to)' :
                  /\ SwapOk(b[i])'
                  /\ b[i].txHash = log'[i].txHash /\ b[i].poolId = PoolOf(log'[i])
                  /\ b[i].amountIn = log'[i].data.amountA
            /\ \A s \in swaps' : \E i \in Written(to)' : s = b[i]
        BY <1>1, <1>3, <1>7, <3>4 DEF SwapOk
      <4>2. \A p \in Pools :
              /\ row'[p].feeRevenue24h = Seeded[p].feeRevenue24h + Fees(b, AddedTo(p, to)')
              /\ row'[p].volume24hUsd = Seeded[p].volume24hUsd + Volumes(b, AddedTo(p, to)')
        BY <1>1, <1>3, <3>5
      <4>3. /\ Len(log') \in Trades' /\ to.e = log'[Len(log')]
            /\ to.pool.feeRevenue24h = row'[to.p].feeRevenue24h
            /\ to.pool.volume24hUsd = row'[to.p].volume24hUsd
            /\ to.at # "volume"
        BY <1>1, <1>4, <1>5, <3>1, <3>3, <3>4
      <4>4. QED BY <4>1, <4>2, <4>3 DEF Ledger
    <3>7. to \in Work
      BY <3>2 DEF Work, Trading
    <3>8. QED BY <3>6, <3>7
  <2>2. CASE ~IsTrade(e)
    <3>1. to \in Work \cup {Idle} /\ to.at \in {"idle", "pool"}
      <4>1. CASE ~Handled(e)
        BY <1>2, <4>1 DEF Idle
      <4>2. CASE IsMove(e)
        <5>1. PICK q \in Pools, r \in Rows : q = PoolOf(e) /\ r = row[q]
          BY <4>2, AmountsPositive DEF RowsTyped
        <5>2. to = [at |-> "pool", e |-> e, p |-> q, pool |-> r]
          BY <1>2, <4>2, <5>1 DEF Handled, IsMove
        <5>3. QED BY <5>2 DEF Work
      <4>3. QED BY <2>2, <4>1, <4>2 DEF Handled
    <3>2. Written(to)' = Trades /\ Added(to)' = Trades /\ to.at \notin Trading
          /\ to.at # "volume"
      BY <1>7, <2>2, <3>1 DEF Written, Added, Trading
    <3>3. \A p : AddedTo(p, to)' = {i \in Trades : PoolOf(log[i]) = p}
      BY <1>8, <3>2 DEF AddedTo
    <3>4. Ledger(b, to)'
      <4>1. /\ \A i \in Written(to)' :
                  /\ SwapOk(b[i])'
                  /\ b[i].txHash = log'[i].txHash /\ b[i].poolId = PoolOf(log'[i])
                  /\ b[i].amountIn = log'[i].data.amountA
            /\ \A s \in swaps' : \E i \in Written(to)' : s = b[i]
        BY <1>1, <1>3, <1>7, <3>2 DEF SwapOk
      <4>2. \A p \in Pools :
              /\ row'[p].feeRevenue24h = Seeded[p].feeRevenue24h + Fees(b, AddedTo(p, to)')
              /\ row'[p].volume24hUsd = Seeded[p].volume24hUsd + Volumes(b, AddedTo(p, to)')
        BY <1>1, <1>3, <3>3
      <4>3. QED BY <3>2, <4>1, <4>2 DEF Ledger
    <3>5. QED BY <3>1, <3>4
  <2>3. QED BY <2>1, <2>2
<1>10. Booked(to)'
  BY <1>9 DEF Booked
<1>11. QED BY <1>2, <1>9, <1>10, BooksGoes

\* The swap of a trade is written,
LEMMA SaveSwapBooks ==
    ASSUME RowsTyped, NEW t \in Tasks, SaveSwap(t), Others(t), Booked(task[t])
    PROVE  BooksInv'
<1>1. PICK h \in Work \cup {Idle} : h = task[t] /\ WorkOk(h) /\ Booked(h)
  BY DEF RowsTyped
<1>2. /\ h.at = "swap" /\ h.at \in Trading /\ h.e \in Events /\ h.p \in Pools
      /\ h.pool \in Rows /\ IsTrade(h.e) /\ h.p = PoolOf(h.e)
  BY <1>1, Holds DEF SaveSwap, WorkOk, Trading
<1>3. PICK b : Ledger(b, h)
  BY <1>1 DEF Booked
<1>4. PICK new : new = SwapRow(h.e, h.p, h.pool)
  OBVIOUS
<1>5. /\ SwapOk(new) /\ new.txHash = h.e.txHash /\ new.poolId = h.p
      /\ new.amountIn = h.e.data.amountA /\ new.feeAmount = SwapFee(h.e, h.p)
      /\ Half(new) = (UsdIn(h.e, h.p, h.pool) + UsdOut(h.e, h.p, h.pool)) \div 2
  BY <1>2, <1>4, SwapRowOk
<1>6. UNCHANGED <<parses, row, log>> /\ swaps' = Saved(swaps, new)
  BY <1>1, <1>4 DEF SaveSwap, History
<1>7. PICK to : Goes(t, to) /\ to = [h EXCEPT !.at = "volume"]
  BY <1>1 DEF SaveSwap
<1>8. /\ to \in Work /\ to.at = "volume" /\ to.p = h.p /\ to.e = h.e /\ to.pool = h.pool
      /\ to.at \in Trading
  <2>1. h \in [at : {"pool"} \cup Trading, e : Events, p : Pools, pool : Rows]
    BY <1>2, Shapes DEF Trading
  <2>2. QED BY <1>7, <2>1 DEF Work, Trading
<1>9. PICK n : n = Len(log) /\ n \in Trades /\ h.e = log[n]
  BY <1>2, <1>3 DEF Ledger
<1>10. Trades' = Trades
  BY <1>6 DEF Trades, IsTrade
<1>11. /\ Written(h) = Trades \ {n} /\ Written(to)' = Trades
       /\ Added(h) = Trades \ {n} /\ Added(to)' = Trades \ {n}
  BY <1>2, <1>6, <1>8, <1>9, <1>10 DEF Written, Added
<1>12. PICK c : c = [i \in Trades |-> IF i = n THEN new ELSE b[i]]
  OBVIOUS
<1>13. c[n] = new /\ \A i \in Trades \ {n} : c[i] = b[i]
  BY <1>9, <1>12
<1>14. \A p : AddedTo(p, to)' = AddedTo(p, h) /\ AddedTo(p, h) \subseteq Trades \ {n}
  BY <1>6, <1>11 DEF AddedTo
<1>15. Ledger(c, to)'
  <2>1. \A i \in Written(to)' :
           /\ SwapOk(c[i])'
           /\ c[i].txHash = log'[i].txHash /\ c[i].poolId = PoolOf(log'[i])
           /\ c[i].amountIn = log'[i].data.amountA
    <3>1. \A i \in Trades \ {n} :
             /\ SwapOk(b[i])
             /\ b[i].txHash = log[i].txHash /\ b[i].poolId = PoolOf(log[i])
             /\ b[i].amountIn = log[i].data.amountA
      BY <1>3, <1>11 DEF Ledger
    <3>2. QED BY <1>2, <1>5, <1>6, <1>9, <1>11, <1>13, <3>1, SMTT(30) DEF SwapOk
  <2>2. \A s \in swaps' : \E i \in Written(to)' : s = c[i]
    <3>1. \A s \in swaps : \E i \in Trades \ {n} : s = b[i]
      BY <1>3, <1>11 DEF Ledger
    <3>2. \A s \in swaps' : s \in swaps \/ s = new
      BY <1>6 DEF Saved
    <3>3. QED BY <1>9, <1>11, <1>13, <3>1, <3>2
  <2>3. \A p \in Pools :
           /\ row'[p].feeRevenue24h = Seeded[p].feeRevenue24h + Fees(c, AddedTo(p, to)')
           /\ row'[p].volume24hUsd = Seeded[p].volume24hUsd + Volumes(c, AddedTo(p, to)')
    <3>1. TAKE p \in Pools
    <3>2. \A i \in AddedTo(p, h) : c[i] = b[i]
      BY <1>13, <1>14
    <3>3. Fees(c, AddedTo(p, h)) = Fees(b, AddedTo(p, h))
          /\ Volumes(c, AddedTo(p, h)) = Volumes(b, AddedTo(p, h))
      BY <3>2, SameSums
    <3>4. /\ row[p].feeRevenue24h = Seeded[p].feeRevenue24h + Fees(b, AddedTo(p, h))
          /\ row[p].volume24hUsd = Seeded[p].volume24hUsd + Volumes(b, AddedTo(p, h))
      BY <1>3 DEF Ledger
    <3>5. QED BY <1>6, <1>14, <3>3, <3>4
  <2>4. /\ Len(log') \in Trades' /\ to.e = log'[Len(log')]
        /\ to.pool.feeRevenue24h = row'[to.p].feeRevenue24h
        /\ to.pool.volume24hUsd = row'[to.p].volume24hUsd
    <3>1. /\ h.pool.feeRevenue24h = row[h.p].feeRevenue24h
          /\ h.pool.volume24hUsd = row[h.p].volume24hUsd
      BY <1>2, <1>3 DEF Ledger
    <3>2. QED BY <1>6, <1>8, <1>9, <1>10, <3>1
  <2>5. /\ c[Len(log')].feeAmount = SwapFee(to.e, to.p)
        /\ Half(c[Len(log')]) = (UsdIn(to.e, to.p, to.pool) + UsdOut(to.e, to.p, to.pool)) \div 2
    BY <1>5, <1>6, <1>8, <1>9, <1>13
  <2>6. QED BY <2>1, <2>2, <2>3, <2>4, <2>5 DEF Ledger, Half
<1>16. Booked(to)'
  BY <1>15 DEF Booked
<1>17. QED BY <1>7, <1>8, <1>16, BooksGoes

\* ... and the row of the pool counts it.
LEMMA VolumeBooks ==
    ASSUME RowsTyped, NEW t \in Tasks, UpdatePoolVolume(t), Others(t), Booked(task[t])
    PROVE  BooksInv'
<1>1. PICK h \in Work \cup {Idle} : h = task[t] /\ WorkOk(h) /\ Booked(h)
  BY DEF RowsTyped
<1>2. /\ h.at = "volume" /\ h.at \in Trading /\ h.p \in Pools /\ h.p = PoolOf(h.e)
  BY <1>1, Holds DEF UpdatePoolVolume, WorkOk, Trading
<1>3. PICK b : Ledger(b, h)
  BY <1>1 DEF Booked
<1>4. UNCHANGED <<parses, swaps, log>> /\ Goes(t, Idle)
  BY DEF UpdatePoolVolume, History
<1>5. /\ \A p \in Pools : p # h.p => row'[p] = row[p]
      /\ row'[h.p].feeRevenue24h = h.pool.feeRevenue24h + SwapFee(h.e, h.p)
      /\ row'[h.p].volume24hUsd
           = h.pool.volume24hUsd + (UsdIn(h.e, h.p, h.pool) + UsdOut(h.e, h.p, h.pool)) \div 2
  BY <1>1, VolumeWritten
<1>6. PICK n : /\ n = Len(log) /\ n \in Trades /\ h.e = log[n]
               /\ h.pool.feeRevenue24h = row[h.p].feeRevenue24h
               /\ h.pool.volume24hUsd = row[h.p].volume24hUsd
               /\ b[n].feeAmount = SwapFee(h.e, h.p)
               /\ Half(b[n]) = (UsdIn(h.e, h.p, h.pool) + UsdOut(h.e, h.p, h.pool)) \div 2
  BY <1>2, <1>3 DEF Ledger
<1>7. Trades' = Trades
  BY <1>4 DEF Trades, IsTrade
<1>8. Idle.at = "idle" /\ Idle.at \notin Trading /\ Idle.at # "volume"
  BY DEF Idle, Trading
<1>9. /\ Written(h) = Trades /\ Written(Idle)' = Trades
      /\ Added(h) = Trades \ {n} /\ Added(Idle)' = Trades
  BY <1>2, <1>4, <1>6, <1>7, <1>8 DEF Written, Added
<1>10. \A p : AddedTo(p, Idle)' = IF p = h.p THEN AddedTo(p, h) \cup {n} ELSE AddedTo(p, h)
  <2>1. \A p : /\ AddedTo(p, Idle)' = {i \in Trades : PoolOf(log[i]) = p}
               /\ AddedTo(p, h) = {i \in Trades \ {n} : PoolOf(log[i]) = p}
    BY <1>4, <1>9 DEF AddedTo
  <2>2. PoolOf(log[n]) = h.p /\ n \in Trades
    BY <1>2, <1>6
  <2>3. TAKE p
  <2>4. CASE p = h.p
    <3>1. {i \in Trades : PoolOf(log[i]) = p} = {i \in Trades \ {n} : PoolOf(log[i]) = p} \cup {n}
      BY <2>2, <2>4
    <3>2. QED BY <2>1, <2>4, <3>1
  <2>5. CASE p # h.p
    <3>1. {i \in Trades : PoolOf(log[i]) = p} = {i \in Trades \ {n} : PoolOf(log[i]) = p}
      BY <2>2, <2>5
    <3>2. QED BY <2>1, <2>5, <3>1
  <2>6. QED BY <2>4, <2>5
<1>11. \A p \in Pools : IsFiniteSet(AddedTo(p, h)) /\ AddedTo(p, h) \subseteq Trades /\ n \notin AddedTo(p, h)
  <2>1. TAKE p \in Pools
  <2>2. AddedTo(p, h) \in SUBSET Trades /\ n \notin AddedTo(p, h)
    BY <1>9 DEF AddedTo
  <2>3. QED BY <2>2, TradesFinite, FS_Subset
<1>12. \A i \in Trades : SwapOk(b[i])
  BY <1>3, <1>9 DEF Ledger
<1>13. \A p \in Pools :
          /\ row'[p].feeRevenue24h = Seeded[p].feeRevenue24h + Fees(b, AddedTo(p, Idle)')
          /\ row'[p].volume24hUsd = Seeded[p].volume24hUsd + Volumes(b, AddedTo(p, Idle)')
  <2>1. TAKE p \in Pools
  <2>2. /\ row[p].feeRevenue24h = Seeded[p].feeRevenue24h + Fees(b, AddedTo(p, h))
        /\ row[p].volume24hUsd = Seeded[p].volume24hUsd + Volumes(b, AddedTo(p, h))
    BY <1>3 DEF Ledger
  <2>3. CASE p = h.p
    <3>1. PICK D : D = AddedTo(p, h)
      OBVIOUS
    <3>2. IsFiniteSet(D) /\ n \notin D /\ \A i \in D \cup {n} : SwapOk(b[i])
      BY <1>6, <1>11, <1>12, <3>1
    <3>3. /\ Fees(b, D) \in Int /\ Volumes(b, D) \in Int
          /\ Fees(b, D \cup {n}) = Fees(b, D) + b[n].feeAmount
          /\ Volumes(b, D \cup {n}) = Volumes(b, D) + Half(b[n])
      BY <3>2, FeesOneMore
    <3>4. AddedTo(p, Idle)' = D \cup {n}
      BY <1>10, <2>3, <3>1
    <3>5. PICK x \in Int, y \in Int, u \in Int, v \in Int :
             /\ x = Seeded[p].feeRevenue24h /\ y = Seeded[p].volume24hUsd
             /\ u = b[n].feeAmount /\ v = Half(b[n])
      <4>1. Seeded[p].feeRevenue24h \in Int /\ Seeded[p].volume24hUsd \in Int
        BY PoolRowsAssumption DEF Rows
      <4>2. b[n].feeAmount \in Int /\ Half(b[n]) \in Int
        <5>1. \A i \in Nat, j \in Nat : (i + j) \div 2 \in Int
          OBVIOUS
        <5>2. QED BY <1>6, <1>12, <5>1 DEF SwapOk, Half
      <4>3. QED BY <4>1, <4>2
    <3>6. /\ row'[p].feeRevenue24h = (x + Fees(b, D)) + u
          /\ row'[p].volume24hUsd = (y + Volumes(b, D)) + v
      BY <1>5, <1>6, <2>2, <2>3, <3>1, <3>5
    <3>7. /\ row'[p].feeRevenue24h = x + (Fees(b, D) + u)
          /\ row'[p].volume24hUsd = y + (Volumes(b, D) + v)
      BY <3>3, <3>5, <3>6
    <3>8. QED BY <3>3, <3>4, <3>5, <3>7
  <2>4. CASE p # h.p
    BY <1>5, <1>10, <2>2, <2>4
  <2>5. QED BY <2>3, <2>4
<1>14. Ledger(b, Idle)'
  <2>1. /\ \A i \in Written(Idle)' :
              /\ SwapOk(b[i])'
              /\ b[i].txHash = log'[i].txHash /\ b[i].poolId = PoolOf(log'[i])
              /\ b[i].amountIn = log'[i].data.amountA
        /\ \A s \in swaps' : \E i \in Written(Idle)' : s = b[i]
    BY <1>3, <1>4, <1>9 DEF Ledger, SwapOk
  <2>2. QED BY <1>8, <1>13, <2>1 DEF Ledger
<1>15. Booked(Idle)'
  BY <1>14 DEF Booked
<1>16. QED BY <1>4, <1>15, IdleTyped, BooksGoes

\* The steps that write neither a swap nor the fees and the volume of a row.
LEMMA QuietBooks ==
    ASSUME RowsTyped, NEW t \in Tasks, Others(t), Booked(task[t]),
           \/ LookForPosition(t) \/ SavePosition(t) \/ CountPositions(t)
           \/ UpdatePool(t) \/ EmitReserves(t)
           \/ ReadAgain(t) \/ SaveSnapshot(t) \/ UpdateTvl(t)
    PROVE  BooksInv'
<1>1. PICK h \in Work \cup {Idle} : h = task[t] /\ Booked(h)
  BY SMTT(30) DEF RowsTyped
<1>2. UNCHANGED <<parses, swaps, log>>
  BY DEF LookForPosition, SavePosition, CountPositions, UpdatePool, EmitReserves,
         ReadAgain, SaveSnapshot, UpdateTvl, Tables, History
<1>3. \A p \in Pools : /\ row'[p].feeRevenue24h = row[p].feeRevenue24h
                       /\ row'[p].volume24hUsd = row[p].volume24hUsd
  <2>1. CASE UpdatePool(t)
    BY <1>1, <2>1, PoolWritten
  <2>2. CASE UpdateTvl(t)
    BY <2>2, TvlWritten
  <2>3. CASE \/ LookForPosition(t) \/ SavePosition(t) \/ CountPositions(t)
             \/ EmitReserves(t) \/ ReadAgain(t) \/ SaveSnapshot(t)
    <3>1. row' = row
      BY <2>3, ZenonT(60) DEF LookForPosition, SavePosition, CountPositions, EmitReserves,
                  ReadAgain, SaveSnapshot, Tables
    <3>2. QED BY <3>1, SMTT(30)
  <2>4. QED BY <2>1, <2>2, <2>3
<1>4. h.at \notin Trading
  BY <1>1 DEF LookForPosition, SavePosition, CountPositions, UpdatePool, EmitReserves,
              ReadAgain, SaveSnapshot, UpdateTvl, Trading
<1>5. PICK to : Goes(t, to) /\ to.at \notin Trading
  <2>0. Idle.at = "idle"
    BY DEF Idle
  <2>1. CASE LookForPosition(t)
    <3>1. PICK x : x = position[h.e.data.caller, h.p]
      OBVIOUS
    <3>2. PICK at : at = IF x # None /\ ~parses THEN "idle"
                         ELSE IF x # None \/ h.e.type = "Mint" THEN "position"
                         ELSE IF parses THEN "counting" ELSE "idle"
      OBVIOUS
    <3>3. Goes(t, IF at = "idle" THEN Idle
                  ELSE [at |-> at, e |-> h.e, p |-> h.p, pool |-> h.pool, existing |-> x])
      BY <1>1, <2>1, <3>1, <3>2 DEF LookForPosition
    <3>4. PICK to : Goes(t, to) /\ (to = Idle \/ to.at = at)
      BY <3>3
    <3>5. at \in {"idle", "position", "counting"}
      BY <3>2
    <3>6. QED BY <2>0, <3>4, <3>5 DEF Trading
  <2>2. CASE SavePosition(t)
    <3>1. Goes(t, Idle) \/ Goes(t, [h EXCEPT !.at = "counting"])
      BY <1>1, <2>2 DEF SavePosition
    <3>2. h \in [at : {"position", "counting"}, e : Events, p : Pools, pool : Rows,
                 existing : Positions \cup {None}]
      BY <1>1, <2>2, Shapes DEF SavePosition
    <3>3. [h EXCEPT !.at = "counting"].at = "counting"
      BY <3>2
    <3>4. QED BY <2>0, <3>1, <3>3 DEF Trading
  <2>3. CASE CountPositions(t)
    BY <2>3 DEF CountPositions, Trading
  <2>4. CASE UpdatePool(t)
    <3>1. Goes(t, [h EXCEPT !.at = "emitting"])
      BY <1>1, <2>4 DEF UpdatePool
    <3>2. h \in [at : Updating, p : Pools, lpCount : Nat, reserves : Nat \X Nat]
      BY <1>1, <2>4, Shapes DEF UpdatePool, Updating
    <3>3. [h EXCEPT !.at = "emitting"].at = "emitting"
      BY <3>2
    <3>4. QED BY <3>1, <3>3 DEF Trading
  <2>5. CASE EmitReserves(t)
    BY <2>0, <2>5 DEF EmitReserves, Trading
  <2>6. CASE ReadAgain(t)
    BY <2>6 DEF ReadAgain, Trading
  <2>7. CASE SaveSnapshot(t)
    BY <2>7 DEF SaveSnapshot, Trading
  <2>8. CASE UpdateTvl(t)
    BY <2>0, <2>8 DEF UpdateTvl, Trading
  <2>9. QED BY <2>1, <2>2, <2>3, <2>4, <2>5, <2>6, <2>7, <2>8
<1>6. to \in Work \cup {Idle}
  <2>1. RowsTyped'
    BY LookTyped, SavePositionTyped, CountTyped, UpdatePoolTyped, EmitTyped, ReadTyped,
       SaveSnapshotTyped, UpdateTvlTyped
  <2>2. task'[t] = to /\ task'[t] \in Work \cup {Idle}
    BY <1>5, <2>1 DEF RowsTyped, Goes
  <2>3. QED BY <2>2
<1>7. Booked(to)'
  BY <1>1, <1>2, <1>3, <1>4, <1>5, BooksKept
<1>8. QED BY <1>5, <1>6, <1>7, BooksGoes

LEMMA BooksStep == RowsTyped /\ CalmInv /\ BooksInv /\ [RowsNext]_vars => BooksInv'
<1> SUFFICES ASSUME RowsTyped, CalmInv, BooksInv, [RowsNext]_vars, calm', parses'
             PROVE  BooksInv'
  BY DEF BooksInv
<1>1. ASSUME NEW t \in Handlers, NEW e \in Events, Hand(t, e)
      PROVE  BooksInv'
  <2>1. t \in Tasks /\ calm /\ parses /\ Others(t) /\ \A u \in Tasks : task[u] = Idle
    BY <1>1, TasksApart DEF Hand, Tables, Others
  <2>2. Booked(Idle)
    BY <2>1 DEF BooksInv
  <2>3. QED BY <1>1, <2>1, <2>2, HandBooks
<1>2. ASSUME NEW t \in Tasks,
             \/ LookForPosition(t) \/ SavePosition(t) \/ CountPositions(t)
             \/ UpdatePool(t) \/ EmitReserves(t) \/ SaveSwap(t) \/ UpdatePoolVolume(t)
             \/ ReadAgain(t) \/ SaveSnapshot(t) \/ UpdateTvl(t)
      PROVE  BooksInv'
  <2>1. task[t] # Idle /\ calm /\ parses
    BY <1>2, AtWork
  <2>2. Others(t)
    BY <2>1, CalmWorker
  <2>3. Booked(task[t])
    BY <2>1 DEF BooksInv
  <2>4. QED BY <1>2, <2>2, <2>3, QuietBooks, SaveSwapBooks, VolumeBooks
<1>3. ASSUME NEW t \in CronJobs, StartSnapshot(t)
      PROVE  BooksInv'
  <2>1. t \in Tasks /\ calm /\ parses /\ Others(t) /\ \A u \in Tasks : task[u] = Idle
    BY <1>3, TasksApart DEF StartSnapshot, Tables, Others
  <2>2. Booked(Idle)
    BY <2>1 DEF BooksInv
  <2>3. PICK to : Goes(t, to) /\ to.at = "reading"
    BY <1>3 DEF StartSnapshot
  <2>4. to \in Work \cup {Idle}
    <3>1. RowsTyped'
      BY <1>3, <2>1, StartTyped
    <3>2. task'[t] = to /\ task'[t] \in Work \cup {Idle}
      BY <2>1, <2>3, <3>1 DEF RowsTyped, Goes
    <3>3. QED BY <3>2
  <2>5. UNCHANGED <<parses, row, swaps, log>>
    BY <1>3 DEF StartSnapshot, Tables
  <2>6. Idle.at \notin Trading /\ to.at \notin Trading
    BY <2>3 DEF Idle, Trading
  <2>7. Booked(to)'
    BY <2>2, <2>5, <2>6, BooksKept
  <2>8. QED BY <2>1, <2>3, <2>4, <2>7, BooksGoes
<1>4. ASSUME NEW t \in Tasks, TaskFails(t)
      PROVE  BooksInv'
  BY <1>4 DEF TaskFails
<1>5. CASE Restart
  <2>1. calm /\ parses /\ \A t \in Tasks : task[t] = Idle
    BY <1>5 DEF Restart, Tables
  <2>2. UNCHANGED <<parses, row, swaps, log>> /\ Idle.at \notin Trading
    BY <1>5 DEF Restart, Tables, Idle, Trading
  <2>3. Booked(Idle)
    BY <2>1 DEF BooksInv
  <2>4. Booked(Idle)'
    BY <2>2, <2>3, BooksKept
  <2>5. \A t \in Tasks : task'[t] = Idle
    BY <1>5 DEF Restart
  <2>6. QED BY <2>4, <2>5 DEF BooksInv
<1>6. CASE UNCHANGED vars
  <2>1. UNCHANGED <<parses, row, swaps, log, task, calm>>
    BY <1>6 DEF vars
  <2>2. ASSUME NEW h, Booked(h)
        PROVE  Booked(h)'
    <3>1. PICK b : Ledger(b, h)
      BY <2>2 DEF Booked
    <3>2. Trades' = Trades
      BY <2>1 DEF Trades, IsTrade
    <3>3. /\ Written(h)' = Written(h)
          /\ \A p : AddedTo(p, h)' = AddedTo(p, h)
      BY <2>1, <3>2 DEF Written, Added, AddedTo
    <3>4. Ledger(b, h)'
      BY <2>1, <3>1, <3>2, <3>3 DEF Ledger
    <3>5. QED BY <3>4 DEF Booked
  <2>3. ASSUME NEW t \in Tasks, task'[t] # Idle
        PROVE  Booked(task[t])'
    <3>1. PICK h : h = task[t] /\ h = task'[t] /\ Booked(h)
      BY <2>1, <2>3 DEF BooksInv
    <3>2. Booked(h)'
      BY <2>2, <3>1
    <3>3. PICK b : Ledger(b, h)'
      BY <3>2 DEF Booked
    <3>4. Ledger(b, task[t])'
      BY <3>1, <3>3 DEF Ledger, Written, Added, AddedTo
    <3>5. QED BY <3>4 DEF Booked
  <2>4. (\A t \in Tasks : task'[t] = Idle) => Booked(Idle)'
    BY <2>1, <2>2 DEF BooksInv
  <2>5. QED BY <2>1, <2>3, <2>4 DEF BooksInv
<1>7. QED
  <2>1. \A t \in CronJobs : t \in Tasks
    BY TasksApart
  <2>2. \A t \in Handlers : t \in Tasks
    BY TasksApart
  <2>3. QED BY <1>1, <1>2, <1>3, <1>4, <1>5, <1>6, <2>1, <2>2 DEF RowsNext

LEMMA BooksInit == RowsInit => SwapsTyped /\ BooksInv
<1> SUFFICES ASSUME RowsInit PROVE SwapsTyped /\ BooksInv
  OBVIOUS
<1>1. /\ log = <<>> /\ row = Seeded /\ swaps = {} /\ \A t \in Tasks : task[t] = Idle
  BY DEF RowsInit
<1>2. SwapsTyped
  BY <1>1, FS_EmptySet DEF SwapsTyped
<1>3. Trades = {}
  BY <1>1 DEF Trades
<1>4. Idle.at = "idle" /\ Idle.at \notin Trading
  BY DEF Idle, Trading
<1>5. Written(Idle) = {} /\ \A p : AddedTo(p, Idle) = {}
  BY <1>3, <1>4 DEF Written, Added, AddedTo
<1>6. PICK b : b = <<>>
  OBVIOUS
<1>7. PICK N : N = {} /\ IsFiniteSet(N)
  BY FS_EmptySet
<1>8. Fees(b, N) = 0 /\ Volumes(b, N) = 0
  <2>1. SumFunctionOnSet([i \in N |-> b[i].feeAmount], N) = 0
    <3>1. PICK f : f = [i \in N |-> b[i].feeAmount]
      OBVIOUS
    <3>2. SumFunctionOnSet(f, N) = 0
      BY <1>7, SumAt
    <3>3. QED BY <3>1, <3>2
  <2>2. SumFunctionOnSet([i \in N |-> Half(b[i])], N) = 0
    <3>1. PICK f : f = [i \in N |-> Half(b[i])]
      OBVIOUS
    <3>2. SumFunctionOnSet(f, N) = 0
      BY <1>7, SumAt
    <3>3. QED BY <3>1, <3>2
  <2>3. QED BY <2>1, <2>2 DEF Fees, Volumes
<1>9. \A p \in Pools :
         /\ row[p].feeRevenue24h = Seeded[p].feeRevenue24h + Fees(b, AddedTo(p, Idle))
         /\ row[p].volume24hUsd = Seeded[p].volume24hUsd + Volumes(b, AddedTo(p, Idle))
  <2>1. TAKE p \in Pools
  <2>2. Seeded[p].feeRevenue24h \in Nat /\ Seeded[p].volume24hUsd \in Nat
    BY PoolRowsAssumption DEF Rows
  <2>3. AddedTo(p, Idle) = N
    BY <1>5, <1>7
  <2>4. QED BY <1>1, <1>8, <2>2, <2>3
<1>10. Ledger(b, Idle)
  BY <1>1, <1>4, <1>5, <1>9 DEF Ledger
<1>11. QED BY <1>1, <1>2, <1>10 DEF BooksInv, Booked

-----------------------------------------------------------------------------
(* What the reports say of the books. *)

LEMMA AllRecent ==
    ASSUME RowsTyped, SwapsTyped
    PROVE  /\ Recent(swaps, None, 0) = swaps
           /\ \A p \in Pools : Recent(swaps, p, 0) = {s \in swaps : s.poolId = p}
<1>1. \A s \in swaps : s.time >= 0
  BY DEF SwapsTyped, RowsTyped
<1>2. \A p \in Pools : p # None
  BY PoolRowsAssumption
<1>3. QED BY <1>1, <1>2 DEF Recent

\* A table of swaps like the one there is.
Booking(table) == IsFiniteSet(table) /\ \A s \in table : SwapOk(s) /\ s.time >= 0

\* The fees of the active pools, asked for one by one, are those of their swaps.
LEMMA FeesOfPools ==
    ASSUME NEW table, Booking(table),
           NEW g, \A p \in ActivePools : g[p] = FeeRevenueSince(table, p, 0)
    PROVE  SumFunctionOnSet(g, ActivePools) = FeeRevenueSince(OfActive(table), None, 0)
<1>1. PICK A : A = ActivePools
  OBVIOUS
<1>2. A \in SUBSET Pools /\ \A p \in A : p # None
  BY <1>1, PoolRowsAssumption DEF ActivePools
<1>3. IsFiniteSet(A)
  BY <1>2, PoolRowsAssumption, FS_Subset
<1>4. PICK T : T = {s \in table : s.poolId \in A}
  OBVIOUS
<1>5. T = OfActive(table) /\ T \in SUBSET table
  BY <1>1, <1>4 DEF OfActive
<1>6. IsFiniteSet(T) /\ \A s \in T : SwapOk(s) /\ s.time >= 0 /\ s.poolId \in A
  BY <1>4, <1>5, FS_Subset DEF Booking
<1>7. PICK f : f = [s \in T |-> s.feeAmount]
  OBVIOUS
<1>8. PICK part : part = [s \in T |-> s.poolId]
  OBVIOUS
<1>9. \A s \in T : f[s] \in Int /\ part[s] \in A /\ part[s] = s.poolId
  BY <1>6, <1>7, <1>8 DEF SwapOk
<1>10. PICK Part : Part = [p \in A |-> {s \in T : part[s] = p}]
  OBVIOUS
<1>11. ASSUME NEW p \in A
       PROVE  g[p] = SumFunctionOnSet(f, Part[p])
  <2>1. PICK R : R = Recent(table, p, 0)
    OBVIOUS
  <2>2. R = {s \in table : s.poolId = p}
    BY <1>2, <2>1 DEF Recent, Booking
  <2>3. R = Part[p] /\ R \in SUBSET T
    BY <1>4, <1>9, <1>10, <2>2
  <2>4. PICK h : h = [s \in R |-> s.feeAmount]
    OBVIOUS
  <2>5. IsFiniteSet(R) /\ \A s \in R : f[s] \in Int /\ h[s] = f[s]
    BY <1>6, <1>7, <1>9, <2>3, <2>4, FS_Subset
  <2>6. SumFunctionOnSet(h, R) = SumFunctionOnSet(f, R)
    BY <2>5, SumSame
  <2>7. FeeRevenueSince(table, p, 0) = SumFunctionOnSet(h, R)
    BY <2>1, <2>4 DEF FeeRevenueSince
  <2>8. QED BY <1>1, <2>3, <2>6, <2>7
<1>12. SumFunctionOnSet(g, A) = SumFunctionOnSet(f, T)
  <2>1. \A s \in T : part[s] \in A
    BY <1>9
  <2>2. \A s \in T : f[s] \in Int
    BY <1>9
  <2>3. \A p \in A : Part[p] = {s \in T : part[s] = p}
    BY <1>10
  <2>4. \A p \in A : g[p] = SumFunctionOnSet(f, Part[p])
    BY <1>11
  <2>5. IsFiniteSet(T)
    BY <1>6
  <2>6. QED BY ONLY <1>3, <2>1, <2>2, <2>3, <2>4, <2>5, SumByParts
<1>13. FeeRevenueSince(T, None, 0) = SumFunctionOnSet(f, T)
  <2>1. Recent(T, None, 0) = T
    BY <1>6 DEF Recent
  <2>2. QED BY <1>7, <2>1 DEF FeeRevenueSince
<1>14. QED BY <1>1, <1>5, <1>12, <1>13

\* More swaps have no less fees.
LEMMA FeesGrow ==
    ASSUME NEW table, Booking(table), NEW before \in SUBSET table, NEW p
    PROVE  /\ FeeRevenueSince(before, p, 0) \in Int /\ FeeRevenueSince(table, p, 0) \in Int
           /\ FeeRevenueSince(before, p, 0) <= FeeRevenueSince(table, p, 0)
<1>1. PICK Q : Q = Recent(table, p, 0)
  OBVIOUS
<1>2. PICK R : R = Recent(before, p, 0)
  OBVIOUS
<1>3. Q \in SUBSET table /\ R \in SUBSET Q
  BY <1>1, <1>2 DEF Recent
<1>4. IsFiniteSet(Q) /\ \A s \in Q : s.feeAmount \in Nat
  BY <1>3, FS_Subset DEF Booking, SwapOk
<1>5. PICK f : f = [s \in Q |-> s.feeAmount]
  OBVIOUS
<1>6. PICK h : h = [s \in R |-> s.feeAmount]
  OBVIOUS
<1>7. PICK D : D = Q \ R
  OBVIOUS
<1>7a. Q = R \cup D /\ R \cap D = {} /\ D \in SUBSET Q
  BY <1>3, <1>7
<1>8. IsFiniteSet(R) /\ IsFiniteSet(D)
  BY <1>3, <1>4, <1>7a, FS_Subset
<1>9. /\ \A s \in R \cup D : f[s] \in Int
      /\ \A s \in D : f[s] \in Nat
      /\ \A s \in R : f[s] \in Int /\ h[s] = f[s]
      /\ \A s \in R : h[s] \in Int
  BY <1>3, <1>4, <1>5, <1>6, <1>7a
<1>10. SumFunctionOnSet(f, R \cup D) = SumFunctionOnSet(f, R) + SumFunctionOnSet(f, D)
  BY <1>7a, <1>8, <1>9, SumOfUnion
<1>11. SumFunctionOnSet(f, D) \in Nat
  BY <1>8, <1>9, SumOfNaturals
<1>12. SumFunctionOnSet(h, R) = SumFunctionOnSet(f, R)
  BY <1>8, <1>9, SumSame
<1>13. SumFunctionOnSet(f, R) \in Int
  BY <1>8, <1>9, SumAt
<1>14. FeeRevenueSince(table, p, 0) = SumFunctionOnSet(f, Q)
  BY <1>1, <1>5 DEF FeeRevenueSince
<1>15. FeeRevenueSince(before, p, 0) = SumFunctionOnSet(h, R)
  BY <1>2, <1>6 DEF FeeRevenueSince
<1>16. PICK x, y, z : /\ x = FeeRevenueSince(before, p, 0) /\ x \in Int /\ y \in Nat
                      /\ z = FeeRevenueSince(table, p, 0) /\ z = x + y
  <2>1. SumFunctionOnSet(f, Q) = SumFunctionOnSet(f, R) + SumFunctionOnSet(f, D)
    BY <1>7a, <1>10
  <2>2. QED BY <1>11, <1>12, <1>13, <1>14, <1>15, <2>1
<1>17. QED BY <1>16

\* What each query of a report finds lies between two tables, so does the report.
LEMMA FeesBetween ==
    ASSUME RowsTyped, SwapsTyped, NEW before \in SUBSET swaps,
           NEW seen \in [ActivePools -> {before, swaps}]
    PROVE  /\ FeeRevenueSince(OfActive(before), None, 0) <= ProtocolFees(seen, 0)
           /\ ProtocolFees(seen, 0) <= FeeRevenueSince(OfActive(swaps), None, 0)
<1>1. Booking(swaps)
  BY DEF SwapsTyped, RowsTyped, Booking
<1>2. Booking(before)
  BY <1>1, FS_Subset DEF Booking
<1>3. PICK A : A = ActivePools /\ IsFiniteSet(A)
  <2>1. ActivePools \in SUBSET Pools
    BY DEF ActivePools
  <2>2. IsFiniteSet(ActivePools)
    BY <2>1, PoolRowsAssumption, FS_Subset
  <2>3. QED BY <2>2
<1>4. PICK g : g = [p \in A |-> FeeRevenueSince(seen[p], p, 0)]
  OBVIOUS
<1>5. PICK low : low = [p \in A |-> FeeRevenueSince(before, p, 0)]
  OBVIOUS
<1>6. PICK high : high = [p \in A |-> FeeRevenueSince(swaps, p, 0)]
  OBVIOUS
<1>7. \A p \in A : /\ low[p] \in Int /\ g[p] \in Int /\ high[p] \in Int
                   /\ low[p] <= g[p] /\ g[p] <= high[p]
  <2> SUFFICES ASSUME NEW p \in A
               PROVE  /\ low[p] \in Int /\ g[p] \in Int /\ high[p] \in Int
                      /\ low[p] <= g[p] /\ g[p] <= high[p]
    OBVIOUS
  <2>1. /\ low[p] = FeeRevenueSince(before, p, 0) /\ high[p] = FeeRevenueSince(swaps, p, 0)
        /\ g[p] = FeeRevenueSince(seen[p], p, 0)
    BY <1>4, <1>5, <1>6
  <2>2. seen[p] = before \/ seen[p] = swaps
    BY <1>3
  <2>3. g[p] = low[p] \/ g[p] = high[p]
    BY <2>1, <2>2
  <2>4. low[p] \in Int /\ high[p] \in Int /\ low[p] <= high[p]
    BY <1>1, <2>1, FeesGrow
  <2>5. QED BY <2>3, <2>4
<1>8. SumFunctionOnSet(low, A) <= SumFunctionOnSet(g, A)
  BY <1>3, <1>7, SumMonotone
<1>9. SumFunctionOnSet(g, A) <= SumFunctionOnSet(high, A)
  BY <1>3, <1>7, SumMonotone
<1>10. SumFunctionOnSet(low, A) = FeeRevenueSince(OfActive(before), None, 0)
  BY <1>2, <1>3, <1>5, FeesOfPools
<1>11. SumFunctionOnSet(high, A) = FeeRevenueSince(OfActive(swaps), None, 0)
  BY <1>1, <1>3, <1>6, FeesOfPools
<1>12. SumFunctionOnSet(g, A) = ProtocolFees(seen, 0)
  BY <1>3, <1>4 DEF ProtocolFees
<1>13. QED BY <1>8, <1>9, <1>10, <1>11, <1>12

\* Without whole numbers there are no trades, no swaps and nothing to add.
LEMMA NothingAddsUp ==
    ASSUME RowsTyped, UnparsedInv, ~parses
    PROVE  /\ \A p \in Pools :
                 /\ row[p].feeRevenue24h
                      = Seeded[p].feeRevenue24h + FeeRevenueSince(swaps, p, 0)
                 /\ row[p].volume24hUsd = Seeded[p].volume24hUsd + HalfVolume(p)
           /\ VolumeSince(swaps, None, 0).volumeTokenA
                 = SumFunctionOnSet([i \in Trades |-> log[i].data.amountA], Trades)
<1>1. PICK N : N = {} /\ IsFiniteSet(N)
  BY FS_EmptySet
<1>2. Trades = N
  BY <1>1 DEF Trades, IsTrade
<1>3. \A p : Recent(swaps, p, 0) = N
  BY <1>1 DEF UnparsedInv, Recent
<1>4. \A f : SumFunctionOnSet(f, N) = 0
  <2>1. TAKE f
  <2>2. \A x \in N : f[x] \in Int
    BY <1>1
  <2>3. QED BY <1>1, <2>2, SumAt
<1>5. \A p : FeeRevenueSince(swaps, p, 0) = 0 /\ HalfVolume(p) = 0
  <2>1. TAKE p
  <2>2. FeeRevenueSince(swaps, p, 0) = 0
    BY <1>3, <1>4 DEF FeeRevenueSince
  <2>3. HalfVolume(p) = 0
    BY <1>3, <1>4 DEF HalfVolume
  <2>4. QED BY <2>2, <2>3
<1>6. VolumeSince(swaps, None, 0).volumeTokenA = 0
  BY <1>3, <1>4 DEF VolumeSince
<1>7. SumFunctionOnSet([i \in Trades |-> log[i].data.amountA], Trades) = 0
  BY <1>2, <1>4
<1>8. ASSUME NEW p \in Pools
      PROVE  /\ row[p].feeRevenue24h = Seeded[p].feeRevenue24h
             /\ row[p].volume24hUsd = Seeded[p].volume24hUsd
             /\ Seeded[p].feeRevenue24h \in Nat /\ Seeded[p].volume24hUsd \in Nat
  BY PoolRowsAssumption DEF UnparsedInv, Untouched, Rows
<1>9. QED BY <1>5, <1>6, <1>7, <1>8

\* If no transaction traded twice, trades and swaps are one to one.
LEMMA OneSwapEach ==
    ASSUME RowsTyped, SwapsTyped, TradedOnce, Rowed = TradeHashes,
           NEW b, \A i \in Trades : b[i].txHash = log[i].txHash,
           \A s \in swaps : \E i \in Trades : s = b[i]
    PROVE  /\ \A i, j \in Trades : b[i] = b[j] => i = j
           /\ {b[i] : i \in Trades} = swaps
<1>1. ASSUME NEW i \in Trades
      PROVE  b[i] \in swaps /\ \A j \in Trades : b[i] = b[j] => i = j
  <2>1. PICK x : x = log[i].txHash
    OBVIOUS
  <2>2. PICK s \in swaps : s.txHash = x
    <3>1. i \in DOMAIN log /\ IsTrade(log[i])
      BY DEF Trades
    <3>2. x \in TradeHashes
      BY <2>1, <3>1 DEF TradeHashes, Range
    <3>3. QED BY <3>2 DEF Rowed
  <2>3. PICK A : A = {k \in Trades : log[k].txHash = x}
    OBVIOUS
  <2>4. PICK B : B = {o \in swaps : o.txHash = x}
    OBVIOUS
  <2>5. Cardinality(A) = Cardinality(B)
    BY <2>2, <2>3, <2>4 DEF TradedOnce
  <2>6. PICK I : I = {b[k] : k \in A}
    OBVIOUS
  <2>7. B \in SUBSET I
    BY <2>3, <2>4, <2>6
  <2>8. IsFiniteSet(A)
    <3>1. A \in SUBSET Trades
      BY <2>3
    <3>2. QED BY <3>1, TradesFinite, FS_Subset
  <2>9. PICK f : f = [k \in A |-> b[k]] /\ f \in Surjection(A, I)
    <3>1. [k \in A |-> b[k]] \in Surjection(A, I)
      BY <2>6 DEF Surjection
    <3>2. QED BY <3>1
  <2>10. /\ IsFiniteSet(I) /\ Cardinality(I) <= Cardinality(A)
         /\ Cardinality(I) = Cardinality(A) <=> f \in Injection(A, I)
    BY <2>8, <2>9, FS_Surjection
  <2>11. Cardinality(B) <= Cardinality(I) /\ (Cardinality(I) = Cardinality(B) => I = B)
    BY <2>7, <2>10, FS_Subset
  <2>12. Cardinality(A) \in Nat /\ Cardinality(I) \in Nat
    BY <2>8, <2>10, FS_CardinalityType
  <2>13. Cardinality(I) = Cardinality(A) /\ I = B
    BY <2>5, <2>10, <2>11, <2>12
  <2>14. \A k, j \in A : b[k] = b[j] => k = j
    BY <2>9, <2>10, <2>13 DEF Injection, IsInjective
  <2>15. i \in A /\ b[i] \in swaps
    BY <2>1, <2>3, <2>4, <2>6, <2>13
  <2>16. ASSUME NEW j \in Trades, b[i] = b[j]
         PROVE  i = j
    <3>1. log[j].txHash = x
      BY <2>1, <2>16
    <3>2. j \in A
      BY <2>3, <3>1
    <3>3. QED BY <2>14, <2>15, <2>16, <3>2
  <2>17. QED BY <2>15, <2>16
<1>2. QED BY <1>1

LEMMA RowsAddUp ==
    ASSUME RowsTyped, SwapsTyped, TradedOnce, Exact(Idle), Booked(Idle)
    PROVE  /\ \A p \in Pools :
                 /\ row[p].feeRevenue24h
                      = Seeded[p].feeRevenue24h + FeeRevenueSince(swaps, p, 0)
                 /\ row[p].volume24hUsd = Seeded[p].volume24hUsd + HalfVolume(p)
           /\ VolumeSince(swaps, None, 0).volumeTokenA
                 = SumFunctionOnSet([i \in Trades |-> log[i].data.amountA], Trades)
<1>1. PICK b :
        /\ \A i \in Trades :
              /\ SwapOk(b[i])
              /\ b[i].txHash = log[i].txHash /\ b[i].poolId = PoolOf(log[i])
              /\ b[i].amountIn = log[i].data.amountA
        /\ \A s \in swaps : \E i \in Trades : s = b[i]
        /\ \A p \in Pools :
              /\ row[p].feeRevenue24h
                   = Seeded[p].feeRevenue24h + Fees(b, {i \in Trades : PoolOf(log[i]) = p})
              /\ row[p].volume24hUsd
                   = Seeded[p].volume24hUsd + Volumes(b, {i \in Trades : PoolOf(log[i]) = p})
  BY BookedIdle
<1>2. Rowed = TradeHashes
  BY ExactIdle
<1>3. /\ \A i, j \in Trades : b[i] = b[j] => i = j
      /\ {b[i] : i \in Trades} = swaps
  <2>1. /\ \A i \in Trades : b[i].txHash = log[i].txHash
        /\ \A s \in swaps : \E i \in Trades : s = b[i]
    BY <1>1
  <2>2. QED BY <1>2, <2>1, OneSwapEach
<1>4. ASSUME NEW p \in Pools
      PROVE  /\ FeeRevenueSince(swaps, p, 0) = Fees(b, {i \in Trades : PoolOf(log[i]) = p})
             /\ HalfVolume(p) = Volumes(b, {i \in Trades : PoolOf(log[i]) = p})
  <2>1. PICK D : D = {i \in Trades : PoolOf(log[i]) = p}
    OBVIOUS
  <2>2. PICK R : R = Recent(swaps, p, 0)
    OBVIOUS
  <2>3. R = {b[i] : i \in D}
    <3>1. R = {s \in swaps : s.poolId = p}
      BY <2>2, AllRecent
    <3>2. \A i \in Trades : b[i] \in swaps /\ (b[i].poolId = p <=> i \in D)
      BY <1>1, <1>3, <2>1
    <3>3. \A s \in swaps : \E i \in Trades : s = b[i]
      BY <1>1
    <3>4. D \subseteq Trades
      BY <2>1
    <3>5. QED BY <3>1, <3>2, <3>3, <3>4
  <2>4. IsFiniteSet(D) /\ \A i, j \in D : b[i] = b[j] => i = j
    <3>1. D \in SUBSET Trades
      BY <2>1
    <3>2. QED BY <1>3, <3>1, TradesFinite, FS_Subset
  <2>5. \A i \in D : b[i] \in R /\ SwapOk(b[i])
    BY <1>1, <2>1, <2>3
  <2>6. FeeRevenueSince(swaps, p, 0) = Fees(b, D)
    <3>1. PICK f : f = [s \in R |-> s.feeAmount]
      OBVIOUS
    <3>2. PICK g : g = [i \in D |-> b[i].feeAmount]
      OBVIOUS
    <3>3. \A i \in D : g[i] = f[b[i]] /\ f[b[i]] \in Int
      BY <2>5, <3>1, <3>2 DEF SwapOk
    <3>4. SumFunctionOnSet(f, {b[i] : i \in D}) = SumFunctionOnSet(g, D)
      BY <2>4, <3>3, SumOfImage
    <3>5. QED BY <2>2, <2>3, <3>1, <3>2, <3>4 DEF FeeRevenueSince, Fees
  <2>7. HalfVolume(p) = Volumes(b, D)
    <3>1. PICK f : f = [s \in R |-> (s.amountInUsd + s.amountOutUsd) \div 2]
      OBVIOUS
    <3>2. PICK g : g = [i \in D |-> Half(b[i])]
      OBVIOUS
    <3>3. \A i \in D : g[i] = f[b[i]] /\ f[b[i]] \in Int
      <4>1. \A x \in Nat, y \in Nat : (x + y) \div 2 \in Int
        OBVIOUS
      <4>2. QED BY <2>5, <3>1, <3>2, <4>1 DEF SwapOk, Half
    <3>4. SumFunctionOnSet(f, {b[i] : i \in D}) = SumFunctionOnSet(g, D)
      BY <2>4, <3>3, SumOfImage
    <3>5. QED BY <2>2, <2>3, <3>1, <3>2, <3>4 DEF HalfVolume, Volumes
  <2>8. QED BY <2>1, <2>6, <2>7
<1>5. VolumeSince(swaps, None, 0).volumeTokenA
        = SumFunctionOnSet([i \in Trades |-> log[i].data.amountA], Trades)
  <2>1. PICK f : f = [s \in swaps |-> s.amountIn]
    OBVIOUS
  <2>2. PICK g : g = [i \in Trades |-> log[i].data.amountA]
    OBVIOUS
  <2>3. \A i \in Trades : g[i] = f[b[i]] /\ f[b[i]] \in Int
    BY <1>1, <1>3, <2>1, <2>2 DEF SwapOk
  <2>4. SumFunctionOnSet(f, {b[i] : i \in Trades}) = SumFunctionOnSet(g, Trades)
    BY <1>3, <2>3, TradesFinite, SumOfImage
  <2>5. VolumeSince(swaps, None, 0).volumeTokenA = SumFunctionOnSet(f, swaps)
    BY <2>1, AllRecent DEF VolumeSince
  <2>6. QED BY <1>3, <2>2, <2>4, <2>5
<1>6. QED BY <1>1, <1>4, <1>5

\* What is reported of the tables is what they hold.  Whatever happens to tasks
\* and process: a resampled history stands for all of it, boards show the best,
\* the history of a pool its newest swaps, and the fees of the protocol lie
\* between those of the active pools before and after the report.  When nothing
\* interfered and no transaction traded twice: the fees and the volume that the
\* handlers add up in a row are those of the table of swaps, and its amounts
\* those of the events.
THEOREM ReportsAlwaysAddUp == RowsSpec => []ReportsAddUp
<1> DEFINE IInv == RowsTyped /\ SwapsTyped /\ CalmInv /\ BooksInv /\ UnparsedInv
<1>1. RowsInit => IInv
  BY TypedInit, CalmInit, BooksInit, UnparsedInit
<1>2. IInv /\ [RowsNext]_vars => IInv'
  BY TypedStep, SwapsStep, CalmStep, BooksStep, UnparsedStep
<1>3. IInv => ReportsAddUp
  <2> SUFFICES ASSUME IInv PROVE ReportsAddUp
    OBVIOUS
  <2>1. HistoryKeepsUp /\ BoardsShowBest /\ ProvidersShowBest
    BY HistoriesKeepUp, BoardsBest, ProvidersBest
  <2>2. ASSUME NEW before \in SUBSET swaps, NEW seen \in [ActivePools -> {before, swaps}]
        PROVE  /\ FeeRevenueSince(OfActive(before), None, 0) <= ProtocolFees(seen, 0)
               /\ ProtocolFees(seen, 0) <= FeeRevenueSince(OfActive(swaps), None, 0)
    BY FeesBetween
  <2>3. ASSUME NEW p \in Pools, NEW take \in {1, 100}, NEW all,
               all = {s \in swaps : s.poolId = p}
        PROVE  ShowsBest(SwapHistory(swaps, p, 0, restarts, take), all,
                         [s \in all |-> s.time], take)
    <3>1. IsFiniteSet(swaps) /\ restarts \in Nat /\ \A s \in swaps : s.time \in 0..restarts
      BY DEF SwapsTyped, RowsTyped
    <3>2. take \in Nat
      BY <2>3
    <3>3. all = {s \in swaps : s.poolId = p}
      BY <2>3
    <3>4. QED BY <3>1, <3>2, <3>3, NewestShown, Zenon
  <2>4. ASSUME calm, TradedOnce, \A t \in Tasks : task[t] = Idle
        PROVE  /\ \A p \in Pools :
                     /\ row[p].feeRevenue24h
                          = Seeded[p].feeRevenue24h + FeeRevenueSince(swaps, p, 0)
                     /\ row[p].volume24hUsd = Seeded[p].volume24hUsd + HalfVolume(p)
               /\ VolumeSince(swaps, None, 0).volumeTokenA
                     = SumFunctionOnSet([i \in Trades |-> log[i].data.amountA], Trades)
    <3>1. CASE parses
      <4>1. Exact(Idle) /\ Booked(Idle)
        BY <2>4, <3>1 DEF CalmInv, BooksInv
      <4>2. QED BY <2>4, <4>1, RowsAddUp
    <3>2. CASE ~parses
      BY <3>2, NothingAddsUp
    <3>3. QED BY <3>1, <3>2
  <2>5. QED BY <2>1, <2>2, <2>3, <2>4 DEF ReportsAddUp
<1>4. QED BY <1>1, <1>2, <1>3, PTL DEF RowsSpec
=============================================================================
