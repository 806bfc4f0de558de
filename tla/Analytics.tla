----------------------------- MODULE Analytics -----------------------------
(***************************************************************************)
(* What backend/src/modules/analytics, pools.service.ts and                *)
(* swap.service.ts report of the tables of PoolRows.  Dates are numbers,   *)
(* amounts whole numbers; a missing filter is None.                        *)
(***************************************************************************)
EXTENDS PoolRows, Ordering

\* findBy, newest first: getSwapHistory of swap.service.ts.
SwapHistory(table, p, from, to, take) ==
    LET found == {s \in table : s.poolId = p /\ s.time \in from..to}
    IN  First(Descending(found, [s \in found |-> s.time]), take)

Recent(table, p, since) == {s \in table : s.time >= since /\ (p = None \/ s.poolId = p)}

\* getVolumeSince of volume.service.ts.
VolumeSince(table, p, since) ==
    LET recent == Recent(table, p, since) IN
    [volumeUsd |-> SumFunctionOnSet([s \in recent |-> s.amountInUsd], recent),
     volumeTokenA |-> SumFunctionOnSet([s \in recent |-> s.amountIn], recent),
     volumeTokenB |-> SumFunctionOnSet([s \in recent |-> s.amountOut], recent)]

\* getFeeRevenue24h of fee-revenue.service.ts.
FeeRevenueSince(table, p, since) ==
    SumFunctionOnSet([s \in Recent(table, p, since) |-> s.feeAmount], Recent(table, p, since))

\* getProtocolFees asks for one active pool after another; seen is the table that
\* the query of each finds.
ProtocolFees(seen, since) ==
    SumFunctionOnSet([p \in ActivePools |-> FeeRevenueSince(seen[p], p, since)], ActivePools)

\* getProtocolTvl of tvl.service.ts, from one read.
ProtocolTvl == SumFunctionOnSet([p \in ActivePools |-> PoolTvl(row[p])], ActivePools)

\* getPoolStats; the fraction of the yearly rate is left out.
PoolApr(r) == IF r.tvlUsd > 0 THEN (r.feeRevenue24h * 365 * 100) \div r.tvlUsd ELSE 0

Metrics == {"tvl", "volume", "fees", "apr", "liquidity"}

\* getMetricValue of leaderboard.service.ts.
MetricValue(r, metric) ==
    CASE metric = "tvl" -> r.tvlUsd
      [] metric = "volume" -> r.volume24hUsd
      [] metric = "fees" -> r.feeRevenue24h
      [] metric = "apr" -> PoolApr(r)
      [] metric = "liquidity" -> r.reserve0 + r.reserve1

\* getOrderForMetric: the column the database sorts by, which is another value
\* for the last two.
OrderColumn(r, metric) ==
    CASE metric = "tvl" -> r.tvlUsd
      [] metric = "volume" -> r.volume24hUsd
      [] metric \in {"fees", "apr"} -> r.feeRevenue24h
      [] metric = "liquidity" -> r.reserve0

\* getTopPools: pools with their values.
TopPools(rows, metric, limit) ==
    LET column == [p \in DOMAIN rows |-> OrderColumn(rows[p], metric)]
        top == First(Descending(DOMAIN rows, column), limit)
    IN  [i \in DOMAIN top |-> [poolId |-> top[i], value |-> MetricValue(rows[top[i]], metric)]]

\* What a wallet has put into all its pools, less what it took out.
TotalValue(w, lps) ==
    LET held == {p \in Pools : lps[<<w, p>>] # None} IN
    SumFunctionOnSet([p \in held |-> lps[<<w, p>>].token0Deposited + lps[<<w, p>>].token1Deposited],
                     held)

\* The wallets with a position: the keys of lpMap.
Providing(lps) == {w \in Wallets : \E p \in Pools : lps[<<w, p>>] # None}

Totals(lps) == [w \in Providing(lps) |-> TotalValue(w, lps)]

\* getTopLps of leaderboard.service.ts.
TopLps(lps, limit) == First(Descending(Providing(lps), Totals(lps)), limit)

\* Of a sequence of times the start of the bucket that each belongs to: one that
\* is an interval past the start of a bucket starts the next.
BucketStarts(times, interval) ==
    LET start[i \in DOMAIN times] ==
            IF i = 1 THEN times[1]
            ELSE IF times[i] < start[i - 1] + interval THEN start[i - 1] ELSE times[i]
    IN  start

\* Mutant: the last bucket is not closed.
ResampleToLastChange(times, interval) ==
    {i \in DOMAIN times : /\ i < Len(times)
                          /\ times[i + 1] >= BucketStarts(times, interval)[i] + interval}

\* resampleSnapshots of tvl.service.ts: the last snapshot of each bucket stands
\* for it.  The places of those that stay.
ResampleSnapshots(times, interval) ==
    {i \in DOMAIN times : \/ i = Len(times)
                          \/ times[i + 1] >= BucketStarts(times, interval)[i] + interval}

-----------------------------------------------------------------------------
\* A history drawn with an interval keeps a snapshot for each one it leaves out,
\* taken at the same time or less than an interval later; and it is thinned out:
\* of any three that stay the last is at least an interval later than the first.
HistoryKeepsUp ==
    \A n \in 0..4 : \A times \in [1..n -> 0..5], interval \in 1..4 :
        (\A i, j \in 1..n : i < j => times[i] <= times[j]) =>
            LET kept == ResampleSnapshots(times, interval) IN
            /\ \A i \in 1..n : \E k \in kept : i <= k /\ times[k] < times[i] + interval
            /\ \A i, j, k \in kept : i < j /\ j < k => times[i] + interval <= times[k]

\* A list of limit entries at most descends, and nobody it leaves out is better
\* than anyone it shows.
ShowsBest(list, S, key, limit) ==
    LET shown == {list[i] : i \in DOMAIN list} IN
    /\ shown \subseteq S /\ IsInjective(list) /\ Descends(list, key)
    /\ Cardinality(shown) = IF Cardinality(S) < limit THEN Cardinality(S) ELSE limit
    /\ \A o \in S \ shown, s \in shown : key[o] <= key[s]

\* The boards of value, volume and fees show the best.  (Those of apr and
\* liquidity are sorted by another value than they show, and need not.)
BoardsShowBest ==
    LET rows == [{"a", "b", "c"} ->
                    [reserve0 : {1}, reserve1 : {1}, tvlUsd : 0..2, volume24hUsd : 0..1,
                     feeRevenue24h : 0..1, lpCount : {0}]]
    IN  \A r \in rows, limit \in 0..4, metric \in {"tvl", "volume", "fees"} :
            LET board == TopPools(r, metric, limit) IN
            ShowsBest([i \in DOMAIN board |-> board[i].poolId], DOMAIN r,
                      [p \in DOMAIN r |-> MetricValue(r[p], metric)], limit)

\* The board of providers shows those who put in most, over several pools too.
ProvidersShowBest ==
    LET some == [lpTokenAmount : {1}, token0Deposited : -1..1, token1Deposited : {1}] IN
    \A lps \in [Wallets \X Pools -> some \cup {None}], limit \in 0..3 :
        ShowsBest(TopLps(lps, limit), Providing(lps), Totals(lps), limit)

\* A transaction has traded once, in every life of the process.
TradedOnce ==
    \A s \in swaps : Cardinality({i \in Trades : log[i].txHash = s.txHash})
                      = Cardinality({o \in swaps : o.txHash = s.txHash})

\* Half of the value of both amounts of the swaps of a pool.
HalfVolume(p) ==
    SumFunctionOnSet([s \in Recent(swaps, p, 0) |-> (s.amountInUsd + s.amountOutUsd) \div 2],
                     Recent(swaps, p, 0))

\* The swaps of active pools.
OfActive(table) == {s \in table : s.poolId \in ActivePools}

\* Reports agree with each other and with the rows.  The boards of providers show
\* the best and the history of a pool's swaps the newest.  A report of the
\* protocol's fees that begins when the table held some of its swaps, and of
\* which each query finds either those or all, lies between the fees of active
\* pools then and now.  As long as nothing interferes and no transaction trades
\* twice, the fees and the volume that the handlers add up in the row of a pool
\* are those of its swaps, and the amounts of all swaps those of the events.
ReportsAddUp ==
    /\ HistoryKeepsUp
    /\ BoardsShowBest /\ ProvidersShowBest
    /\ \A p \in Pools, take \in {1, 100} :
          LET all == {s \in swaps : s.poolId = p} IN
          ShowsBest(SwapHistory(swaps, p, 0, restarts, take), all, [s \in all |-> s.time], take)
    /\ \A before \in SUBSET swaps : \A seen \in [ActivePools -> {before, swaps}] :
          /\ FeeRevenueSince(OfActive(before), None, 0) <= ProtocolFees(seen, 0)
          /\ ProtocolFees(seen, 0) <= FeeRevenueSince(OfActive(swaps), None, 0)
    /\ (calm /\ TradedOnce /\ \A t \in Tasks : task[t] = Idle) =>
          /\ \A p \in Pools :
                /\ row[p].feeRevenue24h = Seeded[p].feeRevenue24h + FeeRevenueSince(swaps, p, 0)
                /\ row[p].volume24hUsd = Seeded[p].volume24hUsd + HalfVolume(p)
          /\ VolumeSince(swaps, None, 0).volumeTokenA
                = SumFunctionOnSet([i \in Trades |-> log[i].data.amountA], Trades)
=============================================================================
