------------------------------ MODULE PoolRows ------------------------------
(***************************************************************************)
(* The rows the backend keeps of the pools, and the callbacks that write   *)
(* them: the handlers of liquidity-indexer.service.ts and                  *)
(* swap-indexer.service.ts, which the event processor calls, and the cron  *)
(* job of analytics/tvl.service.ts.                                        *)
(*                                                                         *)
(* A callback is interrupted where it waits for the database.  Each reads  *)
(* a row at its first wait and writes it at its last from the copy it has. *)
(* Polls overlap (module Indexer), so two handlers may be at work at once, *)
(* each on an event of its own.                                            *)
(***************************************************************************)
EXTENDS Integers, Sequences, FiniteSets, SequencesExt, FiniteSetsExt, Functions

CONSTANTS
    Pools, Wallets,
    Listing,             \* of a pool: contractAddress, symbol0, feeBps, isActive
    Seeded,              \* its row at the start
    RawEvents,           \* what the RPC server answers with
    Named,               \* events that name their pool, see Events below
    Handlers, CronJobs,  \* tasks: event handlers, runs of snapshotTvl
    None, NotANumber,
    MaxHanded, MaxMishaps, MaxSnapshots     \* bounds of the model

Rows == [reserve0 : Nat, reserve1 : Nat, tvlUsd : Nat, volume24hUsd : Nat,
         feeRevenue24h : Nat, lpCount : Nat]

Positions == [lpTokenAmount : Nat, token0Deposited : Int, token1Deposited : Int]

\* Nobody has a position at the start, so no row counts one; None is no pool.
ASSUME PoolRowsAssumption ==
    /\ Handlers \cap CronJobs = {}
    /\ {MaxHanded, MaxMishaps, MaxSnapshots} \subseteq Nat
    /\ IsFiniteSet(Pools) /\ Pools # {}
    /\ IsFiniteSet(Wallets)
    /\ Seeded \in [Pools -> Rows]
    /\ \A p \in Pools : /\ Seeded[p].lpCount = 0 /\ Listing[p].feeBps \in Nat
                       /\ Listing[p].isActive \in BOOLEAN
    /\ None \notin Positions /\ None \notin Pools

VARIABLES
    parses,          \* decimal columns are read as whole numbers
    row,             \* table pools
    position,        \* table lp_positions, unique for a wallet and a pool
    swaps,           \* table swaps, unique for a time and a transaction
    snapshots,       \* table tvl_snapshots
    emitted,         \* the last reserves sent to the clients of a pool
    processedKeys,   \* EventProcessorService.processedKeys
    task,            \* where each task waits, and what it holds
    log,             \* the events handled, in the order they were handed
    calm,            \* no two tasks ever met, none failed or was cut off
    failures, restarts

vars == <<parses, row, position, swaps, snapshots, emitted, processedKeys, task,
          log, calm, failures, restarts>>

Tasks == Handlers \cup CronJobs

\* Nothing in the backend writes isActive.
ActivePools == {p \in Pools : Listing[p].isActive}

Idle == [at |-> "idle"]

-----------------------------------------------------------------------------
(* From an event of the RPC server to the event the handlers get. *)

Types == {"Swap", "Mint", "Burn", "PoolCreated"}

\* decodeSwapEvent, decodeMintEvent, decodeBurnEvent: the one value of the
\* event stands for both amounts, and the pool is not among the data.
Decode(topic, data) ==
    LET Nth(i) == IF i \in DOMAIN topic THEN topic[i] ELSE ""
    IN  [caller |-> Nth(3), tokenIn |-> Nth(4), amountA |-> data, amountB |-> data,
         poolAddress |-> ""]

\* parseContractEvents: one event, or none.
ParseContractEvents(raw) ==
    IF Len(raw.topic) < 2 \/ raw.topic[2] \notin Types THEN {}
    ELSE {[type |-> raw.topic[2], txHash |-> raw.txHash, eventIndex |-> raw.eventIndex,
           data |-> Decode(raw.topic, raw.data)]}

\* The handlers accept an event that names its pool; no decoder makes one.
Events == UNION {ParseContractEvents(raw) : raw \in RawEvents} \cup Named

\* An amount is a whole number or none; who calls is a wallet, if it is told.
ASSUME EventsAssumption ==
    \A e \in Events : /\ {e.data.amountA, e.data.amountB} \subseteq Int \cup {NotANumber}
                      /\ e.data.caller \in Wallets \cup {""}

Key(e) == <<e.txHash, e.eventIndex>>

\* The pool a handler looks up.
PoolOf(e) ==
    LET address ==
            IF e.data.poolAddress = "" /\ e.type = "Swap" THEN e.txHash
            ELSE e.data.poolAddress
        found == {p \in Pools : Listing[p].contractAddress = address}
    IN  IF found = {} THEN None ELSE CHOOSE p \in found : TRUE

\* BigInt throws at what is no number, and no amount may be zero.
Positive(amount) == amount # NotANumber /\ amount > 0

MoreOf(x, y) == IF x > y THEN x ELSE y

-----------------------------------------------------------------------------
(* Values the handlers compute. *)

\* estimateUsdValue: an amount of one token counted in the other.
EstimateUsdValue(amount, r, isToken0) ==
    IF r.reserve0 <= 0 \/ r.reserve1 <= 0 THEN 0
    ELSE IF isToken0 THEN (amount * r.reserve1) \div r.reserve0
    ELSE (amount * r.reserve0) \div r.reserve1

UsdIn(e, p, r) ==
    EstimateUsdValue(e.data.amountA, r, e.data.tokenIn = Listing[p].symbol0)

UsdOut(e, p, r) ==
    EstimateUsdValue(e.data.amountB, r, e.data.tokenIn # Listing[p].symbol0)

SwapFee(e, p) == (e.data.amountA * Listing[p].feeBps) \div 10000

\* Mutant: the two reserves are written back the other way round.
WithVolumeCrossed(r, old, e, p) ==
    [r EXCEPT !.reserve0 = old.reserve1, !.reserve1 = old.reserve0]

\* The row that updatePoolVolume writes over the one there is.
WithVolume(r, old, e, p) ==
    [r EXCEPT !.reserve0 = old.reserve0, !.reserve1 = old.reserve1,
              !.volume24hUsd = old.volume24hUsd + (UsdIn(e, p, old) + UsdOut(e, p, old)) \div 2,
              !.feeRevenue24h = old.feeRevenue24h + SwapFee(e, p)]

\* Mutant: a burn may take more than there is.
NewReservesUnfloored(old, e) ==
    IF e.type = "Mint"
    THEN <<old.reserve0 + e.data.amountA, old.reserve1 + e.data.amountB>>
    ELSE <<old.reserve0 - e.data.amountA, old.reserve1 - e.data.amountB>>

\* The reserves after a mint or a burn.
NewReserves(old, e) ==
    IF e.type = "Mint"
    THEN <<old.reserve0 + e.data.amountA, old.reserve1 + e.data.amountB>>
    ELSE <<MoreOf(old.reserve0 - e.data.amountA, 0), MoreOf(old.reserve1 - e.data.amountB, 0)>>

\* The position after a mint or a burn; amountA stands for the shares.
NewPosition(old, e) ==
    LET a == e.data.amountA
        b == e.data.amountB
    IN  IF old = None
        THEN [lpTokenAmount |-> a, token0Deposited |-> a, token1Deposited |-> b]
        ELSE IF e.type = "Mint"
        THEN [lpTokenAmount |-> old.lpTokenAmount + a,
              token0Deposited |-> old.token0Deposited + a,
              token1Deposited |-> old.token1Deposited + b]
        ELSE [lpTokenAmount |-> MoreOf(old.lpTokenAmount - a, 0),
              token0Deposited |-> old.token0Deposited - a,
              token1Deposited |-> old.token1Deposited - b]

\* computePoolTvl; the fraction is left out.
PoolTvl(r) ==
    IF r.reserve0 <= 0 \/ r.reserve1 <= 0 \/ ~parses THEN 0
    ELSE r.reserve0 + (r.reserve1 * r.reserve1) \div r.reserve0

LpCount(p) == Cardinality({w \in Wallets : position[w, p] # None})

-----------------------------------------------------------------------------
RowsInit ==
    /\ parses \in BOOLEAN
    /\ row = Seeded
    /\ position = [k \in Wallets \X Pools |-> None]
    /\ swaps = {} /\ snapshots = {}
    /\ emitted = [p \in Pools |-> None]
    /\ processedKeys = {} /\ log = <<>> /\ calm = TRUE
    /\ task = [t \in Tasks |-> Idle]
    /\ failures = 0 /\ restarts = 0

Tables == <<parses, row, position, swaps, snapshots, emitted>>
History == <<log, calm, failures, restarts>>

Goes(t, to) == task' = [task EXCEPT ![t] = to]

Others(t) == \A u \in Tasks \ {t} : task[u] = Idle

\* indexMint and indexBurn go on after they have looked at the event and the
\* pool,
IsMove(e) ==
    /\ e.type \in {"Mint", "Burn"}
    /\ PoolOf(e) # None
    /\ Positive(e.data.amountA) /\ Positive(e.data.amountB)
    /\ e.data.caller # ""

\* ... and indexSwap does.
IsTrade(e) ==
    /\ e.type = "Swap"
    /\ PoolOf(e) # None
    /\ Positive(e.data.amountA) /\ Positive(e.data.amountB)
    /\ parses

Handled(e) == IsMove(e) \/ IsTrade(e)

\* processEvents and routeEvent hand over an event that is not known yet; the
\* handler looks up the pool and, for a swap, values the amounts.
Hand(t, e) ==
    /\ task[t] = Idle
    /\ Key(e) \notin processedKeys
    /\ Len(log) < MaxHanded
    /\ processedKeys' = processedKeys \cup {Key(e)}
    /\ log' = Append(log, e)
    /\ calm' = (calm /\ Others(t))
    /\ Goes(t, IF ~Handled(e) THEN Idle
               ELSE [at |-> IF e.type = "Swap" THEN "swap" ELSE "pool",
                     e |-> e, p |-> PoolOf(e), pool |-> row[PoolOf(e)]])
    /\ UNCHANGED <<Tables, failures, restarts>>

\* The handler of a mint or a burn looks for the position of the wallet.  A
\* burn without one has nothing to save.
LookForPosition(t) ==
    LET h == task[t]
        existing == position[h.e.data.caller, h.p]
        at == IF existing # None /\ ~parses THEN "idle"
              ELSE IF existing # None \/ h.e.type = "Mint" THEN "position"
              ELSE IF parses THEN "counting" ELSE "idle"
    IN  /\ h.at = "pool"
        /\ Goes(t, IF at = "idle" THEN Idle
                   ELSE [at |-> at, e |-> h.e, p |-> h.p, pool |-> h.pool,
                         existing |-> existing])
        /\ UNCHANGED <<Tables, processedKeys, History>>

\* A new position breaks the constraint if another handler made it meanwhile;
\* an old one is written over.  What fails after that is not undone.
SavePosition(t) ==
    LET h == task[t]
        k == <<h.e.data.caller, h.p>>
        clash == h.existing = None /\ position[k] # None
    IN  /\ h.at = "position"
        /\ position' = IF clash THEN position
                       ELSE [position EXCEPT ![k] = NewPosition(h.existing, h.e)]
        /\ Goes(t, IF clash \/ ~parses THEN Idle ELSE [h EXCEPT !.at = "counting"])
        /\ UNCHANGED <<parses, row, swaps, snapshots, emitted, processedKeys, History>>

CountPositions(t) ==
    /\ task[t].at = "counting"
    /\ Goes(t, [at |-> "updating", p |-> task[t].p, lpCount |-> LpCount(task[t].p),
                reserves |-> NewReserves(task[t].pool, task[t].e)])
    /\ UNCHANGED <<Tables, processedKeys, History>>

\* Mutant: the positions are counted and the count is not written.
UpdateReservesOnly(t) ==
    LET h == task[t] IN
    /\ h.at = "updating"
    /\ row' = [row EXCEPT ![h.p].reserve0 = h.reserves[1], ![h.p].reserve1 = h.reserves[2]]
    /\ Goes(t, [h EXCEPT !.at = "emitting"])
    /\ UNCHANGED <<parses, position, swaps, snapshots, emitted, processedKeys, History>>

\* What it read at first is written over whatever is there now.
UpdatePool(t) ==
    LET h == task[t] IN
    /\ h.at = "updating"
    /\ row' = [row EXCEPT ![h.p].reserve0 = h.reserves[1],
                          ![h.p].reserve1 = h.reserves[2],
                          ![h.p].lpCount = h.lpCount]
    /\ Goes(t, [h EXCEPT !.at = "emitting"])
    /\ UNCHANGED <<parses, position, swaps, snapshots, emitted, processedKeys, History>>

EmitReserves(t) ==
    /\ task[t].at = "emitting"
    /\ emitted' = [emitted EXCEPT ![task[t].p] = task[t].reserves]
    /\ Goes(t, Idle)
    /\ UNCHANGED <<parses, row, position, swaps, snapshots, processedKeys, History>>

\* The time of a swap is the time its event was parsed: events of one answer
\* share it, a later poll has a later one.
SwapRow(e, p, r) ==
    [time |-> restarts, txHash |-> e.txHash, poolId |-> p, walletAddress |-> e.data.caller,
     amountIn |-> e.data.amountA, amountOut |-> e.data.amountB,
     amountInUsd |-> UsdIn(e, p, r), amountOutUsd |-> UsdOut(e, p, r),
     feeAmount |-> SwapFee(e, p)]

\* save inserts a row, or writes over the one with the same key.
Saved(table, s) ==
    {o \in table : <<o.time, o.txHash>> # <<s.time, s.txHash>>} \cup {s}

SaveSwap(t) ==
    LET h == task[t] IN
    /\ h.at = "swap"
    /\ swaps' = Saved(swaps, SwapRow(h.e, h.p, h.pool))
    /\ Goes(t, [h EXCEPT !.at = "volume"])
    /\ UNCHANGED <<parses, row, position, snapshots, emitted, processedKeys, History>>

\* updatePoolVolume writes the reserves it read back.  The entries of Redis
\* that are deleted afterwards are part of module Routing.
UpdatePoolVolume(t) ==
    LET h == task[t] IN
    /\ h.at = "volume"
    /\ row' = [row EXCEPT ![h.p] = WithVolume(@, h.pool, h.e, h.p)]
    /\ Goes(t, Idle)
    /\ UNCHANGED <<parses, position, swaps, snapshots, emitted, processedKeys, History>>

\* snapshotTvl, every five minutes: the value of every active pool, from one read,
StartSnapshot(t) ==
    /\ task[t] = Idle
    /\ ActivePools # {}
    /\ Cardinality(snapshots) < MaxSnapshots
    /\ calm' = (calm /\ Others(t))
    /\ Goes(t, [at |-> "reading", left |-> SetToSeq(ActivePools),
                tvl |-> [p \in Pools |-> PoolTvl(row[p])]])
    /\ UNCHANGED <<Tables, processedKeys, log, failures, restarts>>

\* ... then pool by pool the reserves, from a second read,
ReadAgain(t) ==
    /\ task[t].at = "reading"
    /\ Goes(t, [at |-> "snapshot", left |-> task[t].left, tvl |-> task[t].tvl,
                pool |-> row[Head(task[t].left)]])
    /\ UNCHANGED <<Tables, processedKeys, History>>

\* ... which make a snapshot with the value of the first,
SaveSnapshot(t) ==
    LET h == task[t]
        p == Head(h.left)
    IN  /\ h.at = "snapshot"
        /\ snapshots' = snapshots \cup
               {[poolId |-> p, tvlUsd |-> h.tvl[p], number |-> Cardinality(snapshots),
                 reserve0 |-> h.pool.reserve0, reserve1 |-> h.pool.reserve1]}
        /\ Goes(t, [at |-> "tvl", left |-> h.left, tvl |-> h.tvl])
        /\ UNCHANGED <<parses, row, position, swaps, emitted, processedKeys, History>>

\* ... and that value becomes the value of the pool.
UpdateTvl(t) ==
    LET h == task[t]
        p == Head(h.left)
    IN  /\ h.at = "tvl"
        /\ row' = [row EXCEPT ![p].tvlUsd = h.tvl[p]]
        /\ Goes(t, IF Len(h.left) = 1 THEN Idle
                   ELSE [at |-> "reading", left |-> Tail(h.left), tvl |-> h.tvl])
        /\ UNCHANGED <<parses, position, swaps, snapshots, emitted, processedKeys, History>>

\* A call fails, or its answer does not arrive: the error is logged and the
\* event stays known.
TaskFails(t) ==
    /\ task[t] # Idle
    /\ failures + restarts < MaxMishaps
    /\ failures' = failures + 1
    /\ calm' = FALSE
    /\ Goes(t, Idle)
    /\ UNCHANGED <<Tables, processedKeys, log, restarts>>

\* The process is started again and knows no event: each may be handed again.
Restart ==
    /\ failures + restarts < MaxMishaps
    /\ restarts' = restarts + 1
    /\ calm' = (calm /\ \A t \in Tasks : task[t] = Idle)
    /\ processedKeys' = {}
    /\ task' = [t \in Tasks |-> Idle]
    /\ UNCHANGED <<Tables, log, failures>>

RowsNext ==
    \/ \E t \in Handlers : \E e \in Events : Hand(t, e)
    \/ \E t \in Handlers :
          \/ LookForPosition(t) \/ SavePosition(t) \/ CountPositions(t)
          \/ UpdatePool(t) \/ EmitReserves(t) \/ SaveSwap(t) \/ UpdatePoolVolume(t)
    \/ \E t \in CronJobs :
          StartSnapshot(t) \/ ReadAgain(t) \/ SaveSnapshot(t) \/ UpdateTvl(t)
    \/ \E t \in Tasks : TaskFails(t)
    \/ Restart

RowsSpec == RowsInit /\ [][RowsNext]_vars

-----------------------------------------------------------------------------
(* What the rows should say: the events of a pool, one after another. *)

\* The places of the trades in the log.
Trades == {i \in DOMAIN log : IsTrade(log[i])}

\* The reserves of a pool after an event, if it is a mint or a burn of that pool.
After(p, r, e) ==
    LET a == e.data.amountA
        b == e.data.amountB
    IN  IF ~IsMove(e) \/ PoolOf(e) # p THEN r
        ELSE IF e.type = "Mint" THEN <<r[1] + a, r[2] + b>>
        ELSE <<MoreOf(r[1] - a, 0), MoreOf(r[2] - b, 0)>>

ReservesOf(r) == <<r.reserve0, r.reserve1>>

Reserves(p) == ReservesOf(row[p])

\* The reserves that a sequence of events leaves.
ReservesAfter(p, events) ==
    LET after[i \in 0..Len(events)] ==
            IF i = 0 THEN ReservesOf(Seeded[p]) ELSE After(p, after[i - 1], events[i])
    IN  after[Len(events)]

\* The mints and burns of a pool that were handed.
MovesOf(p) == {e \in Range(log) : IsMove(e) /\ PoolOf(e) = p}

\* The reserves that some of these events leave, in some order and each counted
\* once.
Explicable(p, events) ==
    {ReservesAfter(p, order) : order \in SetToAllKPermutations(events)}

RowsTypeOK ==
    /\ \A p \in Pools : row[p] \in Rows /\ row[p].lpCount <= LpCount(p)
    /\ \A k \in Wallets \X Pools : position[k] = None \/ position[k] \in Positions
    /\ \A s, o \in swaps : <<s.time, s.txHash>> = <<o.time, o.txHash>> => s = o

\* However handlers overwrite each other, fail or are cut off, the reserves of a
\* pool are those that some of its mints and burns leave in some order, each
\* counted once in a life of the process; and a snapshot shows such reserves too.
\* A handler may lose the event of another, it never counts one twice.
NoEventCountsTwice ==
    restarts = 0 =>
        \A p \in Pools :
            LET left == Explicable(p, MovesOf(p)) IN
            /\ Reserves(p) \in left
            /\ \A s \in snapshots : s.poolId = p => ReservesOf(s) \in left

\* The wallets of the pool that were minted for.
Providers(p) == {e.data.caller : e \in {f \in MovesOf(p) : f.type = "Mint"}}

\* The trades of a pool that were handed.
TradesOf(p) == {e \in Range(log) : IsTrade(e) /\ PoolOf(e) = p}

\* As long as no two tasks meet and none fails, once all are done: if the columns
\* read as whole numbers nothing is lost.  The positions of a pool are those of
\* the wallets that minted, its reserves, unless it has traded, those its mints
\* and burns leave in the order they came (if it has, see ReservesAreCurrent), its
\* clients were told so, every transaction that traded has a row, and each
\* snapshot values the reserves it shows.  If the columns do not, as with the
\* decimal columns of pool.entity.ts, no swap has a row, no client is told
\* anything, and no mint or burn reaches the reserves.
CalmRowsAreExact ==
    (calm /\ \A t \in Tasks : task[t] = Idle) =>
        /\ parses =>
              /\ \A p \in Pools :
                    /\ {w \in Wallets : position[w, p] # None} = Providers(p)
                    /\ TradesOf(p) = {} => Reserves(p) = ReservesAfter(p, log)
                    /\ emitted[p] # None =>
                          emitted[p] = Reserves(p) /\ row[p].lpCount = Cardinality(Providers(p))
              /\ {s.txHash : s \in swaps} = {e.txHash : e \in {f \in Range(log) : IsTrade(f)}}
              /\ \A s \in snapshots : s.tvlUsd = PoolTvl(s)
        /\ ~parses =>
              /\ swaps = {}
              /\ \A p \in Pools : emitted[p] = None /\ Reserves(p) = ReservesOf(Seeded[p])

\* What the trades of a pool have moved from its second token to its first.
Traded(p, first) ==
    MapThenSumSet(LAMBDA i :
        LET d == log[i].data
            isToken0 == d.tokenIn = Listing[p].symbol0
        IN  IF isToken0 = first THEN d.amountA ELSE 0 - d.amountB,
        {i \in Trades : PoolOf(log[i]) = p})

\* The reserves that a pool shows are its current ones (README: "GET
\* /api/v1/pools/:poolId/reserves  Get current reserves"): those its events
\* leave, trades included.  No handler moves them by a trade.
ReservesAreCurrent ==
    (calm /\ parses /\ \A t \in Tasks : task[t] = Idle) =>
        \A p \in Pools :
            LET r == ReservesAfter(p, log) IN
            Reserves(p) = <<r[1] + Traded(p, TRUE), r[2] + Traded(p, FALSE)>>
=============================================================================
