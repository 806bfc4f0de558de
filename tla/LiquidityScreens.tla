-------------------------- MODULE LiquidityScreens --------------------------
(***************************************************************************)
(* The pages about pools: the lists (pool-list, pool-overview), adding and *)
(* removing liquidity, and the range of a concentrated position.  All of   *)
(* them have the store load the pools when they open (core/store/pools)    *)
(* and look their own pool up in it, answer or no answer.                  *)
(*                                                                         *)
(* PoolsService.findAll answers with the first page of an unordered query. *)
(* The rows change under the indexer; a version numbers their states.      *)
(***************************************************************************)
EXTENDS TxDialog, Integers, FiniteSets

CONSTANTS
    Rows,            \* the rows of each version: pool -> reserve0, reserve1, lpCount
    PageLimit,       \* 20
    PoolPages,       \* pages that show one pool: "add", "remove", ...
    ListPages,       \* pages that show them all
    FirstAmounts, SecondAmounts, Percentages,
    StandInSupply    \* 1000, for a pool with no lpCount

ASSUME LiquidityAssumption ==
    /\ Len(Rows) \in Nat \ {0} /\ DOMAIN Rows = 1..Len(Rows)
    /\ \A v \in DOMAIN Rows :
          /\ IsFiniteSet(DOMAIN Rows[v])
          /\ \A p \in DOMAIN Rows[v] :
                {Rows[v][p].reserve0, Rows[v][p].reserve1, Rows[v][p].lpCount} \subseteq Nat
    /\ PageLimit \in Nat \ {0}
    /\ StandInSupply \in Nat \ {0}
    /\ FirstAmounts \cup SecondAmounts \subseteq Nat
    /\ Percentages \subseteq 0..100

VARIABLES
    version,         \* the server: the state of its rows
    pools,           \* the store: which rows, of which version
    loads,           \* requests that the effect listens to, with the version they found
    poolId,          \* the page: the pool of its route
    form,            \* the page: amountA and amountB, or percentage
    asked,           \* an observation: the version when the page asked
    failed           \* an observation: the answer to that did not come

poolsVars == <<version, pools, loads, poolId, form, asked, failed>>

Versions == DOMAIN Rows
AllPools == UNION {DOMAIN Rows[v] : v \in Versions}

NoListing == [version |-> None, ids |-> {}]

\* The body of an error, an object: find throws on it, and a page shows no pool.
NotAList == [version |-> 0, ids |-> {}]

\* What findAll may answer at a version.
Listings(v) ==
    {[version |-> v, ids |-> ids] :
        ids \in {s \in SUBSET DOMAIN Rows[v] :
                    \/ s = DOMAIN Rows[v] /\ Cardinality(s) <= PageLimit
                    \/ s # DOMAIN Rows[v] /\ Cardinality(s) = PageLimit}}

EmptyForm == [amountA |-> 0, amountB |-> 0, percentage |-> 50]

PoolsInit ==
    /\ version = 1
    /\ pools = NoListing
    /\ loads = {}
    /\ poolId = None
    /\ form = EmptyForm
    /\ asked = 1
    /\ failed = FALSE

\* The indexer changes the rows.
RowsChange ==
    /\ version + 1 \in Versions
    /\ version' = version + 1
    /\ UNCHANGED <<pools, loads, poolId, form, asked, failed>>

-----------------------------------------------------------------------------
\* The store.

\* Mutant: mergeMap, which takes the answers as they come.
AlsoAwaited(load) == loads \cup {load}

\* switchMap: an earlier request is no longer awaited.
Awaited(load) == {load}

\* ngOnInit of each of these pages: loadPools.
OpenPoolsPage(id) ==
    /\ poolId' = id
    /\ form' = EmptyForm
    /\ loads' = Awaited(version)
    /\ asked' = version
    /\ failed' = FALSE
    /\ UNCHANGED <<version, pools>>

OpenOtherPage ==
    /\ poolId' = None
    /\ form' = EmptyForm
    /\ UNCHANGED <<version, pools, loads, asked, failed>>

\* loadPoolsSuccess with the rows the server found while the request was with it.
PoolsLoaded ==
    \E load \in loads : \E v \in load..version : \E listing \in Listings(v) :
        /\ pools' = listing
        /\ loads' = loads \ {load}
        /\ UNCHANGED <<version, poolId, form, asked, failed>>

\* Without an answer in JSON the store has an empty list; an error in JSON is
\* taken for the answer.
LoadFailed ==
    \E load \in loads :
        /\ pools' \in {NoListing, NotAList}
        /\ loads' = loads \ {load}
        /\ failed' = TRUE
        /\ UNCHANGED <<version, poolId, form, asked>>

-----------------------------------------------------------------------------
\* The pages.

Found == poolId \in pools.ids

\* pool()
Pool == Rows[pools.version][poolId]

Supply == IF Pool.lpCount = 0 THEN StandInSupply ELSE Pool.lpCount

\* The lesser of two fractions with positive denominators.
SmallerOf(a, b) == IF a.num * b.den <= b.num * a.den THEN a ELSE b

\* lpTokensPreview as a fraction, for a pool with reserves.  The supply is
\* the number of providers or a stand-in, for the page knows no other.
LpTokensPreview ==
    SmallerOf([num |-> form.amountA * Supply, den |-> Pool.reserve0],
           [num |-> form.amountB * Supply, den |-> Pool.reserve1])

\* Mutant: the share of the supply there was.
ShareOfOldSupply == [num |-> LpTokensPreview.num, den |-> Supply * LpTokensPreview.den]

\* shareOfPool: the preview against the supply that it is part of.
ShareOfPool ==
    [num |-> LpTokensPreview.num,
     den |-> Supply * LpTokensPreview.den + LpTokensPreview.num]

\* previewA and previewB, a percentage of all there is in the pool.
RemovePreview ==
    [amountA |-> Pool.reserve0 * form.percentage, amountB |-> Pool.reserve1 * form.percentage]

Fill(changed) ==
    /\ ~Covered
    /\ form' = changed
    /\ changed # form
    /\ UNCHANGED <<version, pools, loads, poolId, asked, failed>>

OnAmountAChange == page = "add" /\ \E a \in FirstAmounts : Fill([form EXCEPT !.amountA = a])

OnAmountBChange == page = "add" /\ \E b \in SecondAmounts : Fill([form EXCEPT !.amountB = b])

SetPercentage == page = "remove" /\ \E p \in Percentages : Fill([form EXCEPT !.percentage = p])

ReviewPool(shown) ==
    /\ ~Covered /\ wallet # None /\ Found
    /\ Review([poolId |-> poolId, form |-> form, listing |-> pools, shown |-> shown,
               awaited |-> loads # {}])
    /\ UNCHANGED <<page, left>>
    /\ UNCHANGED poolsVars

HasReserves == Pool.reserve0 > 0 /\ Pool.reserve1 > 0

PreviewAddLiquidity ==
    /\ page = "add"
    /\ form.amountA # 0 /\ form.amountB # 0
    /\ ReviewPool(IF HasReserves THEN ShareOfPool ELSE None)

PreviewRemoveLiquidity ==
    /\ page = "remove"
    /\ form.percentage # 0
    /\ ReviewPool(RemovePreview)

\* confirmAddLiquidity and confirmRemoveLiquidity after the signature: the
\* page stays as it is.
LiquiditySigned ==
    /\ page \in {"add", "remove"}
    /\ Signed
    /\ UNCHANGED <<page, left>>
    /\ UNCHANGED poolsVars

LiquiditySignedLate ==
    /\ \E p \in {"add", "remove"} : SignedLate(p)
    /\ UNCHANGED <<page, dialog>>
    /\ UNCHANGED poolsVars

-----------------------------------------------------------------------------
\* Once the pools a page asked for have come, what it shows is not older than
\* the page, whatever earlier pages asked for; and a page finds its pool unless
\* there are more pools than the server lists.  If they did not come, no pool of
\* an earlier page is left on it.
ListingIsCurrent ==
    page \in PoolPages \cup ListPages /\ loads = {} =>
        IF failed THEN ~Found
        ELSE /\ pools.version >= asked
             /\ \/ Found
                \/ poolId \notin DOMAIN Rows[pools.version]
                \/ Cardinality(DOMAIN Rows[pools.version]) > PageLimit
=============================================================================
