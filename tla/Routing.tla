------------------------------ MODULE Routing ------------------------------
(***************************************************************************)
(* The quotes of backend/src/modules/routing: graph.service.ts keeps a     *)
(* graph of the active pools in memory and a copy of it in Redis,          *)
(* routing.service.ts searches it for paths and simulates them,            *)
(* split-route.service.ts divides an amount over two of them and           *)
(* quote-aggregator.service.ts keeps answers in Redis for two seconds.     *)
(*                                                                         *)
(* JavaScript runs one callback at a time: a task is interrupted only      *)
(* where it waits for the database or for Redis.  With the graph in memory *)
(* search, simulation and split wait for nothing, so one answer is         *)
(* computed in one step.                                                   *)
(***************************************************************************)
EXTENDS OffchainMath, Ordering, Sequences, FiniteSets, SequencesExt

CONSTANTS
    Pools, Tokens,          \* tokens are numbers, met in ascending order
    Listing,                \* of a pool: token0, token1, feeBps, tvlUsd
    InitialRow,             \* of a pool: reserve0, reserve1, isActive
    Changes,                \* what may become of the row of a pool
    Questions,              \* tokenIn, tokenOut, amountIn
    MaxHops, MaxRoutes,     \* 3 and 20 unless configuration.ts is told otherwise
    Rebuilds, Requests,     \* tasks: runs of the cron job, requests in progress
    NoGraph, NoQuote,
    GraphLimit,             \* the pools buildGraph asks for: 1000
    MaxChanges, MaxFailures, MaxRestarts     \* bounds of the model

Row == [reserve0 : Nat, reserve1 : Nat, isActive : BOOLEAN]

ASSUME RoutingAssumption ==
    /\ Tokens \subseteq Nat /\ IsFiniteSet(Tokens) /\ IsFiniteSet(Pools)
    /\ MaxHops \in Nat /\ MaxRoutes \in Nat
    /\ GraphLimit \in Nat
    /\ Rebuilds \cap Requests = {}
    /\ {MaxChanges, MaxFailures, MaxRestarts} \subseteq Nat

\* The table is within one page of the query: which pools an unordered query
\* leaves out of a larger one is not modelled.
ASSUME PageAssumption == Cardinality(Pools) <= GraphLimit

\* A pool is of two tokens, its fee no more than the whole, and its row holds
\* numbers that are not negative.
ASSUME MarketAssumption ==
    /\ \A p \in Pools :
          /\ Listing[p].token0 \in Tokens /\ Listing[p].token1 \in Tokens
          /\ Listing[p].feeBps \in 0..FEE_DENOMINATOR
          /\ Listing[p].tvlUsd \in Int
          /\ Changes[p] \subseteq Row
    /\ InitialRow \in [Pools -> Row]
    /\ \A q \in Questions : q.amountIn \in Int

VARIABLES
    row,             \* the table of pools
    memory,          \* GraphService.graph
    cachedGraph,     \* Redis, routing:graph
    cachedQuote,     \* Redis, quote:<tokenIn>:<tokenOut>:<amountIn>
    task,            \* where each task waits, and what it holds
    changes, failures, restarts

vars == <<row, memory, cachedGraph, cachedQuote, task, changes, failures, restarts>>

Tasks == Rebuilds \cup Requests

Idle == [at |-> "idle"]

-----------------------------------------------------------------------------
(* The graph: two directed edges for every active pool. *)

EdgesOf(p) ==
    LET l == Listing[p] IN
    { [poolId |-> p, tokenIn |-> l.token0, tokenOut |-> l.token1,
       reserveIn |-> row[p].reserve0, reserveOut |-> row[p].reserve1,
       feeBps |-> l.feeBps, tvlUsd |-> l.tvlUsd],
      [poolId |-> p, tokenIn |-> l.token1, tokenOut |-> l.token0,
       reserveIn |-> row[p].reserve1, reserveOut |-> row[p].reserve0,
       feeBps |-> l.feeBps, tvlUsd |-> l.tvlUsd] }

BuildGraph == UNION {EdgesOf(p) : p \in {a \in Pools : row[a].isActive}}

HasNode(g, t) == \E e \in g : t = e.tokenIn

\* forEachNeighbor; both directions of a pool are there, so one is enough.
Neighbors(g, t) ==
    LET others == {e.tokenOut : e \in {f \in g : f.tokenIn = t}}
    IN  InOrder(others, [o \in others |-> o])

Linked(g, from, to) == \E e \in g : e.tokenIn = from /\ e.tokenOut = to

\* findBestEdge: of the pools of a pair the one with the most value locked.
FindBestEdge(g, from, to) ==
    LET candidates == {e \in g : e.tokenIn = from /\ e.tokenOut = to}
    IN  CHOOSE e \in candidates : \A f \in candidates : f.tvlUsd <= e.tvlUsd

-----------------------------------------------------------------------------
(* The search of routing.service.ts: depth first, over paths without cycles. *)

\* Mutant: the bound on hops as the name says.
HopsSpentAfter(path, maxHops) == Len(path) - 1 > maxHops

HopsSpent(path, maxHops) == Len(path) - 1 >= maxHops

\* Where the search stands: at the end of path, with the neighbors left to try.
Search == [path : Seq(Tokens), left : Seq(Tokens), found : Seq(Seq(Tokens))]

At(path, left, found) == [path |-> path, left |-> left, found |-> found]

\* All paths from start to end in the order of the search: path is extended by
\* each of the neighbors left, after the paths found so far.
PathsFrom(g, end, start, maxHops) ==
    LET dfs[s \in Search] ==
            LET longer == Append(s.path, Head(s.left))
                entered ==
                    IF Head(s.left) \in Range(s.path) \/ HopsSpent(longer, maxHops) THEN s.found
                    ELSE IF Head(s.left) = end THEN Append(s.found, longer)
                    ELSE IF Len(s.found) >= MaxRoutes THEN s.found
                    ELSE dfs[At(longer, Neighbors(g, Head(s.left)), s.found)]
            IN  IF s.left = <<>> THEN s.found ELSE dfs[At(s.path, Tail(s.left), entered)]
    IN  dfs[At(<<start>>, Neighbors(g, start), <<>>)]

\* The shortest of them first, and no more than MaxRoutes.
ShortestFirst(found) ==
    LET order == InOrder(DOMAIN found, [i \in DOMAIN found |-> Len(found[i])])
    IN  [k \in 1..FewerOf(Len(found), MaxRoutes) |-> found[order[k]]]

FindAllPaths(g, tokenIn, tokenOut, maxHops) ==
    IF ~HasNode(g, tokenIn) \/ ~HasNode(g, tokenOut) THEN <<>>
    ELSE ShortestFirst(PathsFrom(g, tokenOut, tokenIn, maxHops))

\* A route that cannot be simulated, null in the code.
NoRoute == [ok |-> FALSE, steps |-> <<>>, amountOut |-> 0]

HopPays(amount, e) == GetAmountOutOk(amount, e.reserveIn, e.reserveOut, e.feeBps)

\* One hop after another, each through the best pool of its pair and with what
\* the hop before pays.
SimulatePath(g, path, amountIn) ==
    LET Edge(i) == FindBestEdge(g, path[i], path[i + 1])
        amount[i \in 1..Len(path)] ==
            IF i = 1 THEN amountIn
            ELSE GetAmountOut(amount[i - 1], Edge(i - 1).reserveIn, Edge(i - 1).reserveOut,
                              Edge(i - 1).feeBps)
        hops == 1..(Len(path) - 1)
    IN  IF \A i \in hops : Linked(g, path[i], path[i + 1]) /\ HopPays(amount[i], Edge(i))
        THEN [ok |-> TRUE, amountOut |-> amount[Len(path)],
              steps |-> [i \in hops |->
                  [poolId |-> Edge(i).poolId, tokenIn |-> path[i], tokenOut |-> path[i + 1],
                   amountIn |-> amount[i], amountOut |-> amount[i + 1]]]]
        ELSE NoRoute

\* Of several routes the first of those that pay most.
BestOf(routes) ==
    LET best == {i \in DOMAIN routes :
                    routes[i].ok /\ \A j \in DOMAIN routes :
                                      routes[j].amountOut <= routes[i].amountOut}
    IN  IF best = {} THEN NoRoute ELSE routes[Min(best)]

\* findBestRoute: paths of the graph that was searched, on the graph of now.
FindBestRoute(searched, g, q, maxHops) ==
    LET paths == FindAllPaths(searched, q.tokenIn, q.tokenOut, maxHops)
    IN  BestOf([i \in DOMAIN paths |-> SimulatePath(g, paths[i], q.amountIn)])

-----------------------------------------------------------------------------
(* split-route.service.ts *)

\* Mutant: the split told the bound that is configured.
SplitHopsConfigured == MaxHops

\* Its own bound on hops: nobody tells it the one that is configured.
SplitHops == 3

\* 0.05 added up until it passes 0.95: the nineteenth sum does already.
Ratios == [i \in 1..18 |-> 5 * i]

\* The paths that pay, those that pay most first.
RankedPaths(g, q) ==
    LET paths == FindAllPaths(g, q.tokenIn, q.tokenOut, SplitHops)
        out == [i \in DOMAIN paths |-> SimulatePath(g, paths[i], q.amountIn).amountOut]
        paying == {i \in DOMAIN paths : out[i] > 0}
        order == InOrder(paying, [i \in paying |-> -out[i]])
    IN  [k \in DOMAIN order |-> paths[order[k]]]

\* A split of the amount over two paths.
SplitAt(g, pathA, pathB, amountA, amountB) ==
    LET a == SimulatePath(g, pathA, amountA)
        b == SimulatePath(g, pathB, amountB)
    IN  IF a.ok /\ b.ok
        THEN [ok |-> TRUE, steps |-> a.steps \o b.steps,
              amountOut |-> a.amountOut + b.amountOut]
        ELSE NoRoute

\* The best ratio for the two paths.
SplitOver(g, q, ranked) ==
    LET amountA(i) == (q.amountIn * Ratios[i]) \div 100
    IN  IF Len(ranked) < 2 THEN NoRoute
        ELSE BestOf([i \in DOMAIN Ratios |->
                 SplitAt(g, ranked[1], ranked[2], amountA(i), q.amountIn - amountA(i))])

\* A split that pays more than one route alone.
PaysMore(split, single) ==
    IF single.ok /\ split.amountOut > single.amountOut THEN split ELSE NoRoute

OptimizeSplit(g, q) ==
    PaysMore(SplitOver(g, q, RankedPaths(g, q)), FindBestRoute(g, g, q, SplitHops))

\* What is answered: the split if it pays more than the one route, which was
\* searched with another bound on hops than the split.  The graph that priced it
\* is noted for the properties.
Answer(single, split, g) ==
    LET chosen == IF split.ok /\ split.amountOut > single.amountOut THEN split ELSE single
    IN  IF ~single.ok THEN NoQuote
        ELSE [amountOut |-> chosen.amountOut, steps |-> chosen.steps, pricedBy |-> g]

\* getBestQuote after its miss in the cache.
BestQuote(searched, g, q) ==
    Answer(FindBestRoute(searched, g, q, MaxHops), OptimizeSplit(g, q), g)

-----------------------------------------------------------------------------
(* The tasks. *)

RoutingInit ==
    /\ row = InitialRow
    /\ memory = NoGraph
    /\ cachedGraph = NoGraph
    /\ cachedQuote = [q \in Questions |-> NoQuote]
    /\ task = [t \in Tasks |-> Idle]
    /\ changes = 0 /\ failures = 0 /\ restarts = 0

Bounds == <<changes, failures, restarts>>

Goes(t, to) == task' = [task EXCEPT ![t] = to]

\* rebuildGraph, every 30 seconds, whether or not the last run has ended: the
\* answer of the database is on its way.
RebuildReads(t) ==
    /\ task[t] = Idle
    /\ Goes(t, [at |-> "rebuilt", graph |-> BuildGraph])
    /\ UNCHANGED <<row, memory, cachedGraph, cachedQuote, Bounds>>

\* Mutant: a graph that is there is not replaced.
RebuildKeeps(t) ==
    /\ task[t].at = "rebuilt"
    /\ memory' = IF memory = NoGraph THEN task[t].graph ELSE memory
    /\ Goes(t, [task[t] EXCEPT !.at = "storing"])
    /\ UNCHANGED <<row, cachedGraph, cachedQuote, Bounds>>

RebuildAssigns(t) ==
    /\ task[t].at = "rebuilt"
    /\ memory' = task[t].graph
    /\ Goes(t, [task[t] EXCEPT !.at = "storing"])
    /\ UNCHANGED <<row, cachedGraph, cachedQuote, Bounds>>

RebuildStores(t) ==
    /\ task[t].at = "storing"
    /\ cachedGraph' = task[t].graph
    /\ Goes(t, Idle)
    /\ UNCHANGED <<row, memory, cachedQuote, Bounds>>

\* The answer to q, or none, is ready to be stored and returned.
Quoted(t, q, quote) ==
    Goes(t, IF quote = NoQuote THEN Idle ELSE [at |-> "quoted", q |-> q, quote |-> quote])

\* getBestQuote with a miss in the cache and the graph in memory.  With a hit
\* it returns what is cached and changes nothing.
Ask(t, q) ==
    /\ task[t] = Idle
    /\ cachedQuote[q] = NoQuote
    /\ memory # NoGraph
    /\ Quoted(t, q, BestQuote(memory, memory, q))
    /\ UNCHANGED <<row, memory, cachedGraph, cachedQuote, Bounds>>

\* The same before any graph is in memory: getGraph asks Redis for its copy.
AskForGraph(t, q) ==
    /\ task[t] = Idle
    /\ cachedQuote[q] = NoQuote
    /\ memory = NoGraph
    /\ Goes(t, IF cachedGraph # NoGraph
               THEN [at |-> "copied", q |-> q, graph |-> cachedGraph]
               ELSE [at |-> "missed", q |-> q])
    /\ UNCHANGED <<row, memory, cachedGraph, cachedQuote, Bounds>>

\* ... whose copy it puts in memory, whatever is there by now.
TakeCopy(t) ==
    /\ task[t].at = "copied"
    /\ memory' = task[t].graph
    /\ Quoted(t, task[t].q, BestQuote(task[t].graph, task[t].graph, task[t].q))
    /\ UNCHANGED <<row, cachedGraph, cachedQuote, Bounds>>

\* ... or builds one of its own,
RequestReads(t) ==
    /\ task[t].at = "missed"
    /\ Goes(t, [at |-> "built", q |-> task[t].q, graph |-> BuildGraph])
    /\ UNCHANGED <<row, memory, cachedGraph, cachedQuote, Bounds>>

RequestAssigns(t) ==
    /\ task[t].at = "built"
    /\ memory' = task[t].graph
    /\ Goes(t, [task[t] EXCEPT !.at = "sharing"])
    /\ UNCHANGED <<row, cachedGraph, cachedQuote, Bounds>>

\* ... stores it, and searches it while it simulates on the one in memory.
RequestShares(t) ==
    /\ task[t].at = "sharing"
    /\ cachedGraph' = task[t].graph
    /\ Quoted(t, task[t].q, BestQuote(task[t].graph, memory, task[t].q))
    /\ UNCHANGED <<row, memory, cachedQuote, Bounds>>

QuoteStored(t) ==
    /\ task[t].at = "quoted"
    /\ cachedQuote' = [cachedQuote EXCEPT ![task[t].q] = task[t].quote]
    /\ Goes(t, Idle)
    /\ UNCHANGED <<row, memory, cachedGraph, Bounds>>

\* A call of the database or of Redis fails: a rebuild logs it, a request
\* answers with an error; neither undoes what it did before.
TaskFails(t) ==
    /\ task[t] # Idle
    /\ failures < MaxFailures
    /\ failures' = failures + 1
    /\ Goes(t, Idle)
    /\ UNCHANGED <<row, memory, cachedGraph, cachedQuote, changes, restarts>>

\* The 2 and the 60 seconds of the entries in Redis pass.  The graph also goes
\* when a swap is indexed; the keys of quotes deleted then are none that exist.
ExpireQuote(q) ==
    /\ cachedQuote[q] # NoQuote
    /\ cachedQuote' = [cachedQuote EXCEPT ![q] = NoQuote]
    /\ UNCHANGED <<row, memory, cachedGraph, task, Bounds>>

ExpireGraph ==
    /\ cachedGraph # NoGraph
    /\ cachedGraph' = NoGraph
    /\ UNCHANGED <<row, memory, cachedQuote, task, Bounds>>

\* Trades, deposits and withdrawals that the indexer records, or a pool that
\* is switched on or off.
RowChanges(p, r) ==
    /\ changes < MaxChanges
    /\ row[p] # r
    /\ row' = [row EXCEPT ![p] = r]
    /\ changes' = changes + 1
    /\ UNCHANGED <<memory, cachedGraph, cachedQuote, task, failures, restarts>>

\* The process is started again; Redis and the database are not.
Restart ==
    /\ restarts < MaxRestarts
    /\ restarts' = restarts + 1
    /\ memory' = NoGraph
    /\ task' = [t \in Tasks |-> Idle]
    /\ UNCHANGED <<row, cachedGraph, cachedQuote, changes, failures>>

\* What a task goes on with when its answer arrives.
TaskGoesOn(t) ==
    \/ RebuildAssigns(t) \/ RebuildStores(t)
    \/ TakeCopy(t) \/ RequestReads(t) \/ RequestAssigns(t) \/ RequestShares(t)
    \/ QuoteStored(t)

RoutingNext ==
    \/ \E t \in Rebuilds : RebuildReads(t)
    \/ \E t \in Requests, q \in Questions : Ask(t, q) \/ AskForGraph(t, q)
    \/ \E t \in Tasks : TaskGoesOn(t) \/ TaskFails(t)
    \/ \E q \in Questions : ExpireQuote(q)
    \/ ExpireGraph
    \/ \E p \in Pools : \E r \in Changes[p] : RowChanges(p, r)
    \/ Restart

\* The cron job is run again and again, the entries of Redis expire, and every
\* call of a task is answered or fails.  The last is stated by its effect: no
\* task waits for ever.  Nobody has to ask anything.
RoutingFairness ==
    /\ \A t \in Rebuilds : WF_vars(RebuildReads(t))
    /\ \A q \in Questions : WF_vars(ExpireQuote(q))
    /\ \A t \in Tasks : []<>(task[t] = Idle)

RoutingSpec == RoutingInit /\ [][RoutingNext]_vars /\ RoutingFairness

-----------------------------------------------------------------------------
\* An answer can be carried out as it was simulated: its legs bring in the
\* whole amount between them, each hands on what it got until it has the token
\* asked for, and no pool is used twice.  A second use would find the reserves
\* moved by the first and pay less than promised.
Executable(quote, q) ==
    LET s == quote.steps
        starts == {i \in DOMAIN s : s[i].tokenIn = q.tokenIn}
        ends == {i \in DOMAIN s : s[i].tokenOut = q.tokenOut}
    IN  /\ \A i, j \in DOMAIN s : i # j => s[i].poolId # s[j].poolId
        /\ \A i \in DOMAIN s \ starts : /\ s[i].amountIn = s[i - 1].amountOut
                                        /\ s[i].tokenIn = s[i - 1].tokenOut
        /\ SumFunctionOnSet([i \in DOMAIN s |-> s[i].amountIn], starts) = q.amountIn
        /\ SumFunctionOnSet([i \in DOMAIN s |-> s[i].amountOut], ends) = quote.amountOut
        /\ Cardinality(starts) = Cardinality(ends)

QuoteIsExecutable ==
    /\ \A q \in Questions : cachedQuote[q] # NoQuote => Executable(cachedQuote[q], q)
    /\ \A t \in Requests : task[t].at = "quoted" => Executable(task[t].quote, task[t].q)

\* The search finds the paths without a cycle that have fewer than maxHops
\* hops, each once, or MaxRoutes of them if there are more.  It is what
\* findAllPathsInGraph does; that a path of maxHops hops is left out is not what
\* the documents say (FindsUpToMaxHops of MCRouting).
SearchIsComplete ==
    memory # NoGraph =>
        \A q \in Questions, maxHops \in {MaxHops, SplitHops} :
            LET found == FindAllPaths(memory, q.tokenIn, q.tokenOut, maxHops)
                paths == {p \in SeqOf(Tokens, maxHops) :
                             /\ Len(p) > 1
                             /\ p[1] = q.tokenIn /\ Last(p) = q.tokenOut
                             /\ IsInjective(p)
                             /\ \A i \in 1..(Len(p) - 1) : Linked(memory, p[i], p[i + 1])}
            IN  /\ Range(found) \subseteq paths
                /\ IsInjective(found)
                /\ Len(found) = FewerOf(Cardinality(paths), MaxRoutes)

\* When the pools stop changing, the graph in memory becomes theirs and every
\* answer in the cache is priced by it, although slow rebuilds, requests of a
\* cold start and the copy in Redis may each bring back an older graph.
QuotesCatchUp ==
    <>[] /\ memory = BuildGraph
         /\ \A q \in Questions :
               cachedQuote[q] # NoQuote => cachedQuote[q].pricedBy = BuildGraph
=============================================================================
