----------------------------- MODULE MCRouting -----------------------------
(***************************************************************************)
(* A small market for TLC: tokens 1 to 4 and five paths from 1 to 4, of    *)
(* one, two and three hops, more than MaxRoutes.  With the direct pool the *)
(* amount is best split, without it one long path pays more than the split *)
(* of two shorter ones.  Pools may be switched on and off.                 *)
(***************************************************************************)
EXTENDS Routing

Listed(a, b, tvl) == [token0 |-> a, token1 |-> b, feeBps |-> 1, tvlUsd |-> tvl]

Holding(a, b, active) == [reserve0 |-> a, reserve1 |-> b, isActive |-> active]

MCPools == {"p14", "p12", "p24", "q24", "p13", "p23", "p34"}

MCListing ==
    [p14 |-> Listed(1, 4, 1), p12 |-> Listed(1, 2, 2), p24 |-> Listed(2, 4, 2),
     q24 |-> Listed(4, 2, 1), p13 |-> Listed(1, 3, 1), p23 |-> Listed(2, 3, 1),
     p34 |-> Listed(3, 4, 1)]

MCRow ==
    [p14 |-> Holding(60, 50, FALSE), p12 |-> Holding(200, 200, TRUE),
     p24 |-> Holding(60, 30, TRUE), q24 |-> Holding(90, 90, TRUE),
     p13 |-> Holding(40, 20, TRUE), p23 |-> Holding(200, 200, TRUE),
     p34 |-> Holding(200, 200, TRUE)]

MCChanges ==
    [p \in MCPools |->
        CASE p = "p14" -> {Holding(60, 50, TRUE)}
          [] p = "p24" -> {Holding(60, 30, FALSE), Holding(9, 60, TRUE)}
          [] p = "p12" -> {Holding(200, 200, FALSE)}
          [] OTHER -> {}]

MCQuestions == { [tokenIn |-> 1, tokenOut |-> 4, amountIn |-> 40] }

\* "Dijkstra DFS, up to 3 hops" (docs/architecture/data-flow.md:23, and the
\* three-hop swap of README.md:166): every path without a cycle of up to maxHops
\* hops is among those the search finds.
FindsUpToMaxHops ==
    memory # NoGraph =>
        \A q \in Questions :
            Range(FindAllPaths(memory, q.tokenIn, q.tokenOut, MaxHops))
                = {p \in SeqOf(Tokens, MaxHops + 1) :
                      /\ Len(p) > 1
                      /\ p[1] = q.tokenIn /\ Last(p) = q.tokenOut
                      /\ IsInjective(p)
                      /\ \A i \in 1..(Len(p) - 1) : Linked(memory, p[i], p[i + 1])}
=============================================================================
