------------------------------- MODULE MCRows -------------------------------
(***************************************************************************)
(* Two pools for TLC, one of them not active, with a provider each.  One   *)
(* withdraws more than it has (its deposit may come twice, after a         *)
(* restart); a transaction trades in both pools.  What the decoders make   *)
(* of an event of the chain is among the events too, and names no pool.    *)
(***************************************************************************)
EXTENDS Analytics, TLC

Row(a, b) ==
    [reserve0 |-> a, reserve1 |-> b, tvlUsd |-> 0, volume24hUsd |-> 0,
     feeRevenue24h |-> 0, lpCount |-> 0]

MCSeeded == [p |-> Row(400, 800), q |-> Row(400, 100)]

Listed(address, active) ==
    [contractAddress |-> address, symbol0 |-> "XLM", feeBps |-> 30, isActive |-> active]

MCListing ==
    [p |-> Listed("CP", TRUE), q |-> Listed("CQ", FALSE)]

Event(type, tx, index, pool, caller, a, b) ==
    [type |-> type, txHash |-> tx, eventIndex |-> index,
     data |-> [caller |-> caller, tokenIn |-> "XLM", amountA |-> a, amountB |-> b,
               poolAddress |-> pool]]

MCNamed ==
    { Event("Mint", "t1", 0, "CP", "ann", 100, 200), Event("Mint", "t3", 0, "CQ", "bob", 50, 50),
      Event("Burn", "t5", 0, "CP", "ann", 700, 200),
      Event("Swap", "t4", 0, "CP", "bob", 400, 500), Event("Swap", "t4", 1, "CQ", "bob", 400, 70) }

\* Handlers differ in nothing but their name.
Interchangeable == Permutations(Handlers)

MCRaw ==
    { [topic |-> <<"SoroPool", "Mint", "ann">>, data |-> 5, txHash |-> "t6", eventIndex |-> 0] }
=============================================================================
