------------------------------- MODULE MCTwap -------------------------------
(***************************************************************************)
(* The pool beside the time since both its reserves are positive: whether  *)
(* its price accumulators move as its test suite expects.                  *)
(***************************************************************************)
EXTENDS MCPool

VARIABLE pricedSince      \* history: NoTime while a reserve is empty

Priced(r) == \A s \in Side : r[s] > 0

TwapInit == Init /\ pricedSince = NoTime

TwapNext ==
    /\ Next
    /\ pricedSince' = IF ~Priced(reserve') THEN NoTime
                      ELSE IF pricedSince = NoTime THEN now ELSE pricedSince

TwapSpec == TwapInit /\ [][TwapNext]_<<vars, pricedSince>>

Swap ==
    \/ \E u \in Users, n \in TradeAmounts, m \in MinAmounts, s \in Side,
          h \in Address, t \in LeadTimes : SwapExactIn(u, n, m, s, h, now + t)
    \/ \E u \in Users, n, m \in TradeAmounts, s \in Side,
          h \in Address, t \in LeadTimes : SwapExactOut(u, n, m, s, h, now + t)

\* A swap made some time after the pool was funded leaves a price behind in an
\* accumulator and its own time as the time of the last update
\* (constant-product-pool/tests/test.rs:580-581).
SwapAccumulatesPrices ==
    [][Swap /\ pricedSince # NoTime /\ now > pricedSince
         => /\ \E s \in Side : priceAcc'[s] # 0
            /\ lastTime' = now]_<<vars, pricedSince>>
=============================================================================
