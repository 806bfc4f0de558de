------------------------ MODULE ConstantProductPool ------------------------
(***************************************************************************)
(* contracts/constant-product-pool composed with the contracts it calls:   *)
(* its LP token (module LpToken) and the two token contracts, which are    *)
(* external (SEP-41) and modelled from the transfer and balance calls of   *)
(* the pool.                                                               *)
(*                                                                         *)
(* The host runs one invocation at a time, forbids re-entrancy and rolls   *)
(* an invocation that returns an error or traps back as a whole.  An       *)
(* action is therefore one successful call with everything it calls.       *)
(*                                                                         *)
(* The code writes each operation once per direction (zero_for_one, token  *)
(* a / token b).  Here a side is "a" or "b" and the direction is a         *)
(* parameter.                                                              *)
(***************************************************************************)
EXTENDS LpToken, ConstantProductMath, TokenTransfer

CONSTANTS
    Users,            \* accounts, and contracts that answer flash swaps
    Pool,             \* the pool contract's own address
    Endowment,        \* Endowment[u][s]: u's initial balance of the token of s
    Spenders,         \* whom holders of shares allow to move them
    FeeTiers,         \* the fee tiers initialize is called with
    ProtocolFeeBps,   \* 1667 in the code, of FeeDenominator
    PriceScale,       \* 2^64, the fixed point of the price accumulators
    U32Modulus,       \* 2^32
    TradeAmounts,     \* the amounts callers pass to a pool function
    FlashAmounts,     \* the amounts a flash swap borrows and gets back
    MinAmounts,       \* the minimums callers pass
    LeadTimes,        \* deadline minus the time of the call
    MaxTime,          \* bound on ledger time
    MaxFees,          \* bound on the fees a side accumulates
    NoTime,           \* "key not set" for the accumulators' timestamp
    HostReadsU32AsI128,   \* see SwapServable
    PoolAuthorisesItself  \* see CollectProtocolFees

Side     == {"a", "b"}
Other(s) == IF s = "a" THEN "b" ELSE "a"

ASSUME PoolAssumption ==
    /\ Address = Users \cup {Pool}
    /\ Pool \notin Users
    /\ Endowment \in [Users -> [Side -> Nat]]
    /\ Spenders \subseteq Address
    /\ FeeTiers \subseteq 0..FeeDenominator
    /\ ProtocolFeeBps \in 0..FeeDenominator
    /\ PriceScale \in Nat \ {0}
    /\ U32Modulus \in Nat \ {0}
    /\ TradeAmounts \subseteq Int
    /\ FlashAmounts \subseteq Int
    /\ MinAmounts \subseteq Int
    /\ LeadTimes \subseteq Int
    /\ MaxTime \in Nat
    /\ MaxFees \in 0..I128Max
    /\ NoTime \notin Nat
    /\ HostReadsU32AsI128 \in BOOLEAN
    /\ PoolAuthorisesItself \in BOOLEAN

VARIABLES
    initialized,      \* INIT_KEY
    feeTier,          \* FEE_TIER, 0 until initialize
    reserve,          \* RSV_A and RSV_B
    fees,             \* FeeState.accumulated_fee_0 and _1
    lastTime,         \* LTSTAMP of twap.rs
    priceAcc,         \* PACCUM0 ("a") and PACCUM1 ("b")
    held,             \* held[s][h]: balance of h in the token of side s
    now               \* ledger timestamp

poolVars == <<initialized, feeTier, reserve, fees, lastTime, priceAcc>>
vars     == <<poolVars, held, now, lpVars>>

K(r) == r["a"] * r["b"]

\* What the pool really holds, as its token clients report it.
PoolBalance == [s \in Side |-> held[s][Pool]]

TypeOK ==
    /\ LpTypeOK
    /\ initialized \in BOOLEAN
    /\ feeTier \in 0..FeeDenominator
    /\ reserve \in [Side -> Nat]
    /\ fees \in [Side -> Nat]
    /\ lastTime \in Nat \cup {NoTime}
    /\ priceAcc \in [Side -> Nat]
    /\ held \in [Side -> [Address -> Nat]]
    /\ now \in Nat

Init ==
    /\ LpInit
    /\ initialized = FALSE
    /\ feeTier = 0
    /\ reserve = [s \in Side |-> 0]
    /\ fees = [s \in Side |-> 0]
    /\ lastTime = NoTime
    /\ priceAcc = [s \in Side |-> 0]
    /\ held = [s \in Side |->
                 [h \in Address |-> IF h = Pool THEN 0 ELSE Endowment[h][s]]]
    /\ now = 0

-----------------------------------------------------------------------------
(***************************************************************************)
(* twap::update with the reserves an operation leaves behind.  A missing   *)
(* timestamp is read as the current time.                                  *)
(***************************************************************************)
LastUpdate == IF lastTime = NoTime THEN now ELSE lastTime

PricesMove(r) == now > LastUpdate /\ r["a"] > 0 /\ r["b"] > 0

UpdateTwap(r) ==
    IF PricesMove(r)
    THEN /\ priceAcc' = [s \in Side |->
                priceAcc[s] + ((r[Other(s)] * PriceScale) \div r[s])
                                  * ((now - LastUpdate) % U32Modulus)]
         /\ lastTime' = now
    ELSE UNCHANGED <<priceAcc, lastTime>>

ReservesOk(r) ==
    /\ \A s \in Side : Fits(r[s])
    /\ PricesMove(r) => \A s \in Side : Fits(r[s] * PriceScale)

SetReserves(r) ==
    /\ ReservesOk(r)
    /\ reserve' = r
    /\ UpdateTwap(r)

-----------------------------------------------------------------------------
InitializePool(fee) ==
    /\ ~initialized
    /\ initialized' = TRUE
    /\ feeTier' = fee
    /\ reserve' = [s \in Side |-> 0]
    /\ UNCHANGED <<fees, lastTime, priceAcc, held, now, lpVars>>

\* The amounts are settled: both tokens come in, shares are minted.
Deposit(provider, amount) ==
    /\ \A s \in Side : amount[s] > 0 /\ TransferOk(held[s], provider, amount[s])
    /\ held' = [s \in Side |-> Moved(held[s], provider, Pool, amount[s])]
    /\ \/ /\ lpSupply = 0
          /\ FirstSharesOk(K(amount))
          /\ \E root \in 0..K(amount) :
                /\ IsIntegerSqrt(root, K(amount))
                /\ Mint(Pool, provider, root - MinimumLiquidity)
       \/ /\ lpSupply # 0
          /\ ProRataSharesOk(amount["a"], amount["b"],
                             reserve["a"], reserve["b"], lpSupply)
          /\ Mint(Pool, provider,
                  ProRataShares(amount["a"], amount["b"],
                                reserve["a"], reserve["b"], lpSupply))
    /\ SetReserves([s \in Side |-> reserve[s] + amount[s]])
    /\ UNCHANGED <<initialized, feeTier, fees, now>>

\* An empty pool takes what is offered; otherwise one side is taken in full
\* and the other in the ratio of the reserves, against its minimum.
AddLiquidity(provider, desired, minimum, deadline) ==
    /\ initialized
    /\ now <= deadline
    /\ \/ /\ \A s \in Side : reserve[s] = 0
          /\ Deposit(provider, desired)
       \/ /\ reserve["a"] # 0
          /\ Fits(desired["a"] * reserve["b"])
          /\ LET optimalB == (desired["a"] * reserve["b"]) \div reserve["a"]
             IN  \/ /\ optimalB <= desired["b"]
                    /\ optimalB >= minimum["b"]
                    /\ Deposit(provider, [desired EXCEPT !["b"] = optimalB])
                 \/ /\ optimalB > desired["b"]
                    /\ reserve["b"] # 0
                    /\ Fits(desired["b"] * reserve["a"])
                    /\ LET optimalA == (desired["b"] * reserve["a"])
                                           \div reserve["b"]
                       IN  /\ optimalA >= minimum["a"]
                           /\ Deposit(provider,
                                      [desired EXCEPT !["a"] = optimalA])

\* What lpAmount shares stand for, and when the pool pays it.
Redeemed(lpAmount) ==
    [s \in Side |-> ShareOf(lpAmount, lpSupply, reserve[s])]

RemoveLiquidityOk(provider, lpAmount, minimum, deadline) ==
    /\ initialized
    /\ now <= deadline
    /\ LiquidityRatioOk(lpAmount, lpSupply, reserve["a"], reserve["b"])
    /\ \A s \in Side : /\ Redeemed(lpAmount)[s] >= minimum[s]
                       /\ TransferOk(held[s], Pool, Redeemed(lpAmount)[s])
    /\ BurnOk(Pool, provider, lpAmount)
    /\ ReservesOk([s \in Side |-> reserve[s] - Redeemed(lpAmount)[s]])

RemoveLiquidity(provider, lpAmount, minimum, deadline) ==
    /\ RemoveLiquidityOk(provider, lpAmount, minimum, deadline)
    /\ LET amount == Redeemed(lpAmount)
       IN  /\ held' = [s \in Side |-> Moved(held[s], Pool, provider, amount[s])]
           /\ SetReserves([s \in Side |-> reserve[s] - amount[s]])
    /\ Burn(Pool, provider, lpAmount)
    /\ UNCHANGED <<initialized, feeTier, fees, now>>

-----------------------------------------------------------------------------
(***************************************************************************)
(* initialize stores the fee tier as a u32 and get_fee_tier reads it as an *)
(* i128.  HostReadsU32AsI128 is what that read does: FALSE is soroban-sdk  *)
(* 20.5, where the conversion fails and the call traps; TRUE is a host (or *)
(* a fixed getter) that widens the value, under which the rest of the swap *)
(* code can be examined.                                                   *)
(***************************************************************************)
\* Mutant: a call at its deadline is late.
SwapServableBefore(deadline) ==
    initialized /\ now < deadline /\ HostReadsU32AsI128

SwapServable(deadline) == initialized /\ now <= deadline /\ HostReadsU32AsI128

\* The tail both swaps share.  The protocol's part of the fee is recorded but
\* stays among the tokens the reserves count.
TradedReserves(s, amountIn, amountOut) ==
    [reserve EXCEPT ![s] = @ + amountIn, ![Other(s)] = @ - amountOut]

FeesAfter(s, amountIn) ==
    fees[s] + ProtocolFee(amountIn, feeTier, ProtocolFeeBps)

TradeOk(caller, s, amountIn, amountOut) ==
    /\ ProtocolFeeOk(amountIn, feeTier, ProtocolFeeBps)
    /\ Fits(amountIn * FeeDenominator)                        \* price impact
    /\ Fits(reserve[s] + amountIn)
    /\ TransferOk(held[s], caller, amountIn)
    /\ TransferOk(held[Other(s)], Pool, amountOut)
    /\ Fits(FeesAfter(s, amountIn))
    /\ FeesAfter(s, amountIn) <= MaxFees
    /\ ReservesOk(TradedReserves(s, amountIn, amountOut))

Trade(caller, s, amountIn, amountOut, recipient) ==
    /\ TradeOk(caller, s, amountIn, amountOut)
    /\ held' = [held EXCEPT
                  ![s] = Moved(@, caller, Pool, amountIn),
                  ![Other(s)] = Moved(@, Pool, recipient, amountOut)]
    /\ fees' = [fees EXCEPT ![s] = FeesAfter(s, amountIn)]
    /\ SetReserves(TradedReserves(s, amountIn, amountOut))
    /\ UNCHANGED <<initialized, feeTier, now, lpVars>>

\* What get_amount_out answers for a trade into side s.
Quote(amountIn, s) ==
    AmountOut(amountIn, reserve[s], reserve[Other(s)], feeTier)

QuoteOk(amountIn, s) ==
    AmountOutOk(amountIn, reserve[s], reserve[Other(s)], feeTier)

SwapExactInOk(caller, amountIn, outMin, s, deadline) ==
    /\ SwapServable(deadline)
    /\ QuoteOk(amountIn, s)
    /\ Quote(amountIn, s) >= outMin
    /\ TradeOk(caller, s, amountIn, Quote(amountIn, s))

SwapExactIn(caller, amountIn, outMin, s, recipient, deadline) ==
    /\ SwapExactInOk(caller, amountIn, outMin, s, deadline)
    /\ Trade(caller, s, amountIn, Quote(amountIn, s), recipient)

SwapExactOut(caller, amountOut, inMax, s, recipient, deadline) ==
    /\ SwapServable(deadline)
    /\ AmountInOk(amountOut, reserve[s], reserve[Other(s)], feeTier)
    /\ LET amountIn == AmountIn(amountOut, reserve[s], reserve[Other(s)],
                                feeTier)
       IN  /\ amountIn <= inMax
           /\ Trade(caller, s, amountIn, amountOut, recipient)

(***************************************************************************)
(* A flash swap sends tokens to a callback contract, runs it, and compares *)
(* the product of the pool's balances before and after; the reserves then  *)
(* become the balances.  The callback cannot re-enter the pool.  What it   *)
(* leaves behind that concerns the pool is the amount it paid back; what   *)
(* else it moves is a transfer before or after the flash swap.             *)
(***************************************************************************)
FlashSwap(out, callback, repaid) ==
    /\ initialized
    /\ LET sent == [s \in Side |-> IF out[s] > 0 THEN out[s] ELSE 0]
           after == [s \in Side |-> PoolBalance[s] - sent[s] + repaid[s]]
       IN  /\ \A s \in Side :
                 /\ out[s] <= PoolBalance[s]
                 /\ repaid[s] \in 0..(held[s][callback] + sent[s])
           /\ held' = [s \in Side |->
                         Moved(Moved(held[s], Pool, callback, sent[s]),
                               callback, Pool, repaid[s])]
           /\ Fits(K(PoolBalance))
           /\ Fits(K(after))
           /\ K(after) >= K(PoolBalance)
           /\ SetReserves(after)
    /\ UNCHANGED <<initialized, feeTier, fees, now, lpVars>>

\* Mutant: whoever calls is taken for governance.
CollectProtocolFeesByAnyone(caller) ==
    /\ initialized
    /\ \E s \in Side : fees[s] > 0
    /\ \A s \in Side : TransferOk(held[s], Pool, fees[s])
    /\ held' = [s \in Side |-> Moved(held[s], Pool, caller, fees[s])]
    /\ fees' = [s \in Side |-> 0]
    /\ UNCHANGED <<initialized, feeTier, reserve, lastTime, priceAcc,
                   now, lpVars>>

(***************************************************************************)
(* initialize makes the pool its own governance, so the only caller that   *)
(* passes is the pool itself.  No function of the pool makes that call and *)
(* the host accepts a contract's authorisation from its own calls only:    *)
(* PoolAuthorisesItself is FALSE on the network and TRUE under the         *)
(* mock_all_auths of the tests.  The transfer goes from the pool to itself *)
(* and the records are cleared.                                            *)
(***************************************************************************)
CollectProtocolFees(caller) ==
    /\ initialized
    /\ caller = Pool
    /\ PoolAuthorisesItself
    /\ \E s \in Side : fees[s] > 0
    /\ \A s \in Side : TransferOk(held[s], Pool, fees[s])
    /\ held' = [s \in Side |-> Moved(held[s], Pool, caller, fees[s])]
    /\ fees' = [s \in Side |-> 0]
    /\ UNCHANGED <<initialized, feeTier, reserve, lastTime, priceAcc,
                   now, lpVars>>

-----------------------------------------------------------------------------
\* Tokens move outside the pool's functions too, to the pool among others.
TokenTransfer(s, from, to, amount) ==
    /\ TransferOk(held[s], from, amount)
    /\ held' = [held EXCEPT ![s] = Moved(@, from, to, amount)]
    /\ UNCHANGED <<poolVars, now, lpVars>>

Tick ==
    /\ now < MaxTime
    /\ now' = now + 1
    /\ UNCHANGED <<poolVars, held, lpVars>>

\* The LP token's admin names the pool as minter, so mint and burn are its.
LpOperation ==
    /\ \/ \E u \in Users : Initialize(u)
       \/ \E u \in Users : SetMinter(u, Pool)
       \/ \E u \in Users, h \in Address, n \in Amounts : Transfer(u, h, n)
       \/ \E u \in Users, h \in Spenders, n \in Amounts : Approve(u, h, n)
       \/ \E u, v \in Users, h \in Address, n \in Amounts :
             TransferFrom(u, v, h, n)
    /\ UNCHANGED <<poolVars, held, now>>

Pairs(S) == [Side -> S]

PoolOperation ==
    \/ \E fee \in FeeTiers : InitializePool(fee)
    \/ \E u \in Users, d \in Pairs(TradeAmounts), m \in Pairs(MinAmounts),
          t \in LeadTimes : AddLiquidity(u, d, m, now + t)
    \/ \E u \in Users, n \in TradeAmounts, m \in Pairs(MinAmounts),
          t \in LeadTimes : RemoveLiquidity(u, n, m, now + t)
    \/ \E u \in Users, n \in TradeAmounts, m \in MinAmounts, s \in Side,
          h \in Address, t \in LeadTimes : SwapExactIn(u, n, m, s, h, now + t)
    \/ \E u \in Users, n, m \in TradeAmounts, s \in Side,
          h \in Address, t \in LeadTimes : SwapExactOut(u, n, m, s, h, now + t)
    \/ \E u \in Users, o, p \in Pairs(FlashAmounts) : FlashSwap(o, u, p)
    \/ \E h \in Address : CollectProtocolFees(h)

Next ==
    \/ PoolOperation
    \/ LpOperation
    \/ \E s \in Side, u \in Users, h \in Address, n \in TradeAmounts :
          TokenTransfer(s, u, h, n)
    \/ Tick

Spec == Init /\ [][Next]_vars

-----------------------------------------------------------------------------
Vault == INSTANCE ShareVault WITH supply <- lpSupply

\* The invariant behind the properties below: the token and the pool are
\* initialized before they hold anything, no recorded reserve is more than the
\* pool holds or than an i128, and the shares have both reserves behind them.
PoolInv ==
    /\ TypeOK
    /\ \A s \in Side : reserve[s] <= held[s][Pool] /\ reserve[s] <= I128Max
    /\ 0 <= lpSupply
    /\ lpSupply * lpSupply <= K(reserve)
    /\ ~initialized => \A s \in Side : reserve[s] = 0
    /\ lpAdmin = NoAddress => lpMinter = NoAddress /\ lpSupply = 0

\* Whatever sequence of calls, donations and ticks: the pool is a ShareVault.
\* No deposit, withdrawal, swap or flash swap takes from the shares that it
\* does not burn, and the roundings of math.rs all go the pool's way.
PoolImplementsVault == Vault!VaultSpec

\* The LP supply never exceeds the geometric mean of the reserves, so shares
\* in circulation always have both reserves behind them (README.md:2137).
SharesBacked == Vault!SharesBacked

\* The reserves the pool prices with are tokens it holds: every call that
\* moves tokens books the same amounts, and a flash swap resynchronises.
Solvent == \A s \in Side : reserve[s] <= held[s][Pool]

\* The LP token's balances are what its holders own: no sum of the token wraps
\* around although none is checked, the balances add up to the supply, and only
\* the pool mints and burns.
SharesAccounted ==
    /\ lpBalance \in [Address -> Nat]
    /\ lpSupply = SumFunction(lpBalance)
    /\ lpMinter \in {NoAddress, Pool}
    /\ lpMinter = NoAddress => lpSupply = 0

\* Whoever owns shares can leave: remove_liquidity accepts some part of them at
\* once, whatever was swapped, borrowed, donated or minted before, and even
\* where redeeming all of them in one call would overflow.
HolderCanExit ==
    \A u \in Users : lpBalance[u] > 0 =>
        \E n \in 1..lpBalance[u] :
            RemoveLiquidityOk(u, n, [s \in Side |-> 0], now)

\* Where the fee tier can be read, a swap that get_amount_out quotes, from a
\* caller who holds the input, is executed: no later guard of swap_exact_in
\* rejects it (the assertion of constant-product-pool/tests/test.rs:272, for
\* every reachable pool).
QuotedSwapServed ==
    \A u \in Users, n \in TradeAmounts, s \in Side :
        /\ initialized
        /\ HostReadsU32AsI128
        /\ QuoteOk(n, s)
        /\ held[s][u] >= n
        /\ fees[s] + n <= MaxFees
        => SwapExactInOk(u, n, 0, s, now)
=============================================================================
