# SoroPool: TLA+ models, model checking and proofs

SoroPool is an automated market maker: Soroban contracts in Rust (`contracts/`),
a NestJS backend that indexes and routes (`backend/`) and an Angular frontend
(`frontend/`). This directory models the parts of it whose correctness depends
on more than one step, checks them with TLC and proves the main results with
TLAPS. Paths below are relative to the repository.

Contents: [inventory](#inventory), [modules](#modules), [runs](#runs),
[properties](#what-the-properties-say), [fairness](#fairness), [proofs](#proofs),
[disagreements](#disagreements-with-docs-and-tests),
[assumptions and limits](#assumptions-and-limits), [not modelled](#not-modelled).

## Inventory

### Contracts

The host runs one invocation at a time, rolls a failed one back as a whole and
forbids re-entrancy. What is hard here is not interleaving inside a call but
sequences of calls by different users, rounding, `i128` limits, and state that is
kept twice (recorded reserves and real token balances; shares in the pool and in
the LP token).

| Part | State | Operations | Interacts with | Must hold |
|---|---|---|---|---|
| constant-product pool | reserves, fee tier, accumulated protocol fees, price accumulators | initialize, add/remove liquidity, two swaps, flash swap, collect fees | LP token (mint, burn), two tokens (transfer, balance), the callback of a flash swap | shares stay backed, reserves are held, holders can leave, quotes are honoured |
| LP token | admin, minter, balances, allowances, supply | initialize, set_minter, mint, burn, transfer, approve, transfer_from | its pool | the supply is the sum of the balances |
| pool factory | registry by pair and fee tier, list of pools, owners, count, wasm hashes | initialize, three create functions, set_fee_recipient, paged reads | deploys pools with the count as salt | the four views of the registry agree, no salt is used twice |
| router | none | exact-in along a path, exact-out over one hop | pools, tokens | what a path promises is paid, nothing stays with the router |
| stableswap pool | recorded balances, amplification ramp, shares | initialize, add liquidity, remove one coin, exchange, ramp | tokens | the iterations stop on the right side of the curve, recorded balances are held, A does not jump |
| concentrated-liquidity pool | positions, ticks, price, fee growth, owed amounts | mint, increase, decrease, collect, swap | tokens | what is owed is held |
| farm, governance, treasury, TWAP oracle | - | every function is `unimplemented!()` | - | - |

### Backend

Node runs one continuation at a time: the hard behaviour is what happens between
an `await` and its answer.

| Part | State | Operations | Interacts with | Must hold |
|---|---|---|---|---|
| event indexer | ledger cursor in Redis, keys of processed events in memory | poll every 5 s, dedup, prune | RPC node, Redis, event handlers | no event skipped or handled twice without a cause; the cursor catches up |
| event handlers, snapshot job | pool, position, swap and snapshot rows | index mint, burn, swap; value every pool | PostgreSQL, websocket clients | a row tells of events, each counted once; undisturbed, of all of them |
| pools service, analytics | none of their own | listing, totals, histories, boards | the same rows | reports agree with each other and with the rows |
| routing and quotes | graph in memory and in Redis, quote cache | rebuild every 30 s, search paths, simulate, split, cache quotes | PostgreSQL, Redis | a quote can be carried out as simulated, no path is missed, old graphs do not last |
| AMM arithmetic | - | TypeScript versions of the contracts' formulas | routing, swap page | same result as the contract |
| authentication | none (the nonce is not stored) | challenge, verify | the frontend's session | signature by the wallet it was asked of |
| tokens, candles, liquidity, farm, oracle, notifications, admin, governance modules | - | no caller, or stubs | - | - |

### Frontend

The pages come and go over stores, services and effects that stay. An answer may
arrive after what it answers has changed: a quote for an older amount, a wallet
whose connection was given up, a listing that an earlier page asked for, a
signature for a page that was left.

| Part | State | Operations | Interacts with | Must hold |
|---|---|---|---|---|
| wallet and session | connected wallet; store: connection, token; attempts under way | connect, disconnect, sign in | wallet extensions, backend | store and service agree, the wallet asked is the one that signs |
| transaction dialog | step, details, wallet asked | review, confirm, retry, close | every page with a transaction | what is confirmed is what is shown; no wait without end |
| swap page | inputs, selector; store: quote, tolerance | enter, reverse, select, set tolerance, swap | backend's quote, dialog | the quote is for the inputs |
| pool pages | form, pool of the route; store: listing | list, add, remove | pools service, dialog | the listing is not older than the page; the share shown is the share minted |
| price feed | - | no caller | - | - |

Terraform, Kubernetes, CI and migrations configure the program and have no
behaviour of their own.

`PROJECT.json` lists every part with its status, and the hazards of the code
with the line where each one bites and the properties that cover it.

## Modules

| Module | Models | |
|---|---|---|
| `HostInteger` | `i128`: what fits, what an unchecked sum or product wraps to, division | operators |
| `TokenTransfer` | a transfer of the external token contracts | operators |
| `ConstantProductMath` | `constant-product-pool/src/math.rs`, `fees.rs` | operators: a value and the condition under which the code returns it |
| `IntegerSqrt` | the loop of `integer_sqrt`, one action per test of the loop condition | state machine |
| `LpToken` | `lp-token/src` | state machine, one action per function |
| `ConstantProductPool` | `constant-product-pool/src`, composed with `LpToken` and two external tokens | state machine, one action per successful call |
| `ShareVault` | what a pool promises its share holders, whatever its pricing | abstract specification |
| `StableSwapMath` | `stableswap-pool/src/invariant.rs` for two coins | recursive functions |
| `Amplification` | `stableswap-pool/src/amplification.rs` | state machine: the ramp of A in time |
| `StableSwapPool` | `stableswap-pool/src/lib.rs`, `storage.rs`, composed with `Amplification` and two external tokens | state machine, one action per successful call |
| `PoolFactory` | `pool-factory/src`, and a client that pages through the list | state machine, one action per successful call |
| `MarketRegistry` | what a registry of pools promises | abstract specification |
| `OffchainMath` | `backend/src/shared/amm-math` for constant-product and stable pools, and the frontend's `amm-math.service.ts` | operators and functions |
| `ConcentratedMath` | `backend/src/shared/amm-math/concentrated.math.ts` | operators |
| `Indexer` | `backend/src/modules/indexer` up to the call of a handler, `redis.service.ts` | state machine, one action per await |
| `PoolRows` | the handlers (`liquidity-indexer.service.ts`, `swap-indexer.service.ts`), the decoders and `tvl.service.ts` over the tables | state machine, one action per await |
| `Analytics` | the reports of `backend/src/modules/analytics` and `swap.service.ts` | operators over the rows |
| `Routing` | `backend/src/modules/routing` | state machine, one action per await |
| `Ordering` | two sorts by a number: the stable one of JavaScript's arrays, and one that leaves the order of equal keys open, as a database does | operators |
| `WalletSession` | `wallet.service.ts`, the store `auth`, its effects, the header's button; `modules/auth` of the backend | state machine, one action per click or answer |
| `TxDialog` | `tx-confirm-modal` and how every page drives it | state machine, one action per click or answer |
| `SwapScreen` | `swap.component.ts`, the store `swap`, `SwapService.getQuote` | state machine, one action per click or answer |
| `LiquidityScreens` | the pages about pools, the store `pools`, `PoolsService.findAll` | state machine, one action per click or answer |
| `Screens` | one page at a time over one session, store and router | composition |
| `MC*` | bounds, symmetries, and what docs and tests say that the code does not do | for TLC |
| `*Proof` | theorems | for TLAPS |
| `ProofLemmas` | facts on numbers, sums and loops, and on what the iterations of `StableSwapMath` compute | for TLAPS |

`ConstantProductPool` EXTENDS `LpToken`, `ConstantProductMath` and
`TokenTransfer`; `StableSwapPool` EXTENDS `StableSwapMath`, `Amplification` and
`TokenTransfer`; both stand on `HostInteger`. `ShareVault` and `MarketRegistry` are
reached with INSTANCE. `PoolFactory` stands alone: it deploys pools and does not
call them (it leaves `initialize` to its callers).

`Indexer` ends where a handler is called and `PoolRows` begins there, on events
that may be handed in any order and twice after a restart: what `Indexer` shows
to be possible. `Analytics` EXTENDS `PoolRows` and reads its variables in every
state, and sorts what it reports with `Ordering`. `Routing` sorts with `Ordering` too and prices with `OffchainMath`, which `MCQuotes`
compares with the contracts' `ConstantProductMath` and `StableSwapMath`. `TxDialog` EXTENDS
`WalletSession`; `SwapScreen` and `LiquidityScreens` EXTEND `TxDialog`; `Screens`
joins the two, says which page is on the screen, and takes from
`ConstantProductMath` what a deposit really mints.

### State and actions of the pool

| Code | Model |
|---|---|
| `INIT_KEY`, `FEE_TIER`, `RSV_A/B` | `initialized`, `feeTier`, `reserve["a"]`, `reserve["b"]` |
| `FeeState` | `fees` |
| `PACCUM0/1`, `LTSTAMP` | `priceAcc`, `lastTime` (`NoTime` when the key is missing) |
| the token contracts' balances | `held[side][holder]` |
| LP token storage | `lpAdmin`, `lpMinter`, `lpBalance`, `lpAllowance`, `lpSupply` |
| ledger timestamp | `now` |
| `initialize` / `add_liquidity` / `remove_liquidity` | `InitializePool`, `AddLiquidity` (with `Deposit`), `RemoveLiquidity` |
| `swap_exact_in` / `swap_exact_out` | `SwapExactIn`, `SwapExactOut` (with `Trade`, the tail they share) |
| `flash_swap`, `collect_protocol_fees` | `FlashSwap`, `CollectProtocolFees` |
| `twap::update` | `UpdateTwap`, part of every call that sets reserves |
| calls on the LP token and the tokens | `LpOperation`, `TokenTransfer` |

The code writes each operation once per direction; here a side is `"a"` or `"b"`
and the direction is a parameter. A call that returns an error or traps leaves
no trace, so it is not an action; the guard of an action collects every
condition under which the code gets to its end, the range of every checked
operation included.

### State and actions of the stable pool

| Code | Model |
|---|---|
| keys `A0`, `T0`, `A1`, `T1`, `Init` | `a0`, `t0`, `a1`, `t1`, `initialized` |
| `get_current_a_with_env` | `CurrentA`, with `Progress` for the interpolation |
| keys `Fee`, `Bl0`/`Bl1`, `LpS`, (`Lp`, owner) | `fee`, `balance`, `lpSupply`, `lpBalance` |
| the token contracts' balances | `held[coin][holder]` |
| `initialize` | `InitializeStable`, with `SetInitialA` |
| `add_liquidity` / `remove_liquidity_one_coin` | `AddLiquidity`, `RemoveLiquidityOneCoin` |
| `exchange` | `Exchange`; `OtherBalance` is the balance that `compute_y` is led to use |
| `ramp_a` | `RampStable`, with `RampA` |
| `compute_d`, `compute_y` | `ComputeD`, `ComputeY`; the shape of loop they share is `Iterated` |

The loops are operators over recursive functions of the rounds left, with every unchecked sum and
product wrapped and every checked one saturated as in the code. Where the code
passes the balances in the order of the call (`exchange`), so does the model:
rounding does not treat the two places alike.

### State and actions of the factory

| Code | Model |
|---|---|
| `INIT`, `ADMIN`, `FEE_RCP` | `initialized`, `admin`, `feeRecipient` |
| `POOL_REG`, `ALL_POOL`, `POOL_CNT`, `POOL_OWN` | `registry`, `allPools`, `poolCount`, `owners` |
| contracts the host has deployed | `deployed`; an address is the salt it came from |
| `initialize`, `set_fee_recipient` | `InitializeFactory`, `SetFeeRecipient` |
| the three create functions | `Create...Pool`, which share `CreatePool` (with `Deploy`, `RegisterPool`) |
| `get_all_pools` called in turn by one client | `ReadPage`, with what it has got in `seen` |

### State and actions of the indexer

| Code | Model |
|---|---|
| `indexer:last_processed_ledger` | `cursor` (`NoLedger` when it has expired) |
| locals of `pollLedgers` and the await it stands at | `poll[p]` |
| `processedKeys` | `keys`, in insertion order |
| Redis get, `fetchLatestLedger`, `fetchLedgerRange`, a handler, Redis set | `ReadCursor`, `ReadHead`, `ReadRange`, `HandlerEnds`, `StoreCursor` |
| the loop of `processEvents` between two awaits | `GoOn`, part of `ReadRange` and `HandlerEnds` |
| Redis' time to live on the cursor | `Expire` |
| the process is killed; `onModuleInit` | `Restart` |

`handed`, `forgotten`, `missed`, `interrupted` and `jumped` are history: they record
what the properties are about and guard nothing.

The interval does not wait for the poll before, so polls overlap; a poll whose
request hangs goes on, if ever, with what it read long ago. A failed Redis read
is a poll that returns and changes nothing, hence a stuttering step.

### State and actions of the rows

| Code | Model |
|---|---|
| tables `pools`, `lp_positions`, `swaps`, `tvl_snapshots` | `row`, `position`, `swaps`, `snapshots` |
| `processedKeys`, reserves sent to websocket clients | `processedKeys`, `emitted` |
| whether a decimal column comes back in a form `BigInt` accepts | `parses` |
| a handler or a run of the cron job, the await it stands at and the copy of the row it holds | `task[t]` |
| `processEvents`, `routeEvent`, up to a handler's first await | `Hand` |
| `indexMint`, `indexBurn` | `LookForPosition`, `SavePosition`, `CountPositions`, `UpdatePool`, `EmitReserves` |
| `indexSwap` | `SaveSwap`, `UpdatePoolVolume` |
| `snapshotTvl` | `StartSnapshot`, `ReadAgain`, `SaveSnapshot`, `UpdateTvl` |
| an await that rejects; the process is killed | `TaskFails`, `Restart` |

`log` and `calm` are history: the events handed, and whether any two tasks met,
failed or were cut off.

### State and actions of the routing

| Code | Model |
|---|---|
| table `pools` | `row` |
| `GraphService.graph`, `routing:graph`, `quote:...` | `memory`, `cachedGraph`, `cachedQuote` |
| a rebuild or a request, the await it stands at and what it holds | `task[t]` |
| `rebuildGraph` | `RebuildReads`, `RebuildAssigns`, `RebuildStores` |
| `findBestRoute`, `getBestQuote` with a graph in memory: search, simulation, split | `Ask` (with `BestQuote`), `QuoteStored` |
| `getGraph` without one | `AskForGraph`, `TakeCopy` or `RequestReads`, `RequestAssigns`, `RequestShares` |
| times to live in Redis; a pool's row changes; an await rejects; the process is killed | `ExpireQuote`, `ExpireGraph`, `RowChanges`, `TaskFails`, `Restart` |

### State and actions of the frontend

| Code | Model |
|---|---|
| `WalletService`'s wallet; store `auth` | `wallet`; `isConnected`, `jwtToken` |
| a call of `connect` and what follows in the effect | `attempt[a]`; `current` is the one the effect's `switchMap` listens to |
| `connectWallet$`, `disconnectWallet$` | `ConnectWallet`, `DisconnectWallet` |
| a wallet's answer, the challenge, the signed nonce, the verification | `WalletAnswers`, `WalletDeclines`, `ChallengeAnswered`, `NonceSigned`, `Verified`, `SignInFails` |
| the dialog's signals; calls in progress of pages that were left | `dialog`; `left` |
| `executeSwap`, `confirmSwap`, `retrySwap` and their twins, cancel | `Review`, `Confirm`, `CloseDialog`, `Signed`, `Refused`, `SignedLate`, `RefusedLate` |
| signals of the swap page; store `swap`; the effect's request | `inputs`, `selector`; `quote`, `slippage`; `questions` |
| `onAmountInChange`, `reverseTokens`, `onTokenSelect`, the settings, `executeSwap` | `EnterAmount`, `ReverseTokens`, `OnTokenSelect`, `OnSlippageChange`, `ExecuteSwap` |
| store `pools`; its request; the rows on the server | `pools`; `loads`; `version` |
| `ngOnInit` of a page; answers | `OpenPoolsPage`; `PoolsLoaded`, `LoadFailed` |
| `onAmountAChange`, `onAmountBChange`, `setPercentage`, the two previews | `OnAmountAChange`, `OnAmountBChange`, `SetPercentage`, `PreviewAddLiquidity`, `PreviewRemoveLiquidity` |
| a link, or the browser's back button | `Navigate` |

`overtaken`, `cleared`, `asked` and `failed` are observations for the properties.

## Runs

| Run | Question | Bounds and why they are enough |
|---|---|---|
| `pool` | two users, all operations and the moves of shares: `PoolInv`, `Solvent`, `SharesBacked`, `SharesAccounted`, `HolderCanExit`, `QuotedSwapServed`, refinement of `ShareVault` | 2 units of each token per user, amounts of 1 and 2 (of 1 for transfers, approvals and burns of shares, and one of the users as spender): pools go from empty through unbalanced to empty again, first deposits, donations and flash swaps into empty pools included. `I128Max` = 7: products overflow, so that calls are refused, a withdrawal of a whole holding among them. Fee tiers 0 and 1 of 2; deadlines met and missed, minimums met and missed, one tick |
| `quotes` | the contracts' arithmetic against itself (`AskedInputSuffices`, `SplittingNeverPays`, `DIsNotBelow`, `YIsOnCurve`, `ReturnsRoot`, `Terminates`), against the backend's and the frontend's (`ProductQuotesAgree`, `StableQuotesAgree`), and the backend's for concentrated pools (`StepStaysInRange`) | every pool up to 12 by 12, every fee of 10 steps (0 and the whole input among them) and every two amounts up to 8; every stable pool up to 40 by 40, A of 1, 2 and 5, amounts up to 6: lopsided pools included, where the iterations take longest; `I128Max` = 10^9, above every product of these (`QuotesAssumption`, `StableQuotesAssumption`); every price up to 12 and liquidity up to 10 with a unit of 8 for 2^96, so that both roundings and both directions occur; every argument of an 11-bit square root, the limit included |
| `factory` | `RecordsAgree`, `PagesAreOrderly`, refinement of `MarketRegistry` | two callers, two tokens (in either order, or one twice), two fee tiers, pages of 2 and a counter of three values: the list grows between two pages, and the counter wraps while markets are left without a pool |
| `stable` | `StableSolvent`, `WithdrawalKeepsProportion`, the ramp | two users with 2 units of each coin, A between 1 and 3, a ramp over two ticks that another may replace at half way, a fee of 3/4 and one the code refuses: deposits of one coin, of both and of nothing, and pools that are emptied and filled again |
| `indexer` | `IndexerInv`, `HandedOnce`, `NothingElseSkipped`, `CatchesUp` | two polls, three events in a chain of four ledgers, batches of 2, one pruning limit of 2 keys; the fixed ledger a poll falls back to is one past the configured start, with an event in between; one failure, one expiry and one restart at any point: enough for a range of two polls, a range behind the head, a truncated range, a jump to the fixed ledger and a key lost while its event can come again |
| `rows` | `RowsTypeOK`, `NoEventCountsTwice`, `CalmRowsAreExact`, `ReportsAddUp` | an active and an inactive pool, two wallets, two handlers and one run of the snapshot job at every await; three of six events: a mint and a too large burn by one wallet, a mint by the other in the other pool, two trades of one transaction, one in each pool, and one event as the decoders make it; one failure or restart at any point; columns that read as whole numbers and the decimal ones of the schema. Two tasks over one row are what an overwritten row takes, a third shows the overwriting one overwritten |
| `routing` | `QuoteIsExecutable`, `SearchIsComplete`, `QuotesCatchUp` | two rebuilds and one request, one change of one of three pools, one failure, one restart; seven pools over four tokens with five paths of one, two and three hops from the first to the last, two of which share a pool, and two parallel pools of one pair. `MaxRoutes` = 2, so that the search stops at its limit; `MAX_HOPS` = 4, so that a single route may have three hops and a split, with its own bound, may not. In some of the markets a split is answered (the direct pool and a path of two hops, the parallel pools), in others one long route pays more than the split and is answered instead. Each way in which an old graph may be assigned last |
| `screens` | `SessionsAgree`, `QuoteMatchesInputs`, `ListingIsCurrent`, `ReviewIsWhatIsShown`, `ShareShownIsMinted`, `WaitsEnd` | two clicks on the wallet button, two edits, two changes of page; two types of wallet; amounts that parse and that do not, quotes whose shown minimum is rounded up and down (`DisplayUnit` = 5); rows of two versions, a page limit of one with two pools, a listing that is the body of an error. An answer that comes too late needs two questions, and a page that was left needs a second one |
| `stable_d`, `swap_reserves`, `accumulators`, `route_hops` | one statement of a doc or a test each, violated by the code | as in the runs above; see [disagreements](#disagreements-with-docs-and-tests) |

`screens` has two bounds besides: the wallet button is clicked before the first
edit or change of page, and these wait until what the last click has started is
over (but not for a wallet of an attempt given up: one of them may happen before
its answer). Signing and editing interleave freely after that. They are
guards of the model, not of the code: an edit while a wallet is first being asked is
not checked, and the proofs, which hold for every value of the constants, are about
the model with these guards.

The pools, the factory and the token accept no further call in some reachable
states (nothing is initialized and no amount fits), a finite chain of ledgers, a
finite number of events, edits and visits ends, and a question to a function has
no next state: the runs say `CHECK_DEADLOCK FALSE`.

## What the properties say

Contracts:

- `PoolImplementsVault`: every step of the pool is a step of `ShareVault`. A
  deposit or a withdrawal leaves every remaining share at least what it stood for
  in each reserve; a swap, a flash swap or a donation never lowers the product.
  The directions of all roundings in `math.rs` are in it.
- `PoolInv`: the inductive invariant the refinement stands on (see
  [proofs](#proofs)).
- `SharesBacked`: the LP supply is at most the geometric mean of the reserves.
- `Solvent`: recorded reserves are tokens the pool holds.
- `SharesAccounted`: LP balances add up to the supply, although the token's sums
  are unchecked: over mints and burns, transfers to others and to oneself, and those
  of a spender, with balances up to the limit of the width.
- `HolderCanExit`: who owns shares can redeem some of them at once. In a pool so
  large that `lp_amount * reserve` overflows for the whole holding (which the run
  reaches), a smaller part still passes.
- `QuotedSwapServed`: a swap that `get_amount_out` quotes is executed.
- `AskedInputSuffices`, `SplittingNeverPays`: the `+ 1` of `get_amount_in` is
  enough; cutting a swap in two gains nothing.
- `ReturnsRoot`, `Terminates`: the square root is right and needs no more than its
  loop test; at the limit of `i128` it turns negative, so that the first deposit is
  refused.
- `DIsNotBelow`, `YIsOnCurve`: where the Newton iterations stop, against the cubic
  they solve. `compute_d` never stops below it. Above it there is no such bound: in
  a pool of one coin to a thousand of the other a step of one comes before
  convergence, and in very lopsided ones the 256 rounds are not enough; so the
  property has one side. `compute_y` is within two units below the curve and never
  above.
- `StableSolvent`: the record of the balances is covered by tokens, although the
  code never compares the two. A fee of the whole output, which `initialize`
  accepts, is excepted: an exchange then pays nothing also where `compute_y` gives
  a negative output, and the record rises above what is held.
- `WithdrawalKeepsProportion`: what is left after a withdrawal of shares is on the
  curve in proportion to the remaining shares, up to two units. With that same fee,
  where the record may be anything, it says nothing.
- `RampIsContinuous`, `RampIsGradual`: no call makes A jump; time moves it towards
  the ramp's end and not back.
- `RecordsAgree`: list, map, owners and deployed contracts are one registry in four
  places. `FactoryImplementsRegistry`: a pair, in whichever order, and a fee tier
  get one pool, of whatever type, and it stays.
- `PagesAreOrderly`: a client that pages while others create pools gets each pool
  once.

Backend:

- `ProductQuotesAgree`: for a constant-product pool the TypeScript of the backend and
  of the frontend gives the contract's amounts, minted and redeemed shares and roots,
  and refuses the same inputs; the price impact on the screen is never below the
  backend's.
- `StableQuotesAgree`: what the backend quotes from coin 1 to coin 0 is what `exchange`
  pays, and deposits and withdrawals are computed from the contract's D. From coin 0 to
  coin 1 the quote is *not* what is paid: the backend follows the curve and `exchange`
  does not (see `stable_d`), and the property says nothing of that direction.
- `StepStaysInRange`: a step of `computeSwapStep` ends between its two prices, and
  its input and fee together are no more than was offered.
- `IndexerInv`: what each poll in flight knows (see [proofs](#proofs)).
- `HandedOnce`: two polls with the same range share its events between them; an
  event is handed again only after its key was pruned or lost in a restart.
- `NothingElseSkipped`: the cursor passes an event only if its handler ended or
  runs, or an answer lacked it, or a restart cut its handler off while another
  poll had passed over it, or it is before the ledger 1 000 000, written in
  `pollLedgers`, at which a poll begins that finds no cursor, wherever the configured
  start is. All but the first are ways in which the code does lose events; the
  property says there is no other.
- `CatchesUp`: the cursor reaches the head of the chain and stays there.
- `NoEventCountsTwice`: handlers may overwrite each other's events, but the reserves
  of a row, and those of a snapshot, are always those of some of the mints and
  burns, each counted once. Some, not all: the handlers do lose events of each
  other, and no property could say otherwise.
- `CalmRowsAreExact`: while no two tasks meet and none fails. If columns read as whole
  numbers, positions, swaps, snapshots, what clients were told and the reserves of pools
  that have not traded are those of all the events, in order (a trade leaves the reserves
  alone, see `swap_reserves`). With the decimal columns of the schema, at which `BigInt`
  throws, no swap is kept, no client told and no reserve moves.
- `ReportsAddUp`: a history thinned out to an interval has, for every snapshot it
  leaves out, one taken less than the interval later (this part is about times only);
  boards descend and leave out nobody better, those of providers over their positions in
  several pools included, and the history of a pool shows its newest swaps, however ties are ordered. A
  report of the protocol's fees asks for one active pool after another: it lies between
  the active pools' fees when it begins and when it ends. As long as nothing interferes
  and no transaction traded twice, what the handlers added up in the rows and what
  the table of swaps adds up to are the same, and its amounts are those of the events.
- `QuoteIsExecutable`: a quote's legs take in the whole amount, each hop what the
  one before gave, and no pool occurs twice, whether the answer is one route or a split,
  over parallel pools too.
- `SearchIsComplete`: the search finds the simple paths of *fewer* hops than its bound,
  the configured one or that of the splits, each once, or as many as it may return. That
  a bound of three gives no path of three hops is not what the docs say: `route_hops`.
- `QuotesCatchUp`: the graph in memory and the quotes in the cache become those of
  the rows, whatever slow rebuild, request or copy in Redis comes last.

Frontend:

- `SessionsAgree`: wallet service, store and signature are of one wallet, unless a
  disconnect came while a wallet was asked: the answer then connects the service
  behind a store that shows no connection. The code has this fault; the property says
  it is the only way to it.
- `QuoteMatchesInputs`: once no question is open, the quote on the page is for the
  inputs on the page. Exceptions that the code has: a failed request, an error
  body that counts as a quote, and a signature asked for by a page that was left, which
  empties the store.
- `ListingIsCurrent`: a page shows rows no older than itself, and its pool, unless
  the server left it out. After a failure the list is empty or is the body of an error,
  at which `.find` throws; then the property says only that no pool is found.
- `ReviewIsWhatIsShown`: inputs, quote and listing in the dialog are those of the
  page beneath, and the connected wallet signs. The minimum is shown with four decimals
  (`toFixed(4)` of the raw amount over 1e7), so it can be above the one that a
  transaction would insist on, by at most half a display unit of 1000 raw units, and
  never by more: what is built is never below the tolerance on the page.
- `ShareShownIsMinted`: the share of the pool that the page shows is that of the
  contract, up to one share's rounding, whatever the true supply is: the page makes
  one up, and it cancels out.
- `WaitsEnd`: the header does not show a connection for ever without a wallet, and
  the dialog does not wait for ever for a signature.

## Fairness

- `IntegerSqrt`: the function runs on until it returns.
- `Indexer`: ledgers are closed for ever, the interval starts polls for ever
  (`@Interval` has no end), and some poll's requests are answered; the others may
  hang for ever, because the code sets no timeout on a request.
- `Routing`: the cron job starts rebuilds for ever, Redis forgets what has a time to
  live, and a call to PostgreSQL or Redis is answered or fails, stated by its
  effect: each task is idle again and again. Nobody has to ask anything.
- `Screens`: some attempt to connect goes on, and a wallet that is asked to sign
  signs or refuses. Users need not do anything, quotes and pools need not come.

The properties of the pools, the factory and the rows need no fairness.

## Proofs

`tlapm` checks every theorem to its last leaf, for every value of the constants
under the named assumptions. The runs show the same formulas on small instances.

- `PoolInvariant`: `PoolInv` is inductive. `SharesBacked` alone is not: to see
  that a first mint does not wrap one needs that the square root of a product
  below `i128` is below half its limit; that the later ones do not, that the
  supply is bounded by the reserves (`supply * supply <= K(reserve)`) and these by
  `i128`; that a withdrawal can be paid, `Solvent`; that no pool trades before it
  is initialized, that it has no reserves then; and that the token's state is
  untouched before its admin is set, the two clauses on `initialized` and
  `lpAdmin`.
- `PoolRefinesVault`: every step from `PoolInv` is a step of `ShareVault` or
  leaves its variables alone. The arithmetic is in lemmas of its own:
  `ExactInKeepsProduct`, `ExactOutKeepsProduct` (a swap keeps the product),
  `ProRataFair`, `ShareOfFair` (deposits and withdrawals keep each share),
  `BackingScales` in `ProofLemmas` (if each reserve per share does not fall,
  neither does the product per squared share).
- `PoolTyped`, `PoolSharesBacked`, `PoolSolvent` follow; among
  others every number of pool and token stays in `i128`. `VaultBacked` proves of
  `ShareVault` by itself that its steps keep the shares backed.
- `PoolSharesAccounted`: the balances add up to the supply for any finite set of
  holders. With the sum go two clauses of the induction: no balance is negative,
  and before there is a minter there is no supply (only the pool can mint, and its
  mints fit, by `PoolInv`). The sum is the community modules' fold; `SumExists`,
  `SumAt`, `SumWithout` and `SumChanged` in `ProofLemmas` say what it is, by
  the induction over finite sets that `InductiveSet` and `InductiveFamily` there state.
- `PoolHolderCanExit`: one share of a holder is always redeemable, which needs the
  accounts (the burn does not fail) and `Solvent` (the payment does not); what is
  rounded off may be all of it. `PoolQuotedSwapServed`: what `get_amount_out`
  computes without error, `swap_exact_in` computes too, and every check that it
  adds holds in a pool that is `PoolInv`. Both properties state the guards of the
  calls as operators (`RemoveLiquidityOk`, `SwapExactInOk`), so that no `ENABLED`
  is in them; the actions are these guards and their effects.
- `SqrtReturnsRoot`, `SqrtRefusesLimit`: partial correctness of the loop for any
  width of integer. Inductive is that the loop variable stays between the root and
  the argument (`RootFromAbove`), because a mean, even of rounded quotients, is
  not below the root; then no sum wraps.
- `AskedInputAlwaysSuffices`, `SplittingPaysNowhere`: for all reserves, fees and
  amounts, from the lemmas on rounded quotients. In the first, the input after the
  fee is enough for the output because the `+ 1` covers both roundings. In the
  second, the second swap meets the product that the first has left, which is not
  below the one before, so both outputs together fall short of the curve by at
  least what one output does.
- `ProductQuotesAlwaysAgree`: the quotes of backend and frontend for a constant-product
  pool are the contract's. The frontend's square root is a loop that `IsIntegerSqrt`
  describes, by an invariant of its rounds, so that its first deposit mints what the
  contract's does.
- `DIsNeverBelow`: a round of `compute_d` from any value leads to one that is not below
  the D of the balances (the cubic is convex and Newton's step ends above its root; the
  rounding is in the lemma), and the first value is the sum of the balances, which is
  not below it either. So nothing depends on where the loop stops.
- `YIsAlwaysOnCurve`: `compute_y` solves a quadratic. A round from above ends above the
  integer root, and at most half as far from it; as the rounds outnumber the halvings of
  the widest number (`RoundsAssumption`), the loop has settled when it ends, and a value
  at which a round does not move is within two units of the curve.
- `StableQuotesAlwaysAgree`: the backend's loops have other tests and other orders of
  operations but meet the same values (`LoopsAgree`), as no product of the contract wraps;
  from coin 1 to coin 0 `exchange` calls `compute_y` with these values too. A deposit of
  one coin need not raise the computed D: in a pool of 793736 to 1, with A = 1, ten more
  of the first coin lower it from 21479 to 21459. Contract and backend do the same there,
  and the property says so.
- `StepsStayInRange`: with less than the amount that reaches the target, token 0
  moves the price down and not below it, token 1 up and not above it, whatever the
  unit `Q96` is: both quotients are rounded towards the price at the start.
- `IndexerInvariant`: `IndexerInv` is inductive, for any number of polls and any
  configured start. It states what each poll in flight knows: events up to its `last` are
  settled (or `jumped`, if it began at the fixed ledger without a cursor), and
  with the answer in hand, those up to its `end` but for its batch. So no poll can
  do harm with an old copy, however late it stores it. `IndexerHandsOnce` and
  `IndexerSkipsNothingElse` follow, the first from the exact count
  `handed = forgotten + (1 if remembered)`.
- `FactoryInvariant`: `RecordsAgree` says that four records tell of the same pools
  but not which; inductive is that the i-th pool of the list is at address i - 1,
  with its tokens in order, that registry, owners and host hold exactly the
  addresses below the length of the list, and that the count is this length until
  it wraps. `FactoryRecordsAgree`, `FactoryNextAddressFree` (a creation cannot fail
  for an address in use before the counter wraps at 2^32),
  `FactoryPagesAreOrderly` follow. `FactoryIsRegistry`: under it, every creation
  opens a market that the abstract registry does not have, because the pair is
  sorted before the registry is asked.
- `StablePoolImplementsRamp`: the pool's steps are steps of `Amplification` or leave
  it alone. `StableRampIsContinuous` and `StableRampIsGradual` need that a ramp
  under way started in the past (`AmpInv`), that its products do not wrap (an
  assumption on the coefficients, below) and that quotients rounded down keep their
  order (`QuotientsCompare`).
- `StableRecordIsCovered`: `StableSolvent` is not inductive by itself. `AccountsInv`
  adds the shares' accounts (`SharesKept`: they add up to the supply, modulo the width),
  the tokens' (`TokensKept`: nobody holds more than is issued, so what is deposited is
  small) and that there is no fee before there is a pool. Then
  each call keeps the record covered without a word about the iterations: what a call
  pays is at least one unit below what it takes off the record, also if the product with
  the fee wraps around, since a payment above the amount would be one above all there is
  (`PaidIsLess`, `ProductInside`). This needs that the record is not negative
  (`RecordIsNatural`), which is the theorem's hypothesis: the code does not check it, and
  what `compute_d` and `compute_y` return where products wrap is anything inside the
  width. `StableAccountsAddUp` is the rest of the invariant, and has no hypothesis.
- `StableWithdrawalKeepsProportion`: `compute_d` is not below the D of the balances
  (`ComputeDAbove`), so neither is the part of it that stays (`RemainingDRounded`); from
  there `compute_y` ends at most two units below the curve (`ComputeYOnCurve`), and the
  curve is monotone and symmetric in the two coins (`CurveIsMonotone`,
  `CurveIsSymmetric`). Where `compute_d` has stopped plays no part, only on which side.
  The theorem has two hypotheses: `RecordIsNatural`, and `ProductsFit`, that no product
  of the withdrawal wraps in the pool at hand. Any pool of up to about 2^30 units meets
  the second, and a balanced one with A near 100 up to about 2^57 of them; of pools
  beyond it the theorem says nothing.
- `ScreensSessionsAgree`: `SessionInv` adds that, unless a disconnect overtook an
  attempt, only the attempt the effect listens to is under way, and that while it
  asks for a wallet the service has none and the store shows a connection.
- `ScreensQuoteMatches`: `QuoteInv` says that the effect listens to no question but
  one about the inputs on the page, and that without such a question the quote is for
  the inputs or it is known (`cleared`) why there is none.
- `ScreensListingIsCurrent`: `ListingInv` says that the effect listens to no request
  but that of the last page about pools, and that what it brought is one of the
  answers that the server may give to a request as young as the page.
- `ScreensReviewIsShown`: `ReviewInv` says that details written down while no answer
  was due are still what the store has, because under the dialog nothing is entered
  and nothing else arrives, but for a signature asked for by an earlier page. The
  page's minimum is not above the backend's since what is left of the tolerance on the
  page and what the backend takes off are no more than the whole together
  (`MinimumIsLower`), and what is shown is within half a display unit of it
  (`FormattedIsNear`).
- `ScreensShareIsMinted`: the page picks the smaller of two fractions and the contract
  the smaller of two rounded ones; rounding keeps their order (`SmallerRoundsLower`),
  and the supply that the page makes up cancels (`MadeUpSupplyCancels`). `ShareInv`
  says that what is entered are numbers and what is found is a row.

- `RowsAreTyped`, from `RowsTyped`: what a task holds, by the await it stands at. A
  stale count of positions does no harm because positions come and never go.
- `RowsCountOnce`: inductive is `OnceInv`, which also speaks of the copies in the hands
  of tasks. The reserves that a handler of a mint or a burn read before it adds its own
  event are explained without that event, because it is handed with a key that no
  handled event has and keys are not forgotten within one life of the process; so
  whichever task writes last, its event is not in what it wrote over twice. An order of
  some of the events is extended at its end only (`OneMoreExplains`).
- `RowsAreExact`: inductive are `CalmInv`, where columns read as whole numbers, and
  `UnparsedInv`, where they do not. `CalmInv`: one task is at work at most, what it holds
  is what there is, and all else is exact but for what this task is about to write: the
  row's reserves from `Hand` to `UpdatePool`, the wallet's position to `SavePosition`,
  what clients know to `EmitReserves`, the swap to `SaveSwap`. `ReservesAfter` is a
  recursive function over the log; `AfterOneMore` unfolds it at the end, by induction
  over the places of a sequence. `UnparsedInv`: no task gets past the first value that
  `BigInt` refuses, so there is no swap and no message, and the reserves are those of the
  start.
- `ReportsAlwaysAddUp`: inductive is `BooksInv`, with `RowsTyped`, `SwapsTyped`,
  `CalmInv` and `UnparsedInv`. It says, of an undisturbed run in which columns read as whole
  numbers, that there is a ledger (`Ledger`): a swap for every trade handed, the one
  written for it when it was handled. Rows add up the ledger, and every swap in the table
  is in it. The table itself would not do: a second trade of a transaction is written over
  the first, and a row counts both. Only if no transaction traded twice are the trades one
  to one with the swaps (`OneSwapEach`), and `SumOfImage` turns the one sum into the other
  (`RowsAddUp`). Where columns do not read so, both sums are zero (`NothingAddsUp`).
  The protocol's fees are a sum over the active pools of what each query finds
  (`FeesOfPools`, `SumByParts`), and a query that comes later finds no less (`FeesGrow`,
  `FeesBetween`). That a set can be sorted at all is `OrderDescends`, and the first of
  a sorted list are the best (`FirstIsBest`, `LpsBest`, `ProvidersBest`).
  `HistoriesKeepUp` takes the last place of a bucket for each snapshot left out.
- `SearchAlwaysComplete`: the search is a recursive function over the places where
  `dfs` stands (`PathsFrom`). That there is such a function at all is
  `RankedRecursion` in `ProofLemmas`, by induction on a rank: every call is at a place
  of lower rank, because a path without a cycle has no more than `Cardinality(Tokens)`
  tokens and a neighbor that was tried is off the list (`SearchDescends`). By the same
  induction (`RankInduction`), `SearchAdds` says what a call does: it appends the paths
  that begin as its own and go on through a neighbor that is left (`Beyond`), each
  once, or stops when there are `MaxRoutes`. Neighbors left to try give disjoint sets
  of paths (`BeyondSplits`). `AllPathsFound` puts the sort and the cut behind it
  (`OrderEnumerates`: a stable sort by a number is a permutation).
- `QuotesAlwaysExecutable`: a simulation hands each hop what the one before gave
  (`PathSimulated`, for which the amounts along a path are shown to exist,
  `AmountsExist`), and a path without a cycle uses no pool twice, since a pool has only
  two tokens (`TrailPools`). A split of two different paths of at most two hops
  between the same tokens shares no pool either (`TrailsApart`): this is where it matters
  that the search stops one hop early and that the split has its own bound, because
  two paths of three hops may share the pool in the middle. The sums over the first and
  last hops come from `SumOfOne` and `SumOfTwo`. The answer is the split only if it pays
  more than the single route, which is a path of the other bound
  (`BestQuoteExecutable`).
- `RoutingAlwaysKept`: inductive is `RoutingInv`. Every graph in memory, in Redis and in
  the hands of a task is one that some table of pools makes (`IsGraph`, `BuiltGraph`),
  so an answer is right about some graph, though not always the latest; a request that
  searches its own graph and simulates on the one in memory (`"sharing"`) finds one there,
  because a restart that empties the memory ends the request too. Both theorems above
  follow from it; they hold for every market, number of tasks and bound on hops.

Only model-checked are `Terminates`, `CatchesUp`, `QuotesCatchUp` and `WaitsEnd`
(liveness). Of `ReportsAddUp` three parts are about constants: it speaks of histories of
four snapshots at most, of boards of three pools and of providers with positions of a
few sizes. `HistoryAlwaysKept` and
`BoardAlwaysBest` state them for every history and every table of pools.

## Disagreements with docs and tests

Shown by runs:

- `stable_d`: `README.md:2139` says that D never decreases after a swap. `exchange`
  lays the balances out with the coin paid in first but tells `compute_y` to leave
  out place `i`, which is that coin only for `i = 0`, `j = 1`: then the output is
  computed from the old balance of coin 1, does not depend on the amount paid, and
  in a pool with more of coin 1 pays most of the difference. The other direction is
  right. The property leaves two units of each coin to rounding.
- `swap_reserves`: `docs/architecture/data-flow.md:56` says that a swap updates the
  reserves of its pool's row. `swap-indexer.service.ts:86` writes back the reserves
  it has read and adds to the volume only. To get as far as that line a trade needs an
  event that names its pool, which the decoders never make, and columns that read as whole
  numbers, which decimals do not; without them nothing is written at all.
- `accumulators`: `constant-product-pool/tests/test.rs:580` expects that a swap some
  time after a pool was funded moves an accumulator, and line 581 that its time is
  kept (the test is marked `#[ignore]`). `twap.rs:19` takes a missing time for the current one, and
  stores a time only where the current one is past it: no time is ever stored and no
  price accumulated.
- `route_hops`: `docs/architecture/data-flow.md:23` says "up to 3 hops", and
  `README.md:166` draws a route of three. `routing.service.ts:103` gives a path up
  once it has `maxHops` hops before it looks where it has arrived: with the bound of
  three, paths have two at most.

Read while modelling, without a run of their own.

Contracts: the fee tier is stored as `u32` and read as `i128`; with
soroban-sdk 20.5 every swap traps. A protocol fee is a number beside the reserves and
not tokens set apart (`docs/math/constant-product.md:94`); the minimum liquidity is
withheld from the first mint but minted to nobody (`docs/math/constant-product.md:58`);
a flash swap is content with what was lent (`README.md:1672`).

Backend: `README.md:922` promises all events, but `getEvents` is limited to
`batchSize` of them, no further page is read, and the cursor passes the range. The
decoders (`stellar-indexer.service.ts:181`) never set `poolAddress`, so that no
handler finds its pool. A decimal column with a scale comes back as `400.000`, which
`BigInt` refuses. `updatePoolReserves` has no caller. From coin 0 to coin 1 of a stable
pool the backend quotes what the curve gives, which is not what `exchange` pays. A poll
without a cursor begins at ledger 1 000 000 whatever `INDEXER_START_LEDGER` is. Without a
`poolId` the history of the value locked mixes the snapshots of all pools
(`tvl.service.ts:46`). In `concentrated.math.ts:75` the factors of bits 16 to 19 are of
another scale than the shift that follows them (only tests call `tickToPrice`). A `MAX_HOPS`
set in the configuration (`configuration.ts:20`) does not reach the splits: `quote-aggregator.service.ts` calls
`optimizeSplit` without it, and the default in `split-route.service.ts:29` stays. The invalidation of cached quotes deletes keys
that are never written.

Frontend: an error body of the backend counts as a quote, and the swap button is
enabled by it. A signature for a page that was left empties the store under the
next page. The tolerance is reset to 0.5% after each swap, and `deadline` in the page
and in the store part. The amount under "You Receive" is in raw units and the minimum
beside it is divided by 1e7 and rounded to four decimals, up as well as down. A dismissed warning about the price impact stays
dismissed, and `priceImpactBlockThreshold` is not enforced. The page to remove
liquidity shows the percentage of the whole pool and a constant balance. A pool that
is not among the first 20 of an unordered query is not found, and a failed load
is an empty list. The store's `walletAddress` is never set. Signing in does not
succeed: `auth.effects.ts:36` sends no `message`, which `auth.service.ts:18` decodes.
`submitTransaction` is never called: a signed transaction goes nowhere.

## Assumptions and limits

Contracts:

- Fee tiers are at most `FeeDenominator`. The code does not validate them; the
  models say nothing of a pool with a larger one.
- The two tokens of a pool are different contracts and behave as SEP-41 asks: a
  transfer moves the amount or fails.
- `HostReadsU32AsI128`: FALSE is the SDK in use, under which no swap succeeds. The
  runs set it TRUE to check the code behind the trap.
- `PoolAuthorisesItself`: TRUE is what the tests mock. On the network nothing can
  make the pool's own call to `collect_protocol_fees`. Proofs cover both values of
  both constants.
- The LP token's admin makes the pool its minter, as the deployment intends.
  Finitely many addresses hold it (`AddressAssumption`).
- Swaps are looked at as long as the recorded fees are at most `MaxFees`, which
  fits an `i128`: their sum is unchecked and would wrap after that.
- A flash swap's callback cannot re-enter the pool; what it leaves behind for the
  pool is the amount paid back, and its other transfers are steps of their own.
- The release profile has no overflow checks, so unchecked sums wrap (`Wrap`).
- The stable pool has two coins: its storage has keys for two, and a third would
  share the second's. `initialize` with another number is not modelled.
- No coefficient is so large that the interpolation of a ramp wraps `u128`
  (`CoefficientAssumption`); the code leaves that to the admin.
- All tokens of a coin, with a fee on them, and all shares fit an `i128`
  (`TokensAssumption`). Of what callers ask the stable pool for, nothing is assumed: with
  a negative minimum, a deposit at which the computed D falls mints a negative number of
  shares. Where a product of the iterations wraps, they may return anything inside the
  width; `RecordIsNatural` and `ProductsFit` are the hypotheses under which the theorems
  on the record and on withdrawals speak (see [proofs](#proofs)).
- The factory's address of a pool is its salt: the host derives one from the other
  and the factory's own address. Two tokens may be the same, as in the code.
  Builds with the `test-deploy` feature are not modelled.
- Getters and event emission of the contracts are left out. `consult` of `twap.rs`
  is exported by no contract.

Backend:

- The indexer assumes an RPC node that answers in the shape the code parses, and that the
  ledger written in `pollLedgers` is one of the chain (`IndexerAssumption`); the configured
  start may be before or after it.
- `Named` events carry their pool's address, as the handlers expect; `RawEvents` are
  what the decoders make today, and the handlers refuse them in the model too.
- Amounts of events are whole numbers or no number (`EventsAssumption`), and who
  calls is one of finitely many wallets, if it is told.
- There are finitely many pools, at least one; their rows hold natural numbers, and
  nobody has a position at the start; none is `None`, the filter that is not set
  (`PoolRowsAssumption`). The demonstration data of
  `backend/src/database/seeds/seed.ts`, which counts providers without positions, is
  not such a start.
- Values in dollars (`estimateUsdValue`, `tvlUsd`), doubles in the code, are whole
  numbers here.
- Tokens of the graph are numbers, met in ascending order: the order of insertion in
  the code's map decides ties only.
- A pool of the graph is of two listed tokens, its fee is at most the whole and its
  reserves are natural numbers (`MarketAssumption`); there are finitely many pools and
  tokens (`RoutingAssumption`). `rebuildGraph` asks for one page of 1000 active pools in
  no order (`graph.service.ts:52`): the pools fit it (`PageAssumption`), so nothing is
  said of a market with more, in which a pool may stay out of the graph for ever.
- Nothing in the backend writes `isActive`, so it does not change in `PoolRows`; in
  `Routing` it may, by hand.
- The unit `Q96` and the denominators are constants (`ConcentratedAssumption` asks
  that they are positive), in the run small ones.

Frontend:

- There is a type of wallet and none is `None` (`WalletAssumption`); a wallet answers
  a request at most once. No amount or quote is `None` (`NoneAssumption`).
- Tolerances are below 18%: with larger ones the arithmetic in doubles may lose one
  unit more (`SwapAssumption` bounds them by the whole). `toFixed` rounds to the nearest
  multiple of a display unit, a tie either way (amounts are doubles, exact below 2^53);
  `DisplayUnit` is 1000 raw units in the code.
- What `switchMap` has given up has no effect any more: RxJS is taken at its word. A
  wallet that was asked answers all the same, and what it answers changes the wallet
  service.
- Rows are finite and hold whole numbers (`LiquidityAssumption`), supplies are whole
  numbers and no pool page is called `swap` (`ScreensAssumption`).
- The dialog covers page and header, so that only the browser leaves a page under it.

Bounds: `MaxFees`, `MaxTime`, `MaxFaults`, `MaxExpiries`, `MaxRestarts`, `LastLedger`,
`Amounts`, `Spenders`, `DepositAmounts`, `ShareAmounts`, `TradeAmounts`, `FlashAmounts`,
`MinAmounts`, `Minimums`, `LeadTimes`, `MaxSupply`, `MaxA`, `Coefficients`, `MaxReserve`,
`MaxAmount`, `MaxBalance`, `MaxPaid`, `MaxPrice`, `MaxLiquidity`, `MaxChanges`,
`MaxFailures`, `MaxHanded`, `MaxMishaps`, `MaxSnapshots`, `MaxAttempts`, `MaxEdits`,
`MaxVisits` and the sets of rows, questions, percentages and supplies bound what the
code leaves unbounded. `i128` is bounded in the code: `I128Max` and `SqrtWidth` are
small widths of it. The proofs hold for all of them; those about quotes assume that
the products of the largest pool and amount asked about fit (`QuotesAssumption`,
`StableQuotesAssumption`). In a stable pool of `i128` that covers balances up to about
2^30 of any proportion; of a larger one, the theorems about quotes say nothing.

## Not modelled

- The concentrated-liquidity pool's contract: it multiplies two prices near 2^96 in
  a `u128`, so that its amounts are what is left of products modulo 2^128, and no
  small width wraps in the same cases. Its hazards are listed. The backend's
  arithmetic for such pools is modelled, all but `tickToPrice` and `priceToTick`, which
  only tests call.
- The router: it invokes `swpExIn` and `swpExOut`, which no pool exports, so no swap
  of it gets past its first call, and `quote_exact_input` is a placeholder.
- Farm, governance, treasury and TWAP oracle: every function is `unimplemented!()`.
- Code that nothing calls: `findOrCreate` of tokens, `storeCandle`, `recordSwap`, the
  frontend's `price-feed.service.ts` (which opens a plain WebSocket to a socket.io
  server), the liquidity calculator and pool-factory and farm services; stubs of the
  backend's modules; `refreshToken` and `onDeadlineChange`, which no transaction or
  request uses.
- The page of a concentrated position beyond loading and looking up its pool: its
  button has no handler.
- Infrastructure and migrations.
