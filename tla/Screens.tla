------------------------------ MODULE Screens -------------------------------
(***************************************************************************)
(* The frontend: the pages of SwapScreen and LiquidityScreens, one of them *)
(* on the screen at a time, over one wallet session, one store and one     *)
(* router.  Wallets, the backend and the rows behind it move on their own. *)
(*                                                                         *)
(* The shares a pool mints come from its contract (ConstantProductMath).   *)
(***************************************************************************)
EXTENDS SwapScreen, LiquidityScreens, ConstantProductMath

CONSTANTS
    MaxEdits,        \* what the user enters, selects or sets; a bound of the model
    MaxVisits,       \* pages the user goes to; a bound of the model
    Supplies         \* supplies of shares a pool may have, for the properties

ASSUME ScreensAssumption ==
    /\ "swap" \notin PoolPages \cup ListPages
    /\ Supplies \subseteq Nat

VARIABLES edits, visits

counters == <<edits, visits>>
vars == <<sessionVars, dialogVars, swapVars, poolsVars, counters>>

Pages == {"swap"} \cup PoolPages \cup ListPages

Init ==
    /\ SessionInit /\ DialogInit /\ SwapInit /\ PoolsInit
    /\ page = "swap"
    /\ edits = 0 /\ visits = 0

-----------------------------------------------------------------------------
\* What arrives by itself.

SessionGoesOn(a) ==
    AttemptGoesOn(a) /\ UNCHANGED <<dialogVars, swapVars, poolsVars, counters>>

WalletSigns ==
    \/ SwapSigned /\ UNCHANGED <<sessionVars, poolsVars, counters>>
    \/ LiquiditySigned /\ UNCHANGED <<sessionVars, swapVars, counters>>

WalletRefuses == Refused /\ UNCHANGED <<sessionVars, swapVars, poolsVars, counters>>

WalletAnswersLate ==
    \/ SwapSignedLate /\ UNCHANGED <<sessionVars, poolsVars, counters>>
    \/ LiquiditySignedLate /\ UNCHANGED <<sessionVars, swapVars, counters>>
    \/ /\ \E p \in left : RefusedLate(p)
       /\ UNCHANGED <<sessionVars, swapVars, poolsVars, counters>>

QuoteArrives ==
    (QuoteAnswered \/ QuoteLost) /\ UNCHANGED <<sessionVars, dialogVars, poolsVars, counters>>

PoolsArrive ==
    (PoolsLoaded \/ LoadFailed) /\ UNCHANGED <<sessionVars, dialogVars, swapVars, counters>>

IndexerWrites == RowsChange /\ UNCHANGED <<sessionVars, dialogVars, swapVars, counters>>

-----------------------------------------------------------------------------
\* What the user does.

\* A bound of the model: nothing is entered between a click on Connect Wallet
\* and the end of what it starts; and no more than one thing while an attempt
\* that it overtook is still asking.
Settled ==
    /\ current # None => attempt[current].at = "done"
    /\ Asking = {} \/ edits + visits = 0

\* A bound of the model: the button is clicked before anything is entered.  What
\* wallets answer comes when it comes.
ClickWalletButton ==
    /\ edits = 0 /\ visits = 0
    /\ ~Covered /\ WalletButton
    /\ UNCHANGED <<dialogVars, swapVars, poolsVars, counters>>

OnDialog == (Confirm \/ CloseDialog) /\ UNCHANGED <<sessionVars, swapVars, poolsVars, counters>>

AskForReview ==
    \/ ExecuteSwap /\ UNCHANGED <<sessionVars, poolsVars, counters>>
    \/ /\ PreviewAddLiquidity \/ PreviewRemoveLiquidity
       /\ UNCHANGED <<sessionVars, swapVars, counters>>

OpenSelector ==
    (OpenTokenSelector \/ CloseSelector) /\ UNCHANGED <<sessionVars, dialogVars, poolsVars, counters>>

Edit ==
    /\ edits < MaxEdits /\ Settled
    /\ edits' = edits + 1
    /\ UNCHANGED <<sessionVars, dialogVars, visits>>
    /\ \/ /\ EnterAmount \/ ReverseTokens \/ OnTokenSelect \/ OnSlippageChange
          /\ UNCHANGED poolsVars
       \/ /\ OnAmountAChange \/ OnAmountBChange \/ SetPercentage
          /\ UNCHANGED swapVars

\* The router builds the next page, and what the swap page knew is gone.
Navigate ==
    /\ visits < MaxVisits /\ Settled
    /\ visits' = visits + 1
    /\ \E p \in Pages :
          /\ GoTo(p)
          /\ \/ p \in PoolPages /\ \E id \in AllPools : OpenPoolsPage(id)
             \/ p \in ListPages /\ OpenPoolsPage(None)
             \/ p \notin PoolPages \cup ListPages /\ OpenOtherPage
    /\ NewSwapPage
    /\ UNCHANGED <<sessionVars, quote, slippage, questions, cleared, edits>>

Next ==
    \/ \E a \in Attempts : SessionGoesOn(a)
    \/ WalletSigns \/ WalletRefuses \/ WalletAnswersLate
    \/ QuoteArrives \/ PoolsArrive \/ IndexerWrites
    \/ ClickWalletButton \/ OnDialog \/ AskForReview \/ OpenSelector \/ Edit \/ Navigate

\* What a wallet or the server is asked by a session ends, with an answer or
\* without, and so does what a wallet is asked to sign.  Nobody has to click, no
\* row has to change, and quotes and pools come when they come.
Fairness ==
    /\ WF_vars(\E a \in Attempts : SessionGoesOn(a))
    /\ WF_vars(WalletSigns \/ WalletRefuses)

Spec == Init /\ [][Next]_vars /\ Fairness

-----------------------------------------------------------------------------
\* What is confirmed is what is on the page under the dialog: the amounts are
\* those entered, the quote or the listing is the one the store still has, unless
\* the answer to a question asked before was yet to come.  The minimum that the
\* user agrees to exceeds the one a transaction built from the same quote insists
\* on by at most half of what the page rounds to, and never because a tolerance
\* was rounded another way.  The wallet that signs is the connected
\* one, unless a disconnect came while a wallet was being asked.
ReviewIsWhatIsShown ==
    LET shown == dialog.details
    IN  /\ Step({"review", "signing", "error"}) /\ page = "swap" =>
               /\ shown.inputs = inputs
               /\ shown.quote = quote \/ shown.awaited \/ cleared = "page left"
               /\ shown.quote # ErrorBody =>
                      2 * shown.minimum <= DisplayUnit
                          + 2 * BuiltMinimum(shown.quote.amountOut, shown.slippage)
        /\ Step({"review", "signing", "error"}) /\ page \in {"add", "remove"} =>
               /\ shown.poolId = poolId /\ shown.form = form
               /\ shown.listing = pools \/ shown.awaited
        /\ Step({"signing"}) /\ ~overtaken => dialog.signer = wallet

\* The share of the pool that the page shows for a deposit is the one the
\* contract would mint, up to the rounding of one share, for every supply the
\* pool may have: the supply the page makes up does not matter.
ShareShownIsMinted ==
    page = "add" /\ Found /\ form.amountA # 0 /\ form.amountB # 0 =>
        (HasReserves =>
            \A supply \in Supplies :
                LET minted == ProRataShares(form.amountA, form.amountB,
                                            Pool.reserve0, Pool.reserve1, supply)
                IN  /\ minted * ShareOfPool.den <= ShareOfPool.num * (supply + minted)
                    /\ (minted + 1) * ShareOfPool.den > ShareOfPool.num * (supply + minted + 1))

\* No wait is for ever: the button does not go on showing a connection without a
\* wallet behind it, and the dialog, which has no button then, does not go on
\* waiting for a signature.
WaitsEnd ==
    /\ isConnected ~> (wallet # None \/ ~isConnected)
    /\ Step({"signing"}) ~> ~Step({"signing"})
=============================================================================
