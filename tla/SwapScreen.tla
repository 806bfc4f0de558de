----------------------------- MODULE SwapScreen -----------------------------
(***************************************************************************)
(* The swap page (features/swap/swap.component.ts), the part of the store  *)
(* it works with (core/store/swap) and what the backend answers it         *)
(* (SwapService.getQuote).  The store and its effect outlive the page.     *)
(*                                                                         *)
(* A tolerance is in tenths of the unit the code rounds it to; the         *)
(* tolerances the code handles exactly are below 18%, where doubles do not *)
(* lose one unit more.                                                     *)
(***************************************************************************)
EXTENDS TxDialog, OffchainMath

CONSTANTS
    Tokens,          \* knownTokens; what is quoted depends on two of them only
    FirstIn, FirstOut,
    Amounts,         \* amounts the user enters: numbers, and Decimal
    Decimal,         \* an amount with a decimal point, which BigInt refuses
    ActivePools,     \* rows the backend may find: token0, reserve0, reserve1, feeBps
    Tolerances,
    FirstTolerance,  \* 0.005
    DisplayUnit      \* 1000: what one in the last place of toFixed(4) stands for

ASSUME SwapAssumption ==
    /\ {FirstIn, FirstOut} \subseteq Tokens
    /\ Amounts \ {Decimal} \subseteq Nat
    /\ Tolerances \cup {FirstTolerance} \subseteq 0..10 * FEE_DENOMINATOR
    /\ DisplayUnit \in Nat \ {0}
    /\ \A pool \in ActivePools : /\ {pool.reserve0, pool.reserve1} \subseteq Nat
                                /\ pool.feeBps \in 0..FEE_DENOMINATOR

\* None is neither an amount nor a quote.
ASSUME NoneAssumption ==
    /\ None \notin Nat
    /\ None \notin [tokenIn : Tokens, tokenOut : Tokens, amountIn : Amounts, amountOut : Nat]
    /\ None \notin [amountOut : {None}]

VARIABLES
    inputs,          \* the page: tokenIn, tokenOut, amountIn; None for ''
    selector,        \* the page: None, or the side the selector is open for
    quote,           \* the store; None for null
    slippage,        \* the store: slippageTolerance
    questions,       \* questions to the backend that the effect listens to
    cleared          \* an observation: what has last made quote null

swapVars == <<inputs, selector, quote, slippage, questions, cleared>>

NoInputs == [tokenIn |-> FirstIn, tokenOut |-> FirstOut, amountIn |-> None]

SwapInit ==
    /\ inputs = NoInputs
    /\ selector = None
    /\ quote = None
    /\ slippage = FirstTolerance
    /\ questions = {}
    /\ cleared = "start"

OnSwapPage == page = "swap" /\ ~Covered

\* What the page knows is gone with it.
NewSwapPage == inputs' = NoInputs /\ selector' = None

-----------------------------------------------------------------------------
\* The backend.

\* The body of an error is a quote to the frontend, one without an amount.
ErrorBody == [amountOut |-> None]

\* The pool is any active one, and a token that is not its first is its second.
GetQuote(question, pool) ==
    LET zeroForOne == question.tokenIn = pool.token0
        reserveIn == IF zeroForOne THEN pool.reserve0 ELSE pool.reserve1
        reserveOut == IF zeroForOne THEN pool.reserve1 ELSE pool.reserve0
    IN  IF question.amountIn = Decimal THEN ErrorBody
        ELSE IF ~GetAmountOutOk(question.amountIn, reserveIn, reserveOut, pool.feeBps)
        THEN ErrorBody
        ELSE [tokenIn |-> question.tokenIn, tokenOut |-> question.tokenOut,
              amountIn |-> question.amountIn,
              amountOut |-> GetAmountOut(question.amountIn, reserveIn, reserveOut, pool.feeBps)]

\* minAmountOut of buildSwapTransaction, with Math.round.
BuiltMinimum(amountOut, s) == amountOut - (amountOut * ((s + 5) \div 10)) \div FEE_DENOMINATOR

-----------------------------------------------------------------------------
\* The store.

\* Mutant: the tolerance rounded down, not what is left of the amount.
MinAmountOutRounded(q, s) ==
    IF q.amountOut = None THEN 0
    ELSE (q.amountOut * (FEE_DENOMINATOR - s \div 10)) \div FEE_DENOMINATOR

\* selectMinAmountOut, with Math.floor.
MinAmountOut(q, s) ==
    IF q.amountOut = None THEN 0
    ELSE (q.amountOut * ((10 * FEE_DENOMINATOR - s) \div 10)) \div FEE_DENOMINATOR

\* Mutant: mergeMap, which goes on listening to earlier questions.
AlsoListening(question) == questions \cup {question}

\* switchMap: the effect listens to the newest question.
Listening(question) == {question}

Ask(asked) == questions' = Listening(asked)

\* updateQuote with the answer of the backend.
QuoteAnswered ==
    \E question \in questions, pool \in ActivePools \cup {None} :
        /\ quote' = IF pool = None THEN ErrorBody ELSE GetQuote(question, pool)
        /\ questions' = questions \ {question}
        /\ UNCHANGED <<inputs, selector, slippage, cleared>>

\* The request fails, or its answer is not JSON.
QuoteLost ==
    \E question \in questions :
        /\ quote' = None
        /\ cleared' = "failure"
        /\ questions' = questions \ {question}
        /\ UNCHANGED <<inputs, selector, slippage>>

\* resetSwap; a question under way stays under way.
ResetSwap(why) ==
    /\ quote' = None
    /\ slippage' = FirstTolerance
    /\ cleared' = why
    /\ UNCHANGED questions

-----------------------------------------------------------------------------
\* The page.

\* onAmountInChange: no question for an empty amount, and the quote stays.
EnterAmount ==
    /\ OnSwapPage /\ selector = None
    /\ \E amount \in (Amounts \cup {None}) \ {inputs.amountIn} :
          /\ inputs' = [inputs EXCEPT !.amountIn = amount]
          /\ IF amount = None THEN UNCHANGED questions ELSE Ask(inputs')
    /\ UNCHANGED <<selector, quote, slippage, cleared>>

AskAgain == IF inputs.amountIn = None THEN UNCHANGED questions ELSE Ask(inputs')

ReverseTokens ==
    /\ OnSwapPage /\ selector = None
    /\ inputs' = [inputs EXCEPT !.tokenIn = inputs.tokenOut, !.tokenOut = inputs.tokenIn]
    /\ AskAgain
    /\ UNCHANGED <<selector, quote, slippage, cleared>>

OpenTokenSelector ==
    /\ OnSwapPage /\ selector = None
    /\ selector' \in {"in", "out"}
    /\ UNCHANGED <<inputs, quote, slippage, questions, cleared>>

\* Any token for either side, the token of the other side included.
OnTokenSelect ==
    /\ OnSwapPage /\ selector # None
    /\ \E token \in Tokens :
          inputs' = IF selector = "in" THEN [inputs EXCEPT !.tokenIn = token]
                                       ELSE [inputs EXCEPT !.tokenOut = token]
    /\ AskAgain
    /\ selector' = None
    /\ UNCHANGED <<quote, slippage, cleared>>

CloseSelector ==
    /\ OnSwapPage /\ selector # None
    /\ selector' = None
    /\ UNCHANGED <<inputs, quote, slippage, questions, cleared>>

OnSlippageChange ==
    /\ OnSwapPage /\ selector = None
    /\ slippage' \in Tolerances \ {slippage}
    /\ UNCHANGED <<inputs, selector, quote, questions, cleared>>

\* minAmountOutFormatted: the nearest number the page can show, and either of two
\* when the amount is half way, where the double decides.
Formatted(amount) ==
    LET below == (amount \div DisplayUnit) * DisplayUnit
    IN  {n \in {below, below + DisplayUnit} : 2 * abs(n - amount) <= DisplayUnit}

\* executeSwap: what the dialog shows is written down here, the minimum with it.
\* Whether a question was under way is an observation.
ExecuteSwap ==
    /\ OnSwapPage /\ selector = None
    /\ wallet # None /\ inputs.amountIn # None /\ quote # None
    /\ \E minimum \in Formatted(MinAmountOut(quote, slippage)) :
          Review([inputs |-> inputs, quote |-> quote, slippage |-> slippage,
                  minimum |-> minimum, awaited |-> questions # {}])
    /\ UNCHANGED <<page, left>>
    /\ UNCHANGED swapVars

\* confirmSwap after the signature: the amount is emptied in the page that asked.
SwapSigned ==
    /\ page = "swap"
    /\ Signed
    /\ ResetSwap("signature")
    /\ inputs' = [inputs EXCEPT !.amountIn = None]
    /\ UNCHANGED <<page, left, selector>>

\* The page that asked is gone: the store is emptied under whatever page there is.
SwapSignedLate ==
    /\ SignedLate("swap")
    /\ ResetSwap("page left")
    /\ UNCHANGED <<page, dialog, inputs, selector>>

-----------------------------------------------------------------------------
\* Once the last question has its answer, the quote on the page is for the
\* amount and the tokens on the page.  And the button says Fetching Quote... only
\* while one is fetched, unless the request failed or a signature asked for
\* by an earlier page came in.
QuoteMatchesInputs ==
    page = "swap" /\ questions = {} /\ inputs.amountIn # None =>
        \/ quote = None /\ cleared \in {"failure", "page left"}
        \/ quote = ErrorBody
        \/ quote # None /\ \A field \in DOMAIN inputs : quote[field] = inputs[field]
=============================================================================
