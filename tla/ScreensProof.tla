---------------------------- MODULE ScreensProof ----------------------------
(***************************************************************************)
(* The screens for any wallets, pools, amounts and numbers of clicks: the  *)
(* session agrees with the wallet, the quote with the inputs, the listing  *)
(* with the page and the share with the contract, and what is confirmed is *)
(* what is shown.                                                          *)
(***************************************************************************)
EXTENDS Screens, ProofLemmas, FiniteSetTheorems

Wallets == {WalletTypes[i] : i \in DOMAIN WalletTypes}

\* An attempt waits at one place and remembers what it needs there.
AttemptStates ==
    {Unused, Done}
        \cup [at : {"asking"}, i : 1..Len(WalletTypes)]
        \cup [at : {"challenge"}, type : Wallets]
        \cup [at : {"signing", "verifying"}, type : Wallets, signer : Wallets]

SessionTyped ==
    /\ wallet \in Wallets \cup {None}
    /\ isConnected \in BOOLEAN
    /\ overtaken \in BOOLEAN
    /\ attempt \in [Attempts -> AttemptStates]

SigningIn(a) == attempt[a].at \in {"challenge", "signing", "verifying"}

\* Unless overtaken, only the attempt the effect listens to is under way, and
\* while it asks for a wallet the service has none.
SessionInv ==
    /\ SessionTyped
    /\ ~overtaken =>
          /\ \A a \in Attempts : a \in Asking \/ SigningIn(a) => a = current
          /\ Asking # {} => isConnected /\ wallet = None
          /\ wallet # None => isConnected
          /\ isConnected /\ Asking = {} => wallet # None
          /\ \A a \in Attempts :
                /\ attempt[a].at = "challenge" => wallet \in {None, attempt[a].type}
                /\ attempt[a].at \in {"signing", "verifying"} =>
                      attempt[a].signer = attempt[a].type

-----------------------------------------------------------------------------
(* The session. *)

LEMMA WalletsAreNotNone ==
    /\ None \notin Wallets
    /\ Len(WalletTypes) \in Nat \ {0}
    /\ DOMAIN WalletTypes = 1..Len(WalletTypes)
BY WalletAssumption DEF Wallets

\* A click starts the attempt that the effect listens to and ends the others.
LEMMA ConnectKeepsSession ==
    ASSUME SessionInv, NEW a \in Attempts, ConnectWallet(a)
    PROVE  SessionInv'
<1>1. [at |-> "asking", i |-> 1] \in AttemptStates
  BY WalletsAreNotNone DEF AttemptStates
<1>2. \A b \in Attempts : attempt'[b] =
         IF b = a THEN [at |-> "asking", i |-> 1]
         ELSE IF attempt[b] = Unused \/ b \in Asking THEN attempt[b] ELSE Done
  BY DEF ConnectWallet
<1>3. SessionTyped'
  BY <1>1 DEF ConnectWallet, SessionInv, SessionTyped, AttemptStates
<1>4. ~overtaken => Asking = {} /\ wallet = None
  BY DEF ConnectWallet, SessionInv
<1>5. a \in Asking'
  BY <1>2 DEF Asking
<1>6. ~overtaken => \A b \in Attempts \ {a} : attempt'[b] \in {Unused, Done}
  BY <1>2, <1>4
<1>7. ~overtaken => \A b \in Attempts \ {a} :
         attempt'[b].at \notin {"asking", "challenge", "signing", "verifying"}
  BY <1>6 DEF Unused, Done
<1>8. attempt'[a].at = "asking"
  BY <1>2
<1>9. UNCHANGED <<wallet, overtaken>> /\ isConnected' /\ current' = a
  BY DEF ConnectWallet
<1>10. QED
  BY <1>3, <1>4, <1>5, <1>7, <1>8, <1>9 DEF SessionInv, SigningIn, Asking

LEMMA DisconnectKeepsSession ==
    ASSUME SessionInv, DisconnectWallet
    PROVE  SessionInv'
<1>1. SessionTyped'
  BY DEF DisconnectWallet, Forget, SessionInv, SessionTyped
<1>2. ~overtaken' => ~overtaken /\ Asking = {}
  BY DEF DisconnectWallet
<1>3. UNCHANGED <<attempt, current>> /\ ~isConnected' /\ wallet' = None
  BY DEF DisconnectWallet, Forget
<1>4. Asking' = Asking
  BY <1>3 DEF Asking
<1>5. QED
  BY <1>1, <1>2, <1>3, <1>4 DEF SessionInv, SigningIn

\* An answer of a wallet: the attempt goes on to the challenge, or ends.
LEMMA WalletKeepsSession ==
    ASSUME SessionInv, NEW a \in Attempts, WalletAnswers(a)
    PROVE  SessionInv'
<1> DEFINE w == WalletTypes[attempt[a].i]
<1>1. attempt[a] \in AttemptStates /\ attempt[a].at = "asking"
  BY DEF WalletAnswers, Asking, SessionInv, SessionTyped
<1>2. attempt[a].i \in DOMAIN WalletTypes
  BY <1>1, WalletsAreNotNone DEF AttemptStates, Unused, Done
<1>3. w \in Wallets /\ w # None
  BY <1>2, WalletsAreNotNone DEF Wallets
<1>4. attempt' = [attempt EXCEPT ![a] =
                    IF a = current THEN [at |-> "challenge", type |-> w] ELSE Done]
      /\ wallet' = w /\ UNCHANGED <<isConnected, current, overtaken>>
  BY DEF WalletAnswers
<1>5. [at |-> "challenge", type |-> w] \in AttemptStates /\ Done \in AttemptStates
  BY <1>3 DEF AttemptStates
<1>6. SessionTyped'
  BY <1>3, <1>4, <1>5 DEF SessionInv, SessionTyped
<1>7. SUFFICES ASSUME ~overtaken PROVE SessionInv'
  BY <1>4, <1>6 DEF SessionInv
<1>8. a \in Asking
  BY DEF WalletAnswers
<1>9. a = current /\ isConnected
  BY <1>7, <1>8 DEF SessionInv
<1>10. attempt'[a] = [at |-> "challenge", type |-> w]
  BY <1>4, <1>9 DEF SessionInv, SessionTyped
<1>11. \A b \in Attempts \ {a} :
          attempt'[b] = attempt[b] /\ b \notin Asking /\ ~SigningIn(b)
  BY <1>4, <1>7, <1>9 DEF SessionInv, SessionTyped
<1>12. \A b \in Attempts \ {a} :
          attempt'[b].at \notin {"asking", "challenge", "signing", "verifying"}
  BY <1>11 DEF Asking, SigningIn
<1>13. attempt'[a].at = "challenge" /\ attempt'[a].type = w
  BY <1>10
<1>14. QED
  BY <1>3, <1>4, <1>6, <1>9, <1>12, <1>13 DEF SessionInv, Asking, SigningIn

LEMMA DeclineKeepsSession ==
    ASSUME SessionInv, NEW a \in Attempts, WalletDeclines(a)
    PROVE  SessionInv'
<1>1. attempt[a] \in AttemptStates /\ attempt[a].at = "asking" /\ a \in Asking
  BY DEF WalletDeclines, Asking, SessionInv, SessionTyped
<1>2. attempt[a].i \in 1..Len(WalletTypes) /\ Len(WalletTypes) \in Nat
      /\ attempt[a] \in [at : {"asking"}, i : 1..Len(WalletTypes)]
  BY <1>1, WalletsAreNotNone DEF AttemptStates, Unused, Done
<1>3. CASE attempt[a].i < Len(WalletTypes)
  <2>1. attempt' = [attempt EXCEPT ![a].i = @ + 1]
        /\ UNCHANGED <<wallet, isConnected, current, overtaken>>
    BY <1>3 DEF WalletDeclines
  <2>2. attempt'[a] = [attempt[a] EXCEPT !.i = @ + 1]
        /\ \A b \in Attempts \ {a} : attempt'[b] = attempt[b]
    BY <2>1 DEF SessionInv, SessionTyped
  <2>3. attempt'[a] \in [at : {"asking"}, i : 1..Len(WalletTypes)]
    BY <1>2, <1>3, <2>2
  <2>4. attempt'[a] \in AttemptStates /\ attempt'[a].at = "asking"
    BY <2>3 DEF AttemptStates
  <2>5. attempt' \in [Attempts -> AttemptStates]
    BY <2>1, <2>2, <2>4 DEF SessionInv, SessionTyped
  <2>6. \A b \in Attempts : /\ b \in Asking' <=> b \in Asking
                            /\ SigningIn(b)' <=> SigningIn(b)
    BY <1>1, <2>2, <2>4 DEF Asking, SigningIn
  <2>7. Asking' = Asking
    BY <2>6 DEF Asking
  <2>8. \A b \in Attempts : SigningIn(b) => attempt'[b] = attempt[b]
    BY <1>1, <2>2 DEF SigningIn
  <2>9. SessionTyped'
    BY <2>1, <2>5 DEF SessionInv, SessionTyped
  <2>10. \A b \in Attempts : attempt'[b].at \in {"challenge", "signing", "verifying"} =>
            attempt'[b] = attempt[b]
    BY <2>6, <2>8 DEF SigningIn
  <2>11. QED
    BY <2>1, <2>6, <2>7, <2>9, <2>10 DEF SessionInv
<1>4. CASE ~(attempt[a].i < Len(WalletTypes))
  <2>1. attempt' = [attempt EXCEPT ![a] = Done] /\ UNCHANGED <<current, overtaken>>
        /\ IF a = current THEN ~isConnected' /\ wallet' = None
           ELSE UNCHANGED <<wallet, isConnected>>
    BY <1>4 DEF WalletDeclines, Forget
  <2>2. SessionTyped'
    BY <1>4, <2>1 DEF SessionInv, SessionTyped, AttemptStates, WalletDeclines, Forget
  <2>3. SUFFICES ASSUME ~overtaken PROVE SessionInv'
    BY <2>1, <2>2 DEF SessionInv
  <2>4. a = current /\ \A b \in Attempts \ {a} : b \notin Asking /\ ~SigningIn(b)
    BY <1>1, <2>3 DEF SessionInv
  <2>5. \A b \in Attempts \ {a} : attempt'[b] = attempt[b]
    BY <2>1 DEF SessionInv, SessionTyped
  <2>6. attempt'[a] = Done
    BY <2>1 DEF SessionInv, SessionTyped
  <2>7. \A b \in Attempts :
           attempt'[b].at \notin {"asking", "challenge", "signing", "verifying"}
    BY <2>4, <2>5, <2>6 DEF Asking, SigningIn, Done
  <2>8. QED
    BY <2>1, <2>2, <2>4, <2>7 DEF SessionInv, Asking, SigningIn
<1>5. QED BY <1>3, <1>4

\* After the wallet is there: each step changes the attempt it is about, from a
\* place where the wallet has answered to another.
LEMMA SignInKeepsSession ==
    ASSUME SessionInv, NEW a \in Attempts, SigningIn(a),
           UNCHANGED <<wallet, isConnected, current, overtaken>>,
           NEW to \in AttemptStates, attempt' = [attempt EXCEPT ![a] = to],
           to.at \in {"done", "signing", "verifying"},
           ~overtaken /\ to.at \in {"signing", "verifying"} => to.signer = to.type
    PROVE  SessionInv'
<1>1. SessionTyped'
  BY DEF SessionInv, SessionTyped
<1>2. attempt'[a] = to /\ \A b \in Attempts \ {a} : attempt'[b] = attempt[b]
  BY DEF SessionInv, SessionTyped
<1>3. \A b \in Attempts : b \in Asking' <=> b \in Asking
  BY <1>2 DEF Asking, SigningIn
<1>4. Asking' = Asking
  BY <1>3 DEF Asking
<1>5. \A b \in Attempts : SigningIn(b)' => SigningIn(b)
  BY <1>2 DEF SigningIn
<1>6. QED
  BY <1>1, <1>2, <1>3, <1>4, <1>5 DEF SessionInv

\* Every answer that an attempt may get.
LEMMA AttemptKeepsSession ==
    ASSUME SessionInv, NEW a \in Attempts, AttemptGoesOn(a)
    PROVE  SessionInv'
<1>1. attempt[a] \in AttemptStates /\ wallet \in Wallets \cup {None}
  BY DEF SessionInv, SessionTyped
<1>2. Done \in AttemptStates /\ Done.at = "done"
  BY DEF AttemptStates, Done
<1>3. ASSUME SigningIn(a), NoJwt(a) PROVE SessionInv'
  <2>1. /\ UNCHANGED <<wallet, isConnected, current, overtaken>>
        /\ attempt' = [attempt EXCEPT ![a] = Done]
    BY <1>3 DEF NoJwt
  <2>2. QED BY <1>2, <1>3, <2>1, SignInKeepsSession
<1>4. CASE ChallengeAnswered(a)
  <2>1. SigningIn(a)
    BY <1>4 DEF ChallengeAnswered, SigningIn
  <2>2. CASE wallet = None
    BY <1>3, <1>4, <2>1, <2>2 DEF ChallengeAnswered
  <2>3. CASE wallet # None
    <3> DEFINE to == [at |-> "signing", type |-> attempt[a].type, signer |-> wallet]
    <3>1. attempt[a].at = "challenge"
      BY <1>4 DEF ChallengeAnswered
    <3>2. attempt[a].type \in Wallets
      BY <1>1, <3>1 DEF AttemptStates, Unused, Done
    <3>3. to \in AttemptStates
      BY <1>1, <2>3, <3>2 DEF AttemptStates
    <3>4. ~overtaken => to.signer = to.type
      BY <2>3, <3>1 DEF SessionInv
    <3>5. /\ attempt' = [attempt EXCEPT ![a] = to]
          /\ UNCHANGED <<wallet, isConnected, current, overtaken>>
      BY <1>4, <2>3 DEF ChallengeAnswered
    <3>6. to.at = "signing"
      OBVIOUS
    <3> HIDE DEF to
    <3>7. QED BY <2>1, <3>3, <3>4, <3>5, <3>6, SignInKeepsSession
  <2>4. QED BY <2>2, <2>3
<1>5. CASE NonceSigned(a)
  <2> DEFINE to == [attempt[a] EXCEPT !.at = "verifying"]
  <2>1. attempt[a].at = "signing" /\ SigningIn(a)
    BY <1>5 DEF NonceSigned, SigningIn
  <2>2. attempt[a] \in [at : {"signing", "verifying"}, type : Wallets, signer : Wallets]
    BY <1>1, <2>1 DEF AttemptStates, Unused, Done
  <2>3. /\ to \in [at : {"signing", "verifying"}, type : Wallets, signer : Wallets]
        /\ to.at = "verifying"
        /\ to.type = attempt[a].type /\ to.signer = attempt[a].signer
    BY <2>2
  <2>4. to \in AttemptStates
    BY <2>3 DEF AttemptStates
  <2>5. ~overtaken => to.signer = to.type
    BY <2>1, <2>3 DEF SessionInv
  <2>6. /\ attempt' = [attempt EXCEPT ![a] = to]
        /\ UNCHANGED <<wallet, isConnected, current, overtaken>>
    BY <1>5 DEF NonceSigned
  <2>7. to.at = "verifying"
    BY <2>3
  <2> HIDE DEF to
  <2>8. QED BY <2>1, <2>4, <2>5, <2>6, <2>7, SignInKeepsSession
<1>6. CASE Verified(a)
  <2>1. SigningIn(a)
    BY <1>6 DEF Verified, SigningIn
  <2>2. /\ UNCHANGED <<wallet, isConnected, current, overtaken>>
        /\ attempt' = [attempt EXCEPT ![a] = Done]
    BY <1>6 DEF Verified
  <2>3. QED BY <1>2, <2>1, <2>2, SignInKeepsSession
<1>7. CASE SignInFails(a)
  BY <1>3, <1>7 DEF SignInFails, SigningIn
<1>8. QED
  BY <1>4, <1>5, <1>6, <1>7, WalletKeepsSession, DeclineKeepsSession DEF AttemptGoesOn

\* What is outside the session does not change it.
LEMMA SessionStutters ==
    ASSUME SessionInv, UNCHANGED sessionVars
    PROVE  SessionInv'
BY DEF SessionInv, SessionTyped, SigningIn, Asking, sessionVars

LEMMA SessionStep ==
    ASSUME SessionInv, [Next]_vars
    PROVE  SessionInv'
<1>1. CASE \E a \in Attempts : SessionGoesOn(a)
  BY <1>1, AttemptKeepsSession DEF SessionGoesOn
<1>2. CASE ClickWalletButton
  BY <1>2, ConnectKeepsSession, DisconnectKeepsSession DEF ClickWalletButton, WalletButton
<1>3. CASE WalletSigns \/ WalletRefuses \/ WalletAnswersLate
  BY <1>3, SessionStutters DEF WalletSigns, WalletRefuses, WalletAnswersLate
<1>4. CASE QuoteArrives \/ PoolsArrive \/ IndexerWrites
  BY <1>4, SessionStutters DEF QuoteArrives, PoolsArrive, IndexerWrites
<1>5. CASE OnDialog \/ AskForReview \/ OpenSelector \/ Edit \/ Navigate
  BY <1>5, SessionStutters DEF OnDialog, AskForReview, OpenSelector, Edit, Navigate
<1>6. CASE UNCHANGED vars
  BY <1>6, SessionStutters DEF vars
<1>7. QED
  BY <1>1, <1>2, <1>3, <1>4, <1>5, <1>6 DEF Next

LEMMA SessionStart ==
    ASSUME Init
    PROVE  SessionInv
<1>1. Unused \in AttemptStates /\ Unused.at = "unused"
  BY DEF AttemptStates, Unused
<1>2. /\ wallet = None /\ isConnected = FALSE /\ overtaken = FALSE
      /\ attempt = [a \in Attempts |-> Unused]
  BY DEF Init, SessionInit
<1>3. \A a \in Attempts : attempt[a] = Unused
  BY <1>2
<1>4. Asking = {}
  BY <1>1, <1>3 DEF Asking
<1>5. QED
  BY <1>1, <1>2, <1>3, <1>4 DEF SessionInv, SessionTyped, SigningIn

\* wallet.service.ts and auth.effects.ts: for any wallets and any number of
\* attempts the service, the store and the signatures of the sign-in agree,
\* unless a disconnect came while a wallet was being asked.
THEOREM ScreensSessionsAgree == Spec => []SessionsAgree
<1>1. SessionInv => SessionsAgree
  BY DEF SessionInv, SessionsAgree
<1>2. QED
  BY SessionStart, SessionStep, <1>1, PTL DEF Spec

-----------------------------------------------------------------------------
(* The quote. *)

Inputs == [tokenIn : Tokens, tokenOut : Tokens, amountIn : Amounts \cup {None}]
Questions == [tokenIn : Tokens, tokenOut : Tokens, amountIn : Amounts]
Quotes == [tokenIn : Tokens, tokenOut : Tokens, amountIn : Amounts, amountOut : Nat]

QuoteTyped ==
    /\ inputs \in Inputs
    /\ questions \subseteq Questions
    /\ quote \in {None, ErrorBody} \cup Quotes

\* The quote is one for the inputs, or it is known why it is not.
QuoteExplained ==
    \/ quote = None /\ cleared \in {"failure", "page left"}
    \/ quote = ErrorBody
    \/ /\ quote \in Quotes
       /\ quote.tokenIn = inputs.tokenIn /\ quote.tokenOut = inputs.tokenOut
       /\ quote.amountIn = inputs.amountIn

\* The only question the effect listens to is the one about the inputs, whose
\* answer therefore is for them.
QuoteInv ==
    /\ QuoteTyped
    /\ page = "swap" /\ inputs.amountIn # None =>
          /\ questions \subseteq {inputs}
          /\ questions = {} => QuoteExplained

LEMMA GetAmountOutIsNatural ==
    ASSUME NEW aIn \in Nat, NEW rIn \in Nat \ {0}, NEW rOut \in Nat,
           NEW feeBps \in 0..FEE_DENOMINATOR
    PROVE  GetAmountOut(aIn, rIn, rOut, feeBps) \in Nat
<1> DEFINE w == aIn * (FEE_DENOMINATOR - feeBps)
           whole == rIn * FEE_DENOMINATOR + w
<1>1. FEE_DENOMINATOR \in Nat \ {0} /\ FEE_DENOMINATOR - feeBps \in Nat
  BY OffchainAssumption
<1>2. w \in Nat /\ rIn * FEE_DENOMINATOR \in Nat \ {0}
  BY <1>1
<1>3. whole \in Nat \ {0}
  BY <1>2
<1> HIDE DEF w
<1>4. w * rOut \in Nat
  BY <1>2
<1> HIDE DEF whole
<1>5. (w * rOut) \div whole \in Nat
  BY <1>3, <1>4, Rounded
<1>6. QED BY <1>5 DEF GetAmountOut, w, whole

\* What the backend answers is the error or a quote for what was asked.
LEMMA AnswerIsForQuestion ==
    ASSUME NEW question \in Questions, NEW pool \in ActivePools
    PROVE  LET answer == GetQuote(question, pool)
           IN  \/ answer = ErrorBody
               \/ /\ answer \in Quotes
                  /\ answer.tokenIn = question.tokenIn
                  /\ answer.tokenOut = question.tokenOut
                  /\ answer.amountIn = question.amountIn
<1> DEFINE rIn == IF question.tokenIn = pool.token0 THEN pool.reserve0 ELSE pool.reserve1
           rOut == IF question.tokenIn = pool.token0 THEN pool.reserve1 ELSE pool.reserve0
           out == GetAmountOut(question.amountIn, rIn, rOut, pool.feeBps)
<1>1. CASE question.amountIn = Decimal
             \/ ~GetAmountOutOk(question.amountIn, rIn, rOut, pool.feeBps)
  BY <1>1 DEF GetQuote
<1>2. CASE ~(question.amountIn = Decimal
             \/ ~GetAmountOutOk(question.amountIn, rIn, rOut, pool.feeBps))
  <2>1. question.amountIn \in Nat
    BY <1>2, SwapAssumption DEF Questions
  <2>2. rIn \in Nat /\ rOut \in Nat /\ pool.feeBps \in 0..FEE_DENOMINATOR
        /\ FEE_DENOMINATOR \in Nat \ {0}
    BY SwapAssumption, OffchainAssumption
  <2>3. rIn > 0
    BY <1>2 DEF GetAmountOutOk
  <2> HIDE DEF rIn, rOut
  <2>4. out \in Nat
    <3>1. rIn \in Nat \ {0}
      BY <2>2, <2>3
    <3>2. QED BY <2>1, <2>2, <3>1, GetAmountOutIsNatural, Zenon
  <2> USE DEF rIn, rOut
  <2>5. GetQuote(question, pool) =
           [tokenIn |-> question.tokenIn, tokenOut |-> question.tokenOut,
            amountIn |-> question.amountIn, amountOut |-> out]
    BY <1>2 DEF GetQuote
  <2> HIDE DEF out
  <2>6. QED
    BY <2>4, <2>5 DEF Quotes, Questions
<1>3. QED BY <1>1, <1>2

LEMMA QuoteStutters ==
    ASSUME QuoteInv, UNCHANGED <<page, inputs, quote, questions, cleared>>
    PROVE  QuoteInv'
BY DEF QuoteInv, QuoteTyped, QuoteExplained

LEMMA AnswersKeepQuote ==
    ASSUME QuoteInv, QuoteArrives
    PROVE  QuoteInv'
<1>1. UNCHANGED <<page, inputs>>
  BY DEF QuoteArrives, QuoteAnswered, QuoteLost, dialogVars
<1>2. CASE QuoteAnswered
  <2>1. PICK question \in questions, pool \in ActivePools \cup {None} :
           /\ quote' = IF pool = None THEN ErrorBody ELSE GetQuote(question, pool)
           /\ questions' = questions \ {question}
    BY <1>2 DEF QuoteAnswered
  <2>2. question \in Questions
    BY DEF QuoteInv, QuoteTyped
  <2>3. \/ quote' = ErrorBody
        \/ /\ quote' \in Quotes
           /\ quote'.tokenIn = question.tokenIn
           /\ quote'.tokenOut = question.tokenOut
           /\ quote'.amountIn = question.amountIn
    BY <2>1, <2>2, AnswerIsForQuestion
  <2>4. QuoteTyped'
    BY <1>1, <2>1, <2>3 DEF QuoteInv, QuoteTyped, ErrorBody
  <2>5. ASSUME page = "swap", inputs.amountIn # None
        PROVE  questions' \subseteq {inputs} /\ QuoteExplained'
    <3>1. question = inputs
      BY <2>5 DEF QuoteInv
    <3>2. QED BY <1>1, <2>1, <2>3, <2>5, <3>1 DEF QuoteInv, QuoteExplained, ErrorBody
  <2>6. QED BY <1>1, <2>4, <2>5 DEF QuoteInv
<1>3. CASE QuoteLost
  BY <1>1, <1>3 DEF QuoteLost, QuoteInv, QuoteTyped, QuoteExplained
<1>4. QED BY <1>2, <1>3 DEF QuoteArrives

\* What the user enters: with an amount there is a new question, about it.
LEMMA EntriesKeepQuote ==
    ASSUME QuoteInv, page' = page, quote' = quote, cleared' = cleared,
           \/ EnterAmount \/ ReverseTokens \/ OnTokenSelect \/ OnSlippageChange
    PROVE  QuoteInv'
<1>1. inputs \in Inputs
  BY DEF QuoteInv, QuoteTyped
<1>2. ASSUME inputs' \in Inputs,
             IF inputs'.amountIn = None THEN UNCHANGED questions ELSE Ask(inputs')
      PROVE  QuoteInv'
  <2>1. CASE inputs'.amountIn = None
    BY <1>2, <2>1 DEF QuoteInv, QuoteTyped
  <2>2. CASE inputs'.amountIn # None
    <3>1. questions' = {inputs'}
      BY <1>2, <2>2 DEF Ask, Listening
    <3>2. inputs' \in Questions
      BY <1>2, <2>2 DEF Inputs, Questions
    <3>3. QED BY <1>2, <3>1, <3>2 DEF QuoteInv, QuoteTyped
  <2>3. QED BY <2>1, <2>2
<1>3. CASE EnterAmount
  <2>1. PICK amount \in (Amounts \cup {None}) \ {inputs.amountIn} :
           /\ inputs' = [inputs EXCEPT !.amountIn = amount]
           /\ IF amount = None THEN UNCHANGED questions ELSE Ask(inputs')
    BY <1>3 DEF EnterAmount
  <2>2. inputs' \in Inputs /\ inputs'.amountIn = amount
    BY <1>1, <2>1 DEF Inputs
  <2>3. QED BY <1>2, <2>1, <2>2
<1>4. CASE ReverseTokens
  <2>1. inputs' \in Inputs /\ inputs'.amountIn = inputs.amountIn
    BY <1>1, <1>4 DEF Inputs, ReverseTokens
  <2>2. AskAgain
    BY <1>4 DEF ReverseTokens
  <2>3. QED BY <1>2, <2>1, <2>2 DEF AskAgain
<1>5. CASE OnTokenSelect
  <2>1. inputs' \in Inputs /\ inputs'.amountIn = inputs.amountIn
    BY <1>1, <1>5 DEF Inputs, OnTokenSelect
  <2>2. AskAgain
    BY <1>5 DEF OnTokenSelect
  <2>3. QED BY <1>2, <2>1, <2>2 DEF AskAgain
<1>6. CASE OnSlippageChange
  BY <1>6, QuoteStutters DEF OnSlippageChange
<1>7. QED BY <1>3, <1>4, <1>5, <1>6

\* A signature empties the amount of the page that asked for it; one asked for
\* by an earlier page says so.
LEMMA SignaturesKeepQuote ==
    ASSUME QuoteInv, WalletSigns \/ WalletAnswersLate
    PROVE  QuoteInv'
<1>1. CASE SwapSigned
  <2>1. /\ inputs' = [inputs EXCEPT !.amountIn = None]
        /\ quote' = None /\ questions' = questions
    BY <1>1 DEF SwapSigned, ResetSwap
  <2>2. inputs' \in Inputs /\ inputs'.amountIn = None
    BY <2>1 DEF QuoteInv, QuoteTyped, Inputs
  <2>3. QED BY <2>1, <2>2 DEF QuoteInv, QuoteTyped
<1>2. CASE SwapSignedLate
  <2>1. /\ UNCHANGED <<page, inputs, questions>>
        /\ quote' = None /\ cleared' = "page left"
    BY <1>2 DEF SwapSignedLate, ResetSwap
  <2>2. QED BY <2>1 DEF QuoteInv, QuoteTyped, QuoteExplained
<1>3. CASE LiquiditySigned /\ UNCHANGED swapVars
  BY <1>3, QuoteStutters DEF LiquiditySigned, swapVars
<1>4. CASE LiquiditySignedLate /\ UNCHANGED swapVars
  BY <1>4, QuoteStutters DEF LiquiditySignedLate, swapVars
<1>5. CASE (\E p \in left : RefusedLate(p)) /\ UNCHANGED swapVars
  BY <1>5, QuoteStutters DEF RefusedLate, swapVars
<1>6. QED
  BY <1>1, <1>2, <1>3, <1>4, <1>5 DEF WalletSigns, WalletAnswersLate

LEMMA QuoteStep ==
    ASSUME QuoteInv, [Next]_vars
    PROVE  QuoteInv'
<1>1. CASE \E a \in Attempts : SessionGoesOn(a)
  BY <1>1, QuoteStutters DEF SessionGoesOn, swapVars, dialogVars
<1>2. CASE WalletRefuses
  BY <1>2, QuoteStutters DEF WalletRefuses, Refused, swapVars
<1>3. CASE PoolsArrive \/ IndexerWrites
  BY <1>3, QuoteStutters DEF PoolsArrive, IndexerWrites, swapVars, dialogVars
<1>4. CASE ClickWalletButton \/ OpenSelector
  BY <1>4, QuoteStutters
     DEF ClickWalletButton, OpenSelector, OpenTokenSelector, CloseSelector, swapVars, dialogVars
<1>5. CASE OnDialog
  BY <1>5, QuoteStutters DEF OnDialog, Confirm, CloseDialog, swapVars
<1>6. CASE AskForReview
  BY <1>6, QuoteStutters
     DEF AskForReview, ExecuteSwap, PreviewAddLiquidity, PreviewRemoveLiquidity, ReviewPool,
         swapVars
<1>7. CASE Edit
  <2>1. CASE EnterAmount \/ ReverseTokens \/ OnTokenSelect \/ OnSlippageChange
    <3>1. UNCHANGED <<page, quote, cleared>>
      BY <1>7, <2>1
         DEF Edit, dialogVars, EnterAmount, ReverseTokens, OnTokenSelect, OnSlippageChange
    <3>2. QED BY <2>1, <3>1, EntriesKeepQuote
  <2>2. CASE UNCHANGED swapVars
    BY <1>7, <2>2, QuoteStutters DEF Edit, dialogVars, swapVars
  <2>3. QED BY <1>7, <2>1, <2>2 DEF Edit
<1>8. CASE Navigate
  <2>1. inputs' = NoInputs /\ UNCHANGED <<quote, questions>>
    BY <1>8 DEF Navigate, NewSwapPage
  <2>2. NoInputs \in Inputs /\ NoInputs.amountIn = None
    BY SwapAssumption DEF NoInputs, Inputs
  <2>3. QED BY <2>1, <2>2 DEF QuoteInv, QuoteTyped
<1>9. CASE UNCHANGED vars
  BY <1>9, QuoteStutters DEF vars, swapVars, dialogVars
<1>10. QED
  BY <1>1, <1>2, <1>3, <1>4, <1>5, <1>6, <1>7, <1>8, <1>9,
     AnswersKeepQuote, SignaturesKeepQuote DEF Next

LEMMA QuoteStart ==
    ASSUME Init
    PROVE  QuoteInv
<1>1. inputs = NoInputs /\ questions = {} /\ quote = None
  BY DEF Init, SwapInit
<1>2. NoInputs \in Inputs /\ NoInputs.amountIn = None
  BY SwapAssumption DEF NoInputs, Inputs
<1>3. QED BY <1>1, <1>2 DEF QuoteInv, QuoteTyped

\* swap.component.ts and swap.effects.ts: for any tokens, amounts and pools, and
\* whatever the backend answers and when, a quote on the page is for the inputs
\* on the page once the last question has its answer.
THEOREM ScreensQuoteMatches == Spec => []QuoteMatchesInputs
<1>1. ASSUME QuoteInv PROVE QuoteMatchesInputs
  <2>1. SUFFICES ASSUME page = "swap", questions = {}, inputs.amountIn # None,
                        quote \in Quotes,
                        quote.tokenIn = inputs.tokenIn, quote.tokenOut = inputs.tokenOut,
                        quote.amountIn = inputs.amountIn
                 PROVE  quote # None /\ \A field \in DOMAIN inputs : quote[field] = inputs[field]
    BY <1>1 DEF QuoteInv, QuoteExplained, QuoteMatchesInputs
  <2>2. quote # None
    BY <2>1, NoneAssumption DEF Quotes
  <2>3. DOMAIN inputs = {"tokenIn", "tokenOut", "amountIn"}
    BY <1>1 DEF QuoteInv, QuoteTyped, Inputs
  <2>4. QED BY <2>1, <2>2, <2>3
<1>2. QED
  BY QuoteStart, QuoteStep, <1>1, PTL DEF Spec

-----------------------------------------------------------------------------
(* The listing. *)

\* The only request the effect listens to is the one of the last page about
\* pools; what it brings was there when that page opened, or came later.
ListingInv ==
    /\ version \in Versions
    /\ asked \in 1..version
    /\ loads \subseteq {asked}
    /\ page \in PoolPages \cup ListPages /\ loads = {} /\ ~failed =>
          \E v \in asked..version : pools \in Listings(v)
    /\ failed => loads = {} /\ pools.ids = {}

LEMMA ListingStutters ==
    ASSUME ListingInv, UNCHANGED <<page, version, pools, loads, asked, failed>>
    PROVE  ListingInv'
BY DEF ListingInv, Versions, Listings

LEMMA ListingStep ==
    ASSUME ListingInv, [Next]_vars
    PROVE  ListingInv'
<1>1. CASE \E a \in Attempts : SessionGoesOn(a)
  BY <1>1, ListingStutters DEF SessionGoesOn, poolsVars, dialogVars
<1>2. CASE WalletSigns
  BY <1>2, ListingStutters DEF WalletSigns, SwapSigned, LiquiditySigned, poolsVars
<1>3. CASE WalletRefuses
  BY <1>3, ListingStutters DEF WalletRefuses, Refused, poolsVars
<1>4. CASE WalletAnswersLate
  BY <1>4, ListingStutters
     DEF WalletAnswersLate, SwapSignedLate, LiquiditySignedLate, RefusedLate, poolsVars
<1>5. CASE QuoteArrives \/ ClickWalletButton \/ OpenSelector
  BY <1>5, ListingStutters DEF QuoteArrives, ClickWalletButton, OpenSelector, poolsVars, dialogVars
<1>6. CASE PoolsArrive
  <2>1. UNCHANGED page
    BY <1>6 DEF PoolsArrive, dialogVars
  <2>2. CASE PoolsLoaded
    <3>1. PICK load \in loads : \E v \in load..version : \E listing \in Listings(v) :
             pools' = listing /\ loads' = loads \ {load} /\ UNCHANGED <<version, asked, failed>>
      BY <2>2 DEF PoolsLoaded
    <3>2. load = asked /\ ~failed
      BY DEF ListingInv
    <3>3. PICK v \in asked'..version' : pools' \in Listings(v)
      BY <3>1, <3>2
    <3>4. Listings(v)' = Listings(v)
      BY DEF Listings
    <3>a. version \in Versions /\ asked \in 1..version /\ loads \subseteq {asked}
      BY DEF ListingInv
    <3>b. loads' \subseteq loads /\ version' = version /\ asked' = asked /\ failed' = failed
      BY <3>1
    <3>c. Versions' = Versions
      BY DEF Versions
    <3>5. ~failed' /\ loads' \subseteq {asked'} /\ version' \in Versions /\ asked' \in 1..version'
      <4>1. loads' \subseteq {asked'}
        BY <3>a, <3>b
      <4>2. version' \in Versions /\ asked' \in 1..version'
        BY <3>a, <3>b
      <4>3. ~failed'
        BY <3>2, <3>b
      <4>4. QED BY <4>1, <4>2, <4>3
    <3>6. QED BY <3>3, <3>4, <3>5 DEF ListingInv, Versions
  <2>3. CASE LoadFailed
    <3>1. PICK load \in loads :
             /\ pools' \in {NoListing, NotAList} /\ loads' = loads \ {load}
             /\ failed' = TRUE /\ UNCHANGED <<version, asked>>
      BY <2>3 DEF LoadFailed
    <3>2. loads' = {} /\ pools'.ids = {}
      BY <3>1 DEF ListingInv, NoListing, NotAList
    <3>3. QED BY <3>1, <3>2 DEF ListingInv, Versions
  <2>4. QED BY <1>6, <2>2, <2>3 DEF PoolsArrive
<1>7. CASE IndexerWrites
  <2>1. /\ version' = version + 1 /\ version + 1 \in Versions
        /\ UNCHANGED <<page, pools, loads, asked, failed>>
    BY <1>7 DEF IndexerWrites, RowsChange, dialogVars
  <2>2. version \in Nat /\ asked \in Nat
    BY LiquidityAssumption DEF ListingInv, Versions
  <2>3. asked' \in 1..version' /\ asked..version \subseteq asked'..version'
    BY <2>1, <2>2 DEF ListingInv
  <2>4. QED BY <2>1, <2>3 DEF ListingInv, Versions, Listings
<1>8. CASE OnDialog
  BY <1>8, ListingStutters DEF OnDialog, Confirm, CloseDialog, poolsVars
<1>9. CASE AskForReview
  BY <1>9, ListingStutters
     DEF AskForReview, ExecuteSwap, PreviewAddLiquidity, PreviewRemoveLiquidity, ReviewPool,
         poolsVars
<1>10. CASE Edit
  BY <1>10, ListingStutters
     DEF Edit, OnAmountAChange, OnAmountBChange, SetPercentage, Fill, poolsVars, dialogVars
<1>11. CASE Navigate
  <2>1. CASE \E id \in AllPools \cup {None} : OpenPoolsPage(id)
    <3>1. loads' = {version} /\ asked' = version /\ version' = version /\ failed' = FALSE
      BY <2>1 DEF OpenPoolsPage, Awaited
    <3>2. version \in Nat \ {0}
      BY LiquidityAssumption DEF ListingInv, Versions
    <3>3. QED BY <3>1, <3>2 DEF ListingInv, Versions
  <2>2. CASE page' \notin PoolPages \cup ListPages /\ OpenOtherPage
    BY <2>2 DEF OpenOtherPage, ListingInv, Versions
  <2>3. QED BY <1>11, <2>1, <2>2 DEF Navigate, GoTo
<1>12. CASE UNCHANGED vars
  BY <1>12, ListingStutters DEF vars, poolsVars, dialogVars
<1>13. QED
  BY <1>1, <1>2, <1>3, <1>4, <1>5, <1>6, <1>7, <1>8, <1>9, <1>10, <1>11, <1>12 DEF Next

LEMMA ListingStart ==
    ASSUME Init
    PROVE  ListingInv
<1>1. /\ version = 1 /\ asked = 1 /\ loads = {} /\ failed = FALSE
      /\ page \notin PoolPages \cup ListPages
  BY ScreensAssumption DEF Init, PoolsInit
<1>2. QED BY <1>1, LiquidityAssumption DEF ListingInv, Versions

\* A listing that leaves rows out is full, and there are more than it has.
LEMMA ListingIsWhole ==
    ASSUME NEW v \in Versions, NEW listing \in Listings(v)
    PROVE  /\ listing.version = v
           /\ \/ listing.ids = DOMAIN Rows[v]
              \/ Cardinality(DOMAIN Rows[v]) > PageLimit
<1>1. PICK ids \in SUBSET DOMAIN Rows[v] :
         /\ listing = [version |-> v, ids |-> ids]
         /\ \/ ids = DOMAIN Rows[v]
            \/ ids # DOMAIN Rows[v] /\ Cardinality(ids) = PageLimit
  BY DEF Listings
<1>2. IsFiniteSet(DOMAIN Rows[v])
  BY LiquidityAssumption DEF Versions
<1>3. Cardinality(DOMAIN Rows[v]) \in Nat
  BY <1>2, FS_CardinalityType
<1>4. CASE ids # DOMAIN Rows[v]
  <2>1. /\ Cardinality(ids) <= Cardinality(DOMAIN Rows[v])
        /\ Cardinality(ids) # Cardinality(DOMAIN Rows[v])
    BY <1>2, <1>4, FS_Subset
  <2>2. QED BY <1>1, <1>3, <1>4, <2>1, LiquidityAssumption
<1>5. QED BY <1>1, <1>4

\* pools.effects.ts and the pages that load pools: for any rows and any limit of
\* the listing, a page shows pools that are not older than itself, and finds its
\* own unless the server left it out.
THEOREM ScreensListingIsCurrent == Spec => []ListingIsCurrent
<1>1. ASSUME ListingInv PROVE ListingIsCurrent
  <2> SUFFICES ASSUME page \in PoolPages \cup ListPages, loads = {}
               PROVE  IF failed THEN ~Found
                      ELSE /\ pools.version >= asked
                           /\ \/ Found
                              \/ poolId \notin DOMAIN Rows[pools.version]
                              \/ Cardinality(DOMAIN Rows[pools.version]) > PageLimit
    BY DEF ListingIsCurrent
  <2>0. failed => ~Found
    BY <1>1 DEF ListingInv, Found
  <2>1. SUFFICES ASSUME ~failed
                 PROVE  /\ pools.version >= asked
                        /\ \/ Found
                           \/ poolId \notin DOMAIN Rows[pools.version]
                           \/ Cardinality(DOMAIN Rows[pools.version]) > PageLimit
    BY <2>0
  <2>2. PICK v \in asked..version : pools \in Listings(v)
    BY <1>1, <2>1 DEF ListingInv
  <2>3. asked \in Nat /\ version \in Nat /\ asked >= 1 /\ version \in 1..Len(Rows)
    BY <1>1, LiquidityAssumption DEF ListingInv, Versions
  <2>4. v \in Versions /\ v >= asked
    BY <2>3, LiquidityAssumption DEF Versions
  <2>5. QED BY <2>2, <2>4, ListingIsWhole DEF Found
<1>2. QED
  BY ListingStart, ListingStep, <1>1, PTL DEF Spec

-----------------------------------------------------------------------------
(* What is confirmed. *)

\* The steps at which the dialog shows what was written down at the review.
Reviewing == Step({"review", "signing", "error"})

DialogTyped ==
    \E open, step, details, signer :
        dialog = [open |-> open, step |-> step, details |-> details, signer |-> signer]

\* A review that waited for no answer still shows what the store has: no answer
\* is under way that could change it.
SwapShown ==
    LET shown == dialog.details
    IN  /\ shown.inputs = inputs
        /\ shown.quote \in {ErrorBody} \cup Quotes
        /\ shown.slippage \in 0..10 * FEE_DENOMINATOR
        /\ shown.minimum \in Formatted(MinAmountOut(shown.quote, shown.slippage))
        /\ shown.awaited \/ /\ questions = {}
                            /\ shown.quote = quote \/ cleared = "page left"

PoolShown ==
    LET shown == dialog.details
    IN  /\ shown.poolId = poolId /\ shown.form = form
        /\ shown.awaited \/ (loads = {} /\ shown.listing = pools)

\* The wallet asked to sign is the connected one; there is one.
SignerKept == Step({"signing"}) /\ ~overtaken => dialog.signer = wallet /\ wallet # None

ReviewInv ==
    /\ DialogTyped
    /\ slippage \in 0..10 * FEE_DENOMINATOR
    /\ Reviewing /\ page = "swap" => SwapShown
    /\ Reviewing /\ page \in {"add", "remove"} => PoolShown
    /\ SignerKept

\* What is left of an amount below a tolerance rounded up, and below the amount
\* less the tolerance rounded to the nearest unit.
LEMMA MinimumIsLower ==
    ASSUME NEW amount \in Nat, NEW s \in 0..10 * FEE_DENOMINATOR
    PROVE  LET kept == (amount * ((10 * FEE_DENOMINATOR - s) \div 10)) \div FEE_DENOMINATOR
           IN  kept \in Nat /\ BuiltMinimum(amount, s) \in Int /\ kept <= BuiltMinimum(amount, s)
<1> DEFINE k == (10 * FEE_DENOMINATOR - s) \div 10
           j == (s + 5) \div 10
           kept == (amount * k) \div FEE_DENOMINATOR
           lost == (amount * j) \div FEE_DENOMINATOR
<1>1. FEE_DENOMINATOR \in Nat \ {0} /\ s \in Nat /\ 10 * FEE_DENOMINATOR - s \in Nat
  BY OffchainAssumption
<1>2. k \in Nat /\ j \in Nat /\ k + j <= FEE_DENOMINATOR
  BY <1>1
<1> HIDE DEF k, j
<1>3. amount * k \in Nat /\ amount * j \in Nat
  BY <1>2
<1>4. /\ kept \in Nat /\ kept * FEE_DENOMINATOR <= amount * k
      /\ lost \in Nat /\ lost * FEE_DENOMINATOR <= amount * j
  BY <1>1, <1>3, Rounded
<1> HIDE DEF kept, lost
<1>5. amount * k + amount * j = amount * (k + j)
  BY <1>2
<1>6. k + j \in Nat /\ amount * (k + j) <= amount * FEE_DENOMINATOR
  BY <1>1, <1>2, ProductsCompare
<1>7. (kept + lost) * FEE_DENOMINATOR = kept * FEE_DENOMINATOR + lost * FEE_DENOMINATOR
  BY <1>1, <1>4
<1>8. /\ kept * FEE_DENOMINATOR \in Nat /\ lost * FEE_DENOMINATOR \in Nat
      /\ amount * (k + j) \in Nat /\ amount * FEE_DENOMINATOR \in Nat /\ kept + lost \in Nat
  BY <1>1, <1>4, <1>6
<1>9. (kept + lost) * FEE_DENOMINATOR <= amount * FEE_DENOMINATOR
  BY <1>3, <1>4, <1>5, <1>6, <1>7, <1>8
<1>10. kept + lost <= amount
  BY <1>1, <1>8, <1>9, Cancel
<1>11. kept \in Nat /\ kept <= amount - lost /\ amount - lost \in Int
  BY <1>4, <1>10
<1>12. QED BY <1>11 DEF BuiltMinimum, k, j, kept, lost

\* What the page shows of an amount.
LEMMA FormattedIsNear ==
    ASSUME NEW amount \in Nat, NEW n \in Formatted(amount)
    PROVE  n \in Int /\ 2 * n <= 2 * amount + DisplayUnit
<1>1. DisplayUnit \in Nat \ {0}
  BY SwapAssumption
<1>2. amount \div DisplayUnit \in Int
  BY <1>1
<1>3. PICK below \in Int : below = (amount \div DisplayUnit) * DisplayUnit
  BY <1>1, <1>2
<1>4. n \in {below, below + DisplayUnit} /\ 2 * abs(n - amount) <= DisplayUnit
  BY <1>3 DEF Formatted
<1>5. n \in Int
  BY <1>1, <1>3, <1>4
<1>6. QED BY <1>1, <1>4, <1>5 DEF abs

\* A step under an open dialog: it changes neither the inputs nor the form, and
\* the store only by an answer that was awaited or by a page left.
LEMMA ReviewStays ==
    ASSUME ReviewInv, DialogTyped', SignerKept',
           slippage' \in 0..10 * FEE_DENOMINATOR,
           Reviewing' => Reviewing /\ dialog'.details = dialog.details /\ page' = page,
           Reviewing' /\ page = "swap" =>
               /\ inputs' = inputs
               /\ questions = {} => /\ questions' = {}
                                    /\ UNCHANGED <<quote, cleared>> \/ cleared' = "page left",
           Reviewing' /\ page \in {"add", "remove"} =>
               /\ UNCHANGED <<poolId, form>>
               /\ loads = {} => UNCHANGED <<loads, pools>>
    PROVE  ReviewInv'
<1>1. ASSUME Reviewing', page' = "swap" PROVE SwapShown'
  <2>1. SwapShown
    BY <1>1 DEF ReviewInv
  <2>2. QED BY <1>1, <2>1 DEF SwapShown
<1>2. ASSUME Reviewing', page' \in {"add", "remove"} PROVE PoolShown'
  <2>1. PoolShown
    BY <1>2 DEF ReviewInv
  <2>2. QED BY <1>2, <2>1 DEF PoolShown
<1>3. QED BY <1>1, <1>2 DEF ReviewInv

\* While the dialog stays as it is and the session too.
LEMMA SignerStays ==
    ASSUME ReviewInv, UNCHANGED <<dialog, sessionVars>>
    PROVE  DialogTyped' /\ SignerKept' /\ (Reviewing' <=> Reviewing)
BY DEF ReviewInv, DialogTyped, SignerKept, Reviewing, Step, sessionVars

\* A wallet that answers or declines is one the service waits for, so no wallet
\* is asked to sign for a page; and the wallet button is under the dialog.
LEMMA SessionKeepsReview ==
    ASSUME ReviewInv, SessionInv,
           ClickWalletButton \/ \E a \in Attempts : SessionGoesOn(a)
    PROVE  ReviewInv'
<1>1. UNCHANGED <<dialogVars, swapVars, poolsVars>>
  BY DEF ClickWalletButton, SessionGoesOn
<1>2. DialogTyped' /\ (Reviewing' <=> Reviewing) /\ (Step({"signing"})' <=> Step({"signing"}))
  BY <1>1 DEF ReviewInv, DialogTyped, Reviewing, Step, dialogVars
<1>3. SignerKept'
  <2>1. CASE ClickWalletButton
    BY <1>2, <2>1 DEF ClickWalletButton, Covered, SignerKept, Step
  <2>2. ASSUME NEW a \in Attempts, SessionGoesOn(a), Step({"signing"}), ~overtaken'
        PROVE  dialog'.signer = wallet' /\ wallet' # None
    <3>1. ~overtaken
      BY <2>2 DEF SessionGoesOn, AttemptGoesOn, WalletAnswers, WalletDeclines,
                  ChallengeAnswered, NonceSigned, Verified, SignInFails, NoJwt
    <3>2. dialog.signer = wallet /\ wallet # None
      BY <2>2, <3>1 DEF ReviewInv, SignerKept
    <3>3. Asking = {}
      BY <3>1, <3>2 DEF SessionInv
    <3>4. wallet' = wallet
      BY <2>2, <3>3 DEF SessionGoesOn, AttemptGoesOn, WalletAnswers, WalletDeclines,
                        ChallengeAnswered, NonceSigned, Verified, SignInFails, NoJwt
    <3>5. QED BY <1>1, <3>2, <3>4 DEF dialogVars
  <2>3. QED BY <1>2, <2>1, <2>2 DEF SignerKept
<1>4. QED
  BY <1>1, <1>2, <1>3, ReviewStays DEF ReviewInv, dialogVars, swapVars, poolsVars

\* The dialog opens over what was on the page.
LEMMA AskingForReviewKeepsReview ==
    ASSUME ReviewInv, QuoteInv, AskForReview
    PROVE  ReviewInv'
<1>1. CASE ExecuteSwap
  <2>0. PICK minimum \in Formatted(MinAmountOut(quote, slippage)) :
           Review([inputs |-> inputs, quote |-> quote, slippage |-> slippage,
                   minimum |-> minimum, awaited |-> questions # {}])
    BY <1>1 DEF ExecuteSwap
  <2> DEFINE shown == [inputs |-> inputs, quote |-> quote, slippage |-> slippage,
                       minimum |-> minimum, awaited |-> questions # {}]
  <2>1. /\ page = "swap" /\ inputs.amountIn # None /\ quote # None
        /\ dialog' = [open |-> TRUE, step |-> "review", details |-> shown, signer |-> None]
        /\ UNCHANGED <<page, swapVars>>
    BY <1>1, <2>0 DEF ExecuteSwap, Review, OnSwapPage
  <2>2. DialogTyped' /\ SignerKept'
    BY <2>1 DEF DialogTyped, SignerKept, Step
  <2>3. quote \in {ErrorBody} \cup Quotes
    BY <2>1 DEF QuoteInv, QuoteTyped
  <2>4. dialog'.details = shown
    BY <2>1
  <2>5. SwapShown'
    <3>1. (shown.minimum \in Formatted(MinAmountOut(shown.quote, shown.slippage)))'
      <4>1. shown.minimum \in Formatted(MinAmountOut(shown.quote, shown.slippage))
        BY <2>0
      <4>2. shown' = shown
        BY <2>1 DEF swapVars
      <4> HIDE DEF shown
      <4>3. QED BY <4>1, <4>2 DEF Formatted, MinAmountOut
    <3>2. dialog'.details.minimum
             \in Formatted(MinAmountOut(dialog.details.quote, dialog.details.slippage))'
      BY <2>4, <3>1
    <3>3. QED BY <2>1, <2>3, <2>4, <3>2 DEF SwapShown, ReviewInv, swapVars
  <2>6. QED BY <2>1, <2>2, <2>5 DEF ReviewInv, swapVars
<1>2. ASSUME NEW what, ReviewPool(what), page \in {"add", "remove"}, UNCHANGED swapVars
      PROVE  ReviewInv'
  <2> DEFINE shown == [poolId |-> poolId, form |-> form, listing |-> pools, shown |-> what,
                       awaited |-> loads # {}]
  <2>1. /\ dialog' = [open |-> TRUE, step |-> "review", details |-> shown, signer |-> None]
        /\ UNCHANGED <<page, poolsVars>>
    BY <1>2 DEF ReviewPool, Review
  <2>2. DialogTyped' /\ SignerKept'
    BY <2>1 DEF DialogTyped, SignerKept, Step
  <2>3. dialog'.details = shown
    BY <2>1
  <2>4. PoolShown'
    BY <2>1, <2>3 DEF PoolShown, poolsVars
  <2>5. QED BY <1>2, <2>1, <2>2, <2>4 DEF ReviewInv, swapVars
<1>3. CASE PreviewAddLiquidity \/ PreviewRemoveLiquidity
  BY <1>1, <1>2, <1>3 DEF AskForReview, PreviewAddLiquidity, PreviewRemoveLiquidity
<1>4. QED BY <1>1, <1>3 DEF AskForReview

\* What the dialog does: it closes, or asks the wallet that is connected.
LEMMA DialogKeepsReview ==
    ASSUME ReviewInv, OnDialog \/ WalletRefuses
    PROVE  ReviewInv'
<1>1. PICK open, step, details, signer :
         dialog = [open |-> open, step |-> step, details |-> details, signer |-> signer]
  BY DEF ReviewInv, DialogTyped
<1>2. /\ UNCHANGED <<page, sessionVars, swapVars, poolsVars>>
      /\ \/ /\ ~dialog'.open
            /\ dialog' = [open |-> FALSE, step |-> step, details |-> details, signer |-> signer]
         \/ /\ Reviewing
            /\ dialog' = [open |-> open, step |-> IF wallet = None THEN "error" ELSE "signing",
                          details |-> details, signer |-> wallet]
         \/ /\ Reviewing
            /\ dialog' = [open |-> open, step |-> "error", details |-> details, signer |-> signer]
  BY <1>1 DEF OnDialog, Confirm, CloseDialog, WalletRefuses, Refused, Reviewing, Step
<1>3. DialogTyped' /\ SignerKept'
  BY <1>2 DEF DialogTyped, SignerKept, Step, sessionVars
<1>4. Reviewing' => Reviewing /\ dialog'.details = dialog.details
  BY <1>1, <1>2 DEF Reviewing, Step
<1>5. QED
  BY <1>2, <1>3, <1>4, ReviewStays DEF ReviewInv, swapVars, poolsVars

\* A signature ends the review it was given for, and may empty the store under
\* another one: that one's page says so.
LEMMA SignaturesKeepReview ==
    ASSUME ReviewInv, WalletSigns \/ WalletAnswersLate
    PROVE  ReviewInv'
<1>1. FirstTolerance \in 0..10 * FEE_DENOMINATOR
  BY SwapAssumption
<1>2. CASE WalletSigns
  <2>1. PICK open, step, details, signer :
           dialog = [open |-> open, step |-> step, details |-> details, signer |-> signer]
    BY DEF ReviewInv, DialogTyped
  <2>2. dialog' = [open |-> open, step |-> "submitted", details |-> details, signer |-> signer]
    BY <1>2, <2>1 DEF WalletSigns, SwapSigned, LiquiditySigned, Signed
  <2>3. DialogTyped' /\ SignerKept' /\ ~Reviewing'
    BY <2>2 DEF DialogTyped, SignerKept, Reviewing, Step
  <2>4. slippage' \in 0..10 * FEE_DENOMINATOR
    BY <1>1, <1>2 DEF WalletSigns, SwapSigned, ResetSwap, swapVars, ReviewInv
  <2>5. QED BY <2>3, <2>4 DEF ReviewInv
<1>3. CASE WalletAnswersLate
  <2>1. UNCHANGED <<page, dialog, sessionVars, inputs, poolsVars>>
    BY <1>3 DEF WalletAnswersLate, SwapSignedLate, LiquiditySignedLate, RefusedLate, swapVars
  <2>2. /\ questions' = questions
        /\ \/ UNCHANGED <<quote, cleared, slippage>>
           \/ cleared' = "page left" /\ slippage' = FirstTolerance
    BY <1>3 DEF WalletAnswersLate, SwapSignedLate, ResetSwap, swapVars
  <2>3. slippage' \in 0..10 * FEE_DENOMINATOR
    BY <1>1, <2>2 DEF ReviewInv
  <2>4. QED
    BY <2>1, <2>2, <2>3, SignerStays, ReviewStays DEF poolsVars
<1>4. QED BY <1>2, <1>3

LEMMA ReviewStep ==
    ASSUME ReviewInv, SessionInv, QuoteInv, [Next]_vars
    PROVE  ReviewInv'
<1>1. CASE QuoteArrives
  <2>1. UNCHANGED <<page, dialog, sessionVars, inputs, slippage, poolsVars>> /\ questions # {}
    BY <1>1 DEF QuoteArrives, QuoteAnswered, QuoteLost, dialogVars
  <2>2. QED BY <2>1, SignerStays, ReviewStays DEF ReviewInv, poolsVars
<1>2. CASE PoolsArrive
  <2>1. UNCHANGED <<page, dialog, sessionVars, swapVars, poolId, form>> /\ loads # {}
    BY <1>2 DEF PoolsArrive, PoolsLoaded, LoadFailed, dialogVars
  <2>2. QED BY <2>1, SignerStays, ReviewStays DEF ReviewInv, swapVars
<1>3. CASE IndexerWrites
  <2>1. UNCHANGED <<page, dialog, sessionVars, swapVars, poolId, form, loads, pools>>
    BY <1>3 DEF IndexerWrites, RowsChange, dialogVars
  <2>2. QED BY <2>1, SignerStays, ReviewStays DEF ReviewInv, swapVars
<1>4. CASE OpenSelector
  <2>1. UNCHANGED <<page, dialog, sessionVars, poolsVars, inputs, quote, slippage, questions, cleared>>
    BY <1>4 DEF OpenSelector, OpenTokenSelector, CloseSelector, dialogVars
  <2>2. QED BY <2>1, SignerStays, ReviewStays DEF ReviewInv, poolsVars
<1>5. CASE Edit
  <2>1. UNCHANGED <<page, dialog, sessionVars>>
    BY <1>5 DEF Edit, dialogVars
  <2>2. ~Reviewing
    BY <1>5 DEF Edit, EnterAmount, ReverseTokens, OnTokenSelect, OnSlippageChange, OnSwapPage,
                OnAmountAChange, OnAmountBChange, SetPercentage, Fill, Covered, Reviewing, Step
  <2>3. slippage' \in 0..10 * FEE_DENOMINATOR
    BY <1>5, SwapAssumption
       DEF Edit, EnterAmount, ReverseTokens, OnTokenSelect, OnSlippageChange, swapVars, ReviewInv
  <2>4. QED BY <2>1, <2>2, <2>3, SignerStays, ReviewStays
<1>6. CASE Navigate
  <2>1. dialog' = Closed /\ UNCHANGED slippage
    BY <1>6 DEF Navigate, GoTo
  <2>2. DialogTyped' /\ SignerKept' /\ ~Reviewing'
    BY <2>1 DEF DialogTyped, SignerKept, Reviewing, Step, Closed
  <2>3. QED BY <2>1, <2>2 DEF ReviewInv
<1>7. CASE UNCHANGED vars
  BY <1>7, SignerStays, ReviewStays DEF vars, dialogVars, swapVars, poolsVars, ReviewInv
<1>8. QED
  BY <1>1, <1>2, <1>3, <1>4, <1>5, <1>6, <1>7, SessionKeepsReview,
     AskingForReviewKeepsReview, DialogKeepsReview, SignaturesKeepReview DEF Next

LEMMA ReviewStart ==
    ASSUME Init
    PROVE  ReviewInv
<1>1. dialog = Closed /\ slippage = FirstTolerance
  BY DEF Init, DialogInit, SwapInit
<1>2. QED
  BY <1>1, SwapAssumption DEF ReviewInv, DialogTyped, SignerKept, Reviewing, Step, Closed

\* executeSwap and the previews of the liquidity pages: for any amounts,
\* tolerances, pools and wallets, what is confirmed is what is on the page, its
\* minimum is above that of a transaction built from the same quote by half a
\* unit of the display at most, and the wallet that signs it is the connected one.
THEOREM ScreensReviewIsShown == Spec => []ReviewIsWhatIsShown
<1>1. ASSUME ReviewInv PROVE ReviewIsWhatIsShown
  <2> DEFINE shown == dialog.details
  <2>1. ASSUME Reviewing, page = "swap"
        PROVE  /\ shown.inputs = inputs
               /\ shown.quote = quote \/ shown.awaited \/ cleared = "page left"
               /\ shown.quote # ErrorBody =>
                      2 * shown.minimum <= DisplayUnit
                          + 2 * BuiltMinimum(shown.quote.amountOut, shown.slippage)
    <3>1. SwapShown
      BY <1>1, <2>1 DEF ReviewInv
    <3>2. ASSUME shown.quote # ErrorBody
          PROVE  2 * shown.minimum <= DisplayUnit
                     + 2 * BuiltMinimum(shown.quote.amountOut, shown.slippage)
      <4>1. shown.quote \in Quotes /\ shown.slippage \in 0..10 * FEE_DENOMINATOR
            /\ shown.minimum \in Formatted(MinAmountOut(shown.quote, shown.slippage))
        BY <3>1, <3>2 DEF SwapShown
      <4>2. shown.quote.amountOut \in Nat /\ shown.quote.amountOut # None
        BY <4>1, NoneAssumption DEF Quotes
      <4>3. PICK kept :
               /\ kept = (shown.quote.amountOut
                            * ((10 * FEE_DENOMINATOR - shown.slippage) \div 10))
                              \div FEE_DENOMINATOR
               /\ shown.minimum \in Formatted(kept)
        BY <4>1, <4>2 DEF MinAmountOut
      <4> HIDE DEF shown
      <4>4. PICK built : built = BuiltMinimum(shown.quote.amountOut, shown.slippage)
        OBVIOUS
      <4>5. kept \in Nat /\ built \in Int /\ kept <= built
        BY <4>1, <4>2, <4>3, <4>4, MinimumIsLower
      <4>6. shown.minimum \in Int /\ 2 * shown.minimum <= 2 * kept + DisplayUnit
        BY <4>3, <4>5, FormattedIsNear
      <4>7. QED BY <4>4, <4>5, <4>6, SwapAssumption
    <3>3. QED BY <3>1, <3>2 DEF SwapShown
  <2>2. ASSUME Reviewing, page \in {"add", "remove"}
        PROVE  /\ shown.poolId = poolId /\ shown.form = form
               /\ shown.listing = pools \/ shown.awaited
    BY <1>1, <2>2 DEF ReviewInv, PoolShown
  <2>3. Step({"signing"}) /\ ~overtaken => dialog.signer = wallet
    BY <1>1 DEF ReviewInv, SignerKept
  <2> HIDE DEF shown
  <2>4. QED BY <2>1, <2>2, <2>3 DEF ReviewIsWhatIsShown, Reviewing, shown
<1>2. SessionInv /\ QuoteInv /\ ReviewInv /\ [Next]_vars
        => SessionInv' /\ QuoteInv' /\ ReviewInv'
  BY SessionStep, QuoteStep, ReviewStep
<1>3. Init => SessionInv /\ QuoteInv /\ ReviewInv
  BY SessionStart, QuoteStart, ReviewStart
<1>4. QED BY <1>1, <1>2, <1>3, PTL DEF Spec

-----------------------------------------------------------------------------
(* The share that the page shows for a deposit. *)

\* What is entered are numbers, and what is found is a row.
ShareInv ==
    /\ form \in [amountA : Nat, amountB : Nat, percentage : Nat]
    /\ pools \in {NoListing, NotAList} \/ \E v \in Versions : pools \in Listings(v)

LEMMA ShareStutters ==
    ASSUME ShareInv, UNCHANGED <<form, pools>>
    PROVE  ShareInv'
BY DEF ShareInv, Versions, Listings, NoListing, NotAList

LEMMA ShareStep ==
    ASSUME ListingInv, ShareInv, [Next]_vars
    PROVE  ShareInv'
<1>1. CASE \E a \in Attempts : SessionGoesOn(a)
  BY <1>1, ShareStutters DEF SessionGoesOn, poolsVars
<1>2. CASE WalletSigns
  BY <1>2, ShareStutters DEF WalletSigns, SwapSigned, LiquiditySigned, poolsVars
<1>3. CASE WalletRefuses
  BY <1>3, ShareStutters DEF WalletRefuses, poolsVars
<1>4. CASE WalletAnswersLate
  BY <1>4, ShareStutters DEF WalletAnswersLate, LiquiditySignedLate, poolsVars
<1>5. CASE QuoteArrives \/ ClickWalletButton \/ OpenSelector
  BY <1>5, ShareStutters DEF QuoteArrives, ClickWalletButton, OpenSelector, poolsVars
<1>6. CASE PoolsArrive
  <2>1. CASE PoolsLoaded
    <3>1. PICK load \in loads :
             \E v \in load..version : pools' \in Listings(v) /\ form' = form
      BY <2>1 DEF PoolsLoaded
    <3>2. PICK v \in load..version : pools' \in Listings(v) /\ form' = form
      BY <3>1
    <3>3. v \in Versions
      <4>1. load = asked /\ asked \in 1..version /\ version \in 1..Len(Rows)
        BY LiquidityAssumption DEF ListingInv, Versions
      <4>2. QED BY <3>2, <4>1, LiquidityAssumption DEF Versions
    <3>4. QED BY <3>2, <3>3 DEF ShareInv, Versions, Listings
  <2>2. CASE LoadFailed
    <3>1. pools' \in {NoListing, NotAList} /\ UNCHANGED form
      BY <2>2 DEF LoadFailed
    <3>2. QED BY <3>1 DEF ShareInv, NoListing, NotAList
  <2>3. QED BY <1>6, <2>1, <2>2 DEF PoolsArrive
<1>7. CASE IndexerWrites
  BY <1>7, ShareStutters DEF IndexerWrites, RowsChange
<1>8. CASE OnDialog
  BY <1>8, ShareStutters DEF OnDialog, poolsVars
<1>9. CASE AskForReview
  BY <1>9, ShareStutters
     DEF AskForReview, ExecuteSwap, PreviewAddLiquidity, PreviewRemoveLiquidity, ReviewPool,
         poolsVars
<1>10. CASE Edit
  <2>1. CASE UNCHANGED poolsVars
    BY <2>1, ShareStutters DEF poolsVars
  <2>2. CASE OnAmountAChange \/ OnAmountBChange \/ SetPercentage
    <3>1. UNCHANGED pools
      BY <2>2 DEF OnAmountAChange, OnAmountBChange, SetPercentage, Fill
    <3>2. form' \in [amountA : Nat, amountB : Nat, percentage : Nat]
      <4> DEFINE Forms == [amountA : Nat, amountB : Nat, percentage : Nat]
      <4>1. form \in Forms
        BY DEF ShareInv
      <4>2. /\ FirstAmounts \subseteq Nat /\ SecondAmounts \subseteq Nat
            /\ Percentages \subseteq Nat
        BY LiquidityAssumption
      <4>3. CASE OnAmountAChange
        <5>1. PICK n \in FirstAmounts : form' = [form EXCEPT !.amountA = n]
          BY <4>3 DEF OnAmountAChange, Fill
        <5>2. QED BY <4>1, <4>2, <5>1
      <4>4. CASE OnAmountBChange
        <5>1. PICK n \in SecondAmounts : form' = [form EXCEPT !.amountB = n]
          BY <4>4 DEF OnAmountBChange, Fill
        <5>2. QED BY <4>1, <4>2, <5>1
      <4>5. CASE SetPercentage
        <5>1. PICK n \in Percentages : form' = [form EXCEPT !.percentage = n]
          BY <4>5 DEF SetPercentage, Fill
        <5>2. QED BY <4>1, <4>2, <5>1
      <4>6. QED BY <2>2, <4>3, <4>4, <4>5
    <3>3. QED BY <3>1, <3>2 DEF ShareInv, Versions, Listings, NoListing, NotAList
  <2>3. QED BY <1>10, <2>1, <2>2 DEF Edit
<1>11. CASE Navigate
  <2>1. UNCHANGED pools /\ form' = EmptyForm
    BY <1>11 DEF Navigate, OpenPoolsPage, OpenOtherPage
  <2>2. QED BY <2>1 DEF ShareInv, EmptyForm, Versions, Listings, NoListing, NotAList
<1>12. CASE UNCHANGED vars
  BY <1>12, ShareStutters DEF vars, poolsVars
<1>13. QED
  BY <1>1, <1>2, <1>3, <1>4, <1>5, <1>6, <1>7, <1>8, <1>9, <1>10, <1>11, <1>12 DEF Next

\* Rounding down keeps the order of two fractions.
LEMMA SmallerRoundsLower ==
    ASSUME NEW a \in Nat, NEW b \in Nat, NEW r \in Nat \ {0}, NEW t \in Nat \ {0},
           NEW s \in Nat, a * t <= b * r
    PROVE  (a * s) \div r <= (b * s) \div t
<1> DEFINE m == (a * s) \div r
           n == (b * s) \div t
<1>1. a * s \in Nat /\ b * s \in Nat
  OBVIOUS
<1>2. m \in Nat /\ m * r <= a * s /\ n \in Nat /\ b * s < n * t + t
  BY <1>1, Rounded
<1> HIDE DEF m, n
<1>3. (m * r) * t <= (a * s) * t
  BY <1>1, <1>2, ProductsCompare
<1>4. (a * t) * s <= (b * r) * s
  <2>1. a * t \in Nat /\ b * r \in Nat
    OBVIOUS
  <2>2. QED BY <2>1, ProductsCompare
<1>5. ((b * s) + 1) * r <= (n * t + t) * r
  <2>1. n * t + t \in Nat /\ b * s + 1 <= n * t + t
    BY <1>1, <1>2
  <2>2. QED BY <1>1, <2>1, ProductsCompare
<1>6. /\ (m * r) * t = (m * t) * r /\ (a * s) * t = (a * t) * s
      /\ (b * r) * s = (b * s) * r /\ ((b * s) + 1) * r = (b * s) * r + r
      /\ (n * t + t) * r = ((n + 1) * t) * r
  BY <1>2
<1>7. /\ (m * t) * r \in Nat /\ (b * s) * r \in Nat /\ ((n + 1) * t) * r \in Nat
      /\ (a * t) * s \in Nat
  BY <1>1, <1>2
<1>8. (m * t) * r < ((n + 1) * t) * r
  BY <1>3, <1>4, <1>5, <1>6, <1>7
<1>9. SUFFICES ASSUME n + 1 <= m PROVE FALSE
  BY <1>2
<1>10. ((n + 1) * t) * r <= (m * t) * r
  <2>1. (n + 1) * t <= m * t
    BY <1>2, <1>9, ProductsCompare
  <2>2. (n + 1) * t \in Nat /\ m * t \in Nat
    BY <1>2
  <2>3. QED BY <2>1, <2>2, ProductsCompare
<1>11. QED BY <1>7, <1>8, <1>10

\* An amount over its reserve is the share that its quotient rounds down,
\* whatever supply the page has made up.
LEMMA MadeUpSupplyCancels ==
    ASSUME NEW x \in Nat, NEW r \in Nat \ {0}, NEW made \in Nat \ {0}, NEW supply \in Nat
    PROVE  LET minted == (x * supply) \div r
               den == made * r + x * made
           IN  /\ minted * den <= (x * made) * (supply + minted)
               /\ (minted + 1) * den > (x * made) * (supply + minted + 1)
<1> DEFINE minted == (x * supply) \div r
<1>1. x * supply \in Nat
  OBVIOUS
<1>2. minted \in Nat /\ minted * r <= x * supply /\ x * supply < minted * r + r
  BY <1>1, Rounded
<1> HIDE DEF minted
<1>3. minted * r \in Nat /\ minted * r + r \in Nat
  BY <1>2
<1>4. /\ minted * (made * r + x * made) = made * (minted * r) + (x * made) * minted
      /\ (x * made) * (supply + minted) = made * (x * supply) + (x * made) * minted
      /\ (minted + 1) * (made * r + x * made)
           = made * (minted * r + r) + (x * made) * (minted + 1)
      /\ (x * made) * (supply + minted + 1)
           = made * (x * supply) + (x * made) * (minted + 1)
  BY <1>2
<1>5. made * (minted * r) <= made * (x * supply)
  BY <1>1, <1>2, <1>3, ProductsCompare
<1>6. made * (x * supply) < made * (minted * r + r)
  <2>1. made * (x * supply + 1) <= made * (minted * r + r)
    BY <1>1, <1>2, <1>3, ProductsCompare
  <2>2. made * (x * supply + 1) = made * (x * supply) + made
    OBVIOUS
  <2>3. made * (x * supply) \in Nat /\ made * (minted * r + r) \in Nat
    BY <1>1, <1>3
  <2>4. QED BY <2>1, <2>2, <2>3
<1>7. /\ made * (minted * r) \in Nat /\ made * (x * supply) \in Nat
      /\ made * (minted * r + r) \in Nat /\ (x * made) * minted \in Nat
      /\ (x * made) * (minted + 1) \in Nat
  BY <1>1, <1>2, <1>3
<1>8. /\ minted * (made * r + x * made) <= (x * made) * (supply + minted)
      /\ (minted + 1) * (made * r + x * made) > (x * made) * (supply + minted + 1)
  BY <1>4, <1>5, <1>6, <1>7
<1>9. QED BY <1>8 DEF minted

\* shareOfPool of add-liquidity.component.ts: for any reserves, amounts and
\* supply, the share shown is that of the shares that add_liquidity mints.
THEOREM ScreensShareIsMinted == Spec => []ShareShownIsMinted
<1>1. ASSUME ShareInv PROVE ShareShownIsMinted
  <2>1. SUFFICES ASSUME Found, HasReserves, NEW supply \in Supplies
                 PROVE  LET minted == ProRataShares(form.amountA, form.amountB,
                                           Pool.reserve0, Pool.reserve1, supply)
                        IN  /\ minted * ShareOfPool.den
                                 <= ShareOfPool.num * (supply + minted)
                            /\ (minted + 1) * ShareOfPool.den
                                 > ShareOfPool.num * (supply + minted + 1)
    BY DEF ShareShownIsMinted
  <2> DEFINE a == form.amountA
             b == form.amountB
             r == Pool.reserve0
             t == Pool.reserve1
             made == Supply
             ofFirst == [num |-> a * made, den |-> r]
             ofSecond == [num |-> b * made, den |-> t]
  <2>2. a \in Nat /\ b \in Nat
    BY <1>1 DEF ShareInv
  <2>3. pools.version \in Versions /\ poolId \in DOMAIN Rows[pools.version]
    BY <1>1, <2>1 DEF ShareInv, Found, NoListing, NotAList, Listings
  <2>4. r \in Nat \ {0} /\ t \in Nat \ {0} /\ Pool.lpCount \in Nat
    BY <2>1, <2>3, LiquidityAssumption DEF Versions, Pool, HasReserves
  <2>5. made \in Nat \ {0} /\ supply \in Nat
    BY <2>4, LiquidityAssumption, ScreensAssumption DEF Supply
  <2>6. /\ LpTokensPreview = SmallerOf(ofFirst, ofSecond)
        /\ ShareOfPool = [num |-> LpTokensPreview.num,
                          den |-> made * LpTokensPreview.den + LpTokensPreview.num]
        /\ ProRataShares(a, b, r, t, supply) = Lesser((a * supply) \div r, (b * supply) \div t)
    BY DEF LpTokensPreview, ShareOfPool, ProRataShares
  <2> HIDE DEF a, b, r, t, made
  <2>7. (a * supply) \div r \in Nat /\ (b * supply) \div t \in Nat
    BY <2>2, <2>4, <2>5, Rounded
  <2>8. CASE (a * made) * t <= (b * made) * r
    <3>1. LpTokensPreview = [num |-> a * made, den |-> r]
      BY <2>6, <2>8 DEF SmallerOf
    <3>2. a * t <= b * r
      <4>1. /\ (a * made) * t = (a * t) * made /\ (b * made) * r = (b * r) * made
            /\ a * t \in Nat /\ b * r \in Nat
        BY <2>2, <2>4, <2>5
      <4>2. QED BY <2>5, <2>8, <4>1, Cancel
    <3>3. ProRataShares(a, b, r, t, supply) = (a * supply) \div r
      BY <2>2, <2>4, <2>5, <2>6, <2>7, <3>2, SmallerRoundsLower DEF Lesser
    <3>4. ShareOfPool.num = a * made /\ ShareOfPool.den = made * r + a * made
      BY <2>6, <3>1
    <3>5. QED BY <2>2, <2>4, <2>5, <3>3, <3>4, MadeUpSupplyCancels DEF a, b, r, t
  <2>9. CASE ~((a * made) * t <= (b * made) * r)
    <3>1. LpTokensPreview = [num |-> b * made, den |-> t]
      BY <2>6, <2>9 DEF SmallerOf
    <3>2. b * r <= a * t
      <4>1. /\ (a * made) * t = (a * t) * made /\ (b * made) * r = (b * r) * made
            /\ a * t \in Nat /\ b * r \in Nat
        BY <2>2, <2>4, <2>5
      <4>2. (b * r) * made \in Nat /\ (a * t) * made \in Nat
        BY <2>5, <4>1
      <4>3. (b * r) * made <= (a * t) * made
        BY <2>9, <4>1, <4>2
      <4>4. QED BY <2>5, <4>1, <4>3, Cancel
    <3>3. ProRataShares(a, b, r, t, supply) = (b * supply) \div t
      BY <2>2, <2>4, <2>5, <2>6, <2>7, <3>2, SmallerRoundsLower DEF Lesser
    <3>4. ShareOfPool.num = b * made /\ ShareOfPool.den = made * t + b * made
      BY <2>6, <3>1
    <3>5. QED BY <2>2, <2>4, <2>5, <3>3, <3>4, MadeUpSupplyCancels DEF a, b, r, t
  <2>10. QED BY <2>8, <2>9
<1>2. Init => ShareInv
  BY DEF Init, PoolsInit, ShareInv, EmptyForm
<1>3. ListingInv /\ ShareInv /\ [Next]_vars => ListingInv' /\ ShareInv'
  BY ListingStep, ShareStep
<1>4. Init => ListingInv
  BY ListingStart
<1>5. QED BY <1>1, <1>2, <1>3, <1>4, PTL DEF Spec
=============================================================================
