--------------------------- MODULE WalletSession ---------------------------
(***************************************************************************)
(* Connecting a wallet and signing in: core/services/wallet.service.ts,    *)
(* core/store/auth of the frontend, and modules/auth of the backend.       *)
(*                                                                         *)
(* Each click on Connect Wallet starts an attempt of its own.  It asks one *)
(* wallet after another, and nothing stops it: neither a disconnect nor    *)
(* the next attempt.  What follows in the effect (challenge, signature,    *)
(* verification) belongs to the last attempt only (switchMap).             *)
(***************************************************************************)
EXTENDS Integers, Sequences

CONSTANTS
    WalletTypes,     \* in the order they are asked: freighter, albedo, xbull
    MaxAttempts,     \* clicks on Connect Wallet; a bound of the model
    None

ASSUME WalletAssumption ==
    /\ WalletTypes \in Seq(STRING) /\ WalletTypes # <<>>
    /\ \A i \in DOMAIN WalletTypes : WalletTypes[i] # None
    /\ MaxAttempts \in Nat

Attempts == 1..MaxAttempts

VARIABLES
    wallet,          \* WalletService: the type of the connected wallet, or None
    isConnected,     \* the store: auth.isConnected
    jwtToken,        \* the store: auth.jwtToken; None for null, '' and undefined
    attempt,         \* where each attempt waits
    current,         \* the attempt the effect listens to
    overtaken        \* a disconnect came while a wallet was being asked

sessionVars == <<wallet, isConnected, jwtToken, attempt, current, overtaken>>

Unused == [at |-> "unused"]
Done == [at |-> "done"]

SessionInit ==
    /\ wallet = None
    /\ isConnected = FALSE
    /\ jwtToken = None
    /\ attempt = [a \in Attempts |-> Unused]
    /\ current = None
    /\ overtaken = FALSE

Asking == {a \in Attempts : attempt[a].at = "asking"}

\* connectWallet: the store shows a connection before any wallet is asked.  An
\* attempt that the effect no longer listens to ends, unless it is asking.
ConnectWallet(a) ==
    /\ ~isConnected
    /\ attempt[a] = Unused /\ \A b \in 1..a - 1 : attempt[b] # Unused
    /\ isConnected' = TRUE
    /\ current' = a
    /\ attempt' = [b \in Attempts |->
                      IF b = a THEN [at |-> "asking", i |-> 1]
                      ELSE IF attempt[b] = Unused \/ b \in Asking THEN attempt[b]
                      ELSE Done]
    /\ UNCHANGED <<wallet, jwtToken, overtaken>>

\* Mutant: the effect that tells the service is missing.
ForgetStore ==
    /\ isConnected' = FALSE /\ jwtToken' = None
    /\ UNCHANGED wallet

\* The reducer and the effect of disconnectWallet.
Forget ==
    /\ isConnected' = FALSE /\ jwtToken' = None
    /\ wallet' = None

DisconnectWallet ==
    /\ isConnected
    /\ Forget
    /\ overtaken' = (overtaken \/ Asking # {})
    /\ UNCHANGED <<attempt, current>>

\* The service remembers the wallet that answered, whoever still listens.
WalletAnswers(a) ==
    /\ a \in Asking
    /\ wallet' = WalletTypes[attempt[a].i]
    /\ attempt' = [attempt EXCEPT ![a] =
                      IF a = current THEN [at |-> "challenge", type |-> WalletTypes[@.i]] ELSE Done]
    /\ UNCHANGED <<isConnected, jwtToken, current, overtaken>>

\* Mutant: nobody tells the store that no wallet is left.
WalletDeclinesSilently(a) ==
    /\ a \in Asking
    /\ attempt' = [attempt EXCEPT ![a] =
                      IF @.i < Len(WalletTypes) THEN [@ EXCEPT !.i = @ + 1] ELSE Done]
    /\ UNCHANGED <<wallet, isConnected, jwtToken, current, overtaken>>

\* A wallet is not there or declines: the next is asked.  If none is left the
\* effect disconnects.
WalletDeclines(a) ==
    /\ a \in Asking
    /\ IF attempt[a].i < Len(WalletTypes)
       THEN /\ attempt' = [attempt EXCEPT ![a].i = @ + 1]
            /\ UNCHANGED <<wallet, isConnected, jwtToken>>
       ELSE /\ attempt' = [attempt EXCEPT ![a] = Done]
            /\ IF a = current THEN Forget ELSE UNCHANGED <<wallet, isConnected, jwtToken>>
    /\ UNCHANGED <<current, overtaken>>

\* setJwt with what cannot be used as a token.
NoJwt(a) ==
    /\ jwtToken' = None
    /\ attempt' = [attempt EXCEPT ![a] = Done]
    /\ UNCHANGED <<wallet, isConnected, current, overtaken>>

\* signTransaction asks the wallet of the moment.
ChallengeAnswered(a) ==
    /\ attempt[a].at = "challenge"
    /\ IF wallet = None THEN NoJwt(a)
       ELSE /\ attempt' = [attempt EXCEPT ![a] =
                              [at |-> "signing", type |-> @.type, signer |-> wallet]]
            /\ UNCHANGED <<wallet, isConnected, jwtToken, current, overtaken>>

NonceSigned(a) ==
    /\ attempt[a].at = "signing"
    /\ attempt' = [attempt EXCEPT ![a].at = "verifying"]
    /\ UNCHANGED <<wallet, isConnected, jwtToken, current, overtaken>>

\* AuthService.verifySignature: a token for a signature of the message by the
\* key of the wallet.
VerifySignature(type, signer, message) ==
    IF message = None \/ type # signer THEN None ELSE type

\* The request for verification leaves the message out.
Verified(a) ==
    /\ attempt[a].at = "verifying"
    /\ jwtToken' = VerifySignature(attempt[a].type, attempt[a].signer, None)
    /\ attempt' = [attempt EXCEPT ![a] = Done]
    /\ UNCHANGED <<wallet, isConnected, current, overtaken>>

\* A request fails, or the wallet refuses to sign.
SignInFails(a) ==
    /\ attempt[a].at \in {"challenge", "signing", "verifying"}
    /\ NoJwt(a)

\* Whatever an attempt waits for arrives.
AttemptGoesOn(a) ==
    \/ WalletAnswers(a) \/ WalletDeclines(a)
    \/ ChallengeAnswered(a) \/ NonceSigned(a) \/ Verified(a) \/ SignInFails(a)

\* The button of the header.
WalletButton == DisconnectWallet \/ \E a \in Attempts : ConnectWallet(a)

-----------------------------------------------------------------------------
\* Unless a disconnect came while a wallet was being asked, the service has a
\* wallet only if the store shows a connection, it has the wallet that answered
\* the last attempt, and a nonce is signed by the wallet it was asked for.
SessionsAgree ==
    ~overtaken =>
        /\ wallet # None => isConnected
        /\ isConnected /\ Asking = {} => wallet # None
        /\ \A a \in Attempts :
              attempt[a].at \in {"signing", "verifying"} => attempt[a].signer = attempt[a].type
=============================================================================
