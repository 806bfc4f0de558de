--------------------------- MODULE StableSwapPool ---------------------------
(***************************************************************************)
(* contracts/stableswap-pool with two coins, which is what its storage has *)
(* keys for, composed with the ramp of its coefficient (Amplification) and *)
(* the two token contracts.  An action is a call that succeeds, with every *)
(* transfer it makes.  Of the calls with a user as first parameter the     *)
(* code demands that user's authorisation.                                 *)
(*                                                                         *)
(* The pool keeps its own shares and its own record of the balances; it    *)
(* never asks the token contracts what it holds.                           *)
(***************************************************************************)
EXTENDS StableSwapMath, Amplification, TokenTransfer, Functions, FiniteSets

CONSTANTS
    Users,            \* accounts
    Pool,             \* the pool contract's own address
    Endowment,        \* what a user has of each coin at first
    Fees,             \* the fees initialize is called with, of FeeDenominator
    FeeDenominator,   \* 10_000
    DepositAmounts,   \* the amounts of a coin callers deposit
    ShareAmounts,     \* the shares callers withdraw
    TradeAmounts,     \* the amounts callers exchange
    MaxSupply,        \* bound on the supply of shares
    Minimums,         \* the minimums callers pass
    LeadTimes         \* deadline minus the time of the call

Coin == {0, 1}

ASSUME StablePoolAssumption ==
    /\ Pool \notin Users
    /\ Endowment \in Nat
    /\ FeeDenominator \in Nat \ {0}
    /\ Fees \subseteq Nat
    /\ IsFiniteSet(Users)
    /\ DepositAmounts \subseteq Int /\ TradeAmounts \subseteq Int
    /\ ShareAmounts \subseteq -(I128Max + 1)..I128Max
    /\ Minimums \subseteq Int
    /\ MaxSupply \in Nat

\* All there is of a coin.
Issued == Cardinality(Users) * Endowment

\* A fee on all of it is inside i128.
ASSUME TokensAssumption == (Issued + 1) * FeeDenominator <= I128Max

VARIABLES
    fee,              \* key Fee
    balance,          \* keys Bl0 and Bl1, the recorded balances
    lpSupply,         \* key LpS
    lpBalance,        \* keys (Lp, owner)
    held              \* held[c][h]: balance of h in the token of coin c

stableVars == <<fee, balance, lpSupply, lpBalance, held, ampVars>>

StableInit ==
    /\ AmpInit
    /\ fee = 0
    /\ balance = [c \in Coin |-> 0]
    /\ lpSupply = 0
    /\ lpBalance = [u \in Users |-> 0]
    /\ held = [c \in Coin |-> [h \in Users \cup {Pool} |->
                  IF h = Pool THEN 0 ELSE Endowment]]

\* The D of the recorded balances, with coin i in the first place: rounding
\* does not treat the two places alike.
D(i) == ComputeD(balance[i], balance[1 - i], CurrentA)

\* The shares of the accounts once one has got n more, or n fewer.
SharesAfter(owner, n) == [lpBalance EXCEPT ![owner] = Wrap(@ + n)]

-----------------------------------------------------------------------------
InitializeStable(newFee, a) ==
    /\ newFee <= FeeDenominator
    /\ SetInitialA(a)
    /\ fee' = newFee
    /\ UNCHANGED <<balance, lpSupply, lpBalance, held>>

\* The shares for a deposit that takes D from d0 to d1: the first number D,
\* later ones are in proportion to its growth.
MintedShares(d0, d1) ==
    IF lpSupply = 0 THEN d1
    ELSE RustQuotient(WrapProduct(Wrap(d1 - d0) * lpSupply), d0)

\* Mutant: the amount of coin 0 is recorded for both.
RecordedFirst(amounts) == [c \in Coin |-> Wrap(balance[c] + amounts[0])]

\* The balances recorded once the amounts are in.
Recorded(amounts) == [c \in Coin |-> Wrap(balance[c] + amounts[c])]

AddLiquidity(provider, amounts, minMint, deadline) ==
    LET after == Recorded(amounts) IN
    /\ initialized                    \* get_token unwraps the key
    /\ now <= deadline
    /\ \A c \in Coin : TransferOk(held[c], provider, amounts[c])
    /\ lpSupply # 0 => D(0) # 0          \* the division would trap
    /\ \E mint \in {MintedShares(D(0), ComputeD(after[0], after[1], CurrentA))} :
          /\ mint >= minMint
          /\ lpSupply + mint <= MaxSupply
          /\ lpSupply' = Wrap(lpSupply + mint)
          /\ lpBalance' = SharesAfter(provider, mint)
    /\ held' = [c \in Coin |-> Moved(held[c], provider, Pool, amounts[c])]
    /\ balance' = after
    /\ UNCHANGED <<fee, ampVars>>

\* Mutant: the shares are taken off a supply that they have left already.
RemainingDTwice(shares) ==
    RustQuotient(WrapProduct(D(0) * Wrap(lpSupply - 2 * shares)), lpSupply)

\* D in proportion to the shares that stay.
RemainingD(shares) ==
    RustQuotient(WrapProduct(D(0) * Wrap(lpSupply - shares)), lpSupply)

\* The coin that leaves is what brings D down to that, less one unit.
RemoveLiquidityOneCoin(provider, shares, coin, minAmount) ==
    /\ lpBalance[provider] >= shares
    /\ lpSupply # 0                   \* the division would trap
    /\ ComputeYOk(CurrentA)
    /\ \E y \in {ComputeY(balance[1 - coin], CurrentA, RemainingD(shares))} :
          LET dy == Wrap(balance[coin] - y - 1) IN
          /\ dy >= minAmount
          /\ TransferOk(held[coin], Pool, dy)
          /\ held' = [held EXCEPT ![coin] = Moved(@, Pool, provider, dy)]
          /\ balance' = [balance EXCEPT ![coin] = y]
    /\ lpSupply' = Wrap(lpSupply - shares)
    /\ lpBalance' = SharesAfter(provider, -shares)
    /\ UNCHANGED <<fee, ampVars>>

\* The balance that the new balance of coin j is computed from.
OtherBalance(i, dx) == ComputedFrom(i, balance[i], balance[1 - i], dx)

\* What is paid of the amount the curve gives.
Paid(gross) ==
    Wrap(gross - RustQuotient(WrapProduct(gross * fee), FeeDenominator))

Exchange(caller, i, dx, minDy, recipient) ==
    LET j == 1 - i IN
    /\ initialized                    \* get_token unwraps the key
    /\ dx > 0
    /\ ComputeYOk(CurrentA)
    /\ TransferOk(held[i], caller, dx)
    /\ \E newY \in {ComputeY(OtherBalance(i, dx), CurrentA, D(i))} :
          LET dy == Paid(Wrap(balance[j] - newY - 1)) IN
          /\ dy >= minDy
          /\ TransferOk(held[j], Pool, dy)
          /\ held' = [held EXCEPT ![i] = Moved(@, caller, Pool, dx),
                                  ![j] = Moved(@, Pool, recipient, dy)]
          /\ balance' = [balance EXCEPT ![i] = Wrap(@ + dx), ![j] = newY]
    /\ UNCHANGED <<fee, lpSupply, lpBalance, ampVars>>

RampStable(a, t) ==
    /\ RampA(a, t)
    /\ UNCHANGED <<fee, balance, lpSupply, lpBalance, held>>

TickStable ==
    /\ TimePasses
    /\ UNCHANGED <<fee, balance, lpSupply, lpBalance, held>>

StableNext ==
    \/ \E f \in Fees, a \in Coefficients : InitializeStable(f, a)
    \/ \E u \in Users, a \in [Coin -> DepositAmounts], m \in Minimums, t \in LeadTimes :
          AddLiquidity(u, a, m, now + t)
    \/ \E u \in Users, n \in ShareAmounts, c \in Coin, m \in Minimums :
          RemoveLiquidityOneCoin(u, n, c, m)
    \/ \E u \in Users, i \in Coin, n \in TradeAmounts, m \in Minimums,
          r \in Users \cup {Pool} : Exchange(u, i, n, m, r)
    \/ \E a \in Coefficients, t \in 0..MaxTime : RampStable(a, t)
    \/ TickStable

StableSpec == StableInit /\ [][StableNext]_stableVars
-----------------------------------------------------------------------------
\* The pool holds what it has recorded, whatever the iterations return and the
\* divisions round off, unless it was set up to keep all of an output as fee:
\* then an exchange may raise the record of the coin it does not pay out.
StableSolvent ==
    fee < FeeDenominator => \A c \in Coin : balance[c] <= held[c][Pool]

\* A withdrawal leaves the pool at most two units of its coin below the curve
\* that is in proportion to the shares that stay; with the same exception.  A
\* deposit, which lowers no balance, may take shares away (min_mint_amount may
\* be negative), and a supply that wraps around is in no proportion.
WithdrawalKeepsProportion ==
    [][fee < FeeDenominator /\ 0 <= lpSupply' /\ lpSupply' < lpSupply =>
          \A d \in 1..(balance[0] + balance[1]), c \in Coin :
              /\ balance'[c] < balance[c]
              /\ OnOrAbove(balance[0], balance[1], CurrentA, d)
              => OnOrAbove(balance'[c] + 2, balance[1 - c], CurrentA,
                           (d * lpSupply') \div lpSupply)]_stableVars
=============================================================================
