------------------------------ MODULE LpToken ------------------------------
(***************************************************************************)
(* contracts/lp-token: the share token of a pool.  Every call is atomic:   *)
(* the host rolls back a call that returns an error or traps, so an action *)
(* is a call that succeeds and its guard is what the code requires.        *)
(*                                                                         *)
(* The first parameter of an action is the address whose authorisation the *)
(* code demands (require_auth).  Sums are unchecked + and - in the source, *)
(* hence Wrap.                                                             *)
(***************************************************************************)
EXTENDS HostInteger, FiniteSets, Functions

CONSTANTS
    Address,          \* accounts and contracts that may hold or move shares
    NoAddress,        \* "key not set" for the admin and the minter
    Amounts           \* the i128 amounts callers pass

ASSUME AddressAssumption   == IsFiniteSet(Address)
ASSUME NoAddressAssumption == NoAddress \notin Address
ASSUME AmountsAssumption   == Amounts \subseteq I128

VARIABLES
    lpAdmin,          \* DataKey::Admin, set once by initialize
    lpMinter,         \* DataKey::Minter
    lpBalance,        \* DataKey::Balance(owner), 0 when absent
    lpAllowance,      \* DataKey::Allowance(owner, spender), 0 when absent
    lpSupply          \* DataKey::TotalSupply

lpVars == <<lpAdmin, lpMinter, lpBalance, lpAllowance, lpSupply>>

LpTypeOK ==
    /\ lpAdmin \in Address \cup {NoAddress}
    /\ lpMinter \in Address \cup {NoAddress}
    /\ lpBalance \in [Address -> I128]
    /\ lpAllowance \in [Address -> [Address -> I128]]
    /\ lpSupply \in I128

LpInit ==
    /\ lpAdmin = NoAddress
    /\ lpMinter = NoAddress
    /\ lpBalance = [a \in Address |-> 0]
    /\ lpAllowance = [o \in Address |-> [s \in Address |-> 0]]
    /\ lpSupply = 0

-----------------------------------------------------------------------------
Initialize(admin) ==
    /\ lpAdmin = NoAddress
    /\ lpAdmin' = admin
    /\ lpSupply' = 0
    /\ UNCHANGED <<lpMinter, lpBalance, lpAllowance>>

SetMinter(caller, minter) ==
    /\ lpAdmin # NoAddress            \* get_admin unwraps the key
    /\ caller = lpAdmin
    /\ lpMinter' = minter
    /\ UNCHANGED <<lpAdmin, lpBalance, lpAllowance, lpSupply>>

Mint(caller, to, amount) ==
    /\ amount > 0
    /\ lpMinter # NoAddress
    /\ caller = lpMinter
    /\ lpBalance' = [lpBalance EXCEPT ![to] = Wrap(@ + amount)]
    /\ lpSupply' = Wrap(lpSupply + amount)
    /\ UNCHANGED <<lpAdmin, lpMinter, lpAllowance>>

BurnOk(caller, from, amount) ==
    /\ amount > 0
    /\ lpMinter # NoAddress
    /\ caller = lpMinter
    /\ lpBalance[from] >= amount

Burn(caller, from, amount) ==
    /\ BurnOk(caller, from, amount)
    /\ lpBalance' = [lpBalance EXCEPT ![from] = @ - amount]
    /\ lpSupply' = Wrap(lpSupply - amount)
    /\ UNCHANGED <<lpAdmin, lpMinter, lpAllowance>>

\* Mutant: both balances are read before either is written.
MoveSharesReadFirst(from, to, amount) ==
    /\ lpBalance[from] >= amount
    /\ lpBalance' = [lpBalance EXCEPT ![from] = @ - amount,
                                     ![to]   = Wrap(lpBalance[to] + amount)]

\* The balance of "to" is read after that of "from" was written.
MoveShares(from, to, amount) ==
    /\ lpBalance[from] >= amount
    /\ lpBalance' = [[lpBalance EXCEPT ![from] = @ - amount]
                                EXCEPT ![to]   = Wrap(@ + amount)]

Transfer(from, to, amount) ==
    /\ amount > 0
    /\ MoveShares(from, to, amount)
    /\ UNCHANGED <<lpAdmin, lpMinter, lpAllowance, lpSupply>>

\* approve overwrites the allowance and takes any amount, negative ones too.
Approve(owner, spender, amount) ==
    /\ lpAllowance' = [lpAllowance EXCEPT ![owner][spender] = amount]
    /\ UNCHANGED <<lpAdmin, lpMinter, lpBalance, lpSupply>>

TransferFrom(spender, from, to, amount) ==
    /\ amount > 0
    /\ lpAllowance[from][spender] >= amount
    /\ lpAllowance' = [lpAllowance EXCEPT ![from][spender] = @ - amount]
    /\ MoveShares(from, to, amount)
    /\ UNCHANGED <<lpAdmin, lpMinter, lpSupply>>
=============================================================================
