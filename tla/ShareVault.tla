---------------------------- MODULE ShareVault -----------------------------
(***************************************************************************)
(* What a liquidity pool promises the holders of its shares, whatever its  *)
(* pricing: two reserves, a supply of shares, and no step at their         *)
(* expense.  A deposit and a withdrawal keep, of each reserve, at least    *)
(* what a remaining share stood for; a trade keeps at least the product.   *)
(* README.md ("Invariants Formally Verified") states the two promises: the *)
(* product never falls, and the shares are always backed by the reserves.  *)
(***************************************************************************)
EXTENDS Integers

VARIABLES reserve, supply

vaultVars == <<reserve, supply>>

Sides == {"a", "b"}

Product(r) == r["a"] * r["b"]

VaultTypeOK ==
    /\ reserve \in [Sides -> Nat]
    /\ supply \in Nat

VaultInit ==
    /\ reserve = [s \in Sides |-> 0]
    /\ supply = 0

\* The first shares are worth at least one unit of the reserves' geometric mean.
FirstDeposit ==
    /\ supply = 0
    /\ supply' > 0
    /\ supply' * supply' <= Product(reserve')

\* Each reserve per share does not fall, whether shares are added or burned.
KeepsEachShare ==
    \A s \in Sides : reserve'[s] * supply >= reserve[s] * supply'

LaterDeposit ==
    /\ supply > 0
    /\ supply' > supply
    /\ KeepsEachShare

Withdrawal ==
    /\ supply' < supply
    /\ KeepsEachShare

Exchange ==
    /\ supply' = supply
    /\ Product(reserve') >= Product(reserve)

VaultNext ==
    /\ reserve' \in [Sides -> Nat]
    /\ supply' \in Nat
    /\ FirstDeposit \/ LaterDeposit \/ Withdrawal \/ Exchange

VaultSpec == VaultInit /\ [][VaultNext]_vaultVars

\* LP shares are always backed: the supply is at most the geometric mean of
\* the reserves (README.md:2137; add_liquidity, remove_liquidity, the swaps).
SharesBacked == supply * supply <= Product(reserve)
=============================================================================
