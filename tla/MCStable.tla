------------------------------ MODULE MCStable ------------------------------
(***************************************************************************)
(* Small instances of StableSwapPool for TLC.                              *)
(***************************************************************************)
EXTENDS StableSwapPool, TLC

CONSTANTS u1, u2

\* Users differ in nothing but their name.
UserSymmetry == Permutations(Users)

\* README.md:2139: "StableSwap D invariant never decreases after a swap".  Two
\* units more of each coin leave what rounding takes out of account.
NeverLowersD ==
    [][lpSupply' = lpSupply /\ balance' # balance
           => ComputeD(balance[0] + 2, balance[1] + 2, CurrentA)' >= D(0)]_stableVars
=============================================================================
