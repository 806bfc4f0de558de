----------------------------- MODULE MCFactory -----------------------------
(***************************************************************************)
(* A small instance of PoolFactory for TLC.                                *)
(***************************************************************************)
EXTENDS PoolFactory, TLC

CONSTANTS c1, c2, f1, f2

\* Callers and fee tiers differ in nothing but their name; tokens are ordered.
FactorySymmetry == Permutations(Account) \cup Permutations(FeeTier)
=============================================================================
