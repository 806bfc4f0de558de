--------------------------- MODULE TokenTransfer ---------------------------
(***************************************************************************)
(* The token contracts (SEP-41) that the pools call, external to the       *)
(* repository: a transfer needs a non-negative amount that the sender      *)
(* holds.  A balance is a function from addresses to amounts.              *)
(***************************************************************************)
EXTENDS Integers

TransferOk(balance, from, amount) == amount >= 0 /\ balance[from] >= amount

Moved(balance, from, to, amount) ==
    [[balance EXCEPT ![from] = @ - amount] EXCEPT ![to] = @ + amount]
=============================================================================
