----------------------------- MODULE MCIndexer -----------------------------
(***************************************************************************)
(* Small instances of Indexer for TLC.                                     *)
(***************************************************************************)
EXTENDS Indexer

CONSTANTS p1, p2

\* Ledger 2 has two events and each later one has one.
MCLedgerOf == [e \in Event |-> IF e <= 2 THEN 2 ELSE e]
=============================================================================
