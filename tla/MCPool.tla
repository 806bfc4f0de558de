------------------------------- MODULE MCPool -------------------------------
(***************************************************************************)
(* Small instances of ConstantProductPool for TLC.                         *)
(***************************************************************************)
EXTENDS ConstantProductPool

CONSTANTS u1, u2, PerUserA, PerUserB

MCEndowment == [u \in Users |-> [s \in Side |-> IF s = "a" THEN PerUserA ELSE PerUserB]]

\* One call past its deadline and one that just meets it.
MCLeadTimes == {-1, 0}
=============================================================================
