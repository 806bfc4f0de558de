------------------------------ MODULE MCScreens ------------------------------
(***************************************************************************)
(* Two wallets, two tokens, two pools for TLC.  The second pool is listed  *)
(* by the server from the second version of its rows on, when the first    *)
(* one has other reserves.                                                 *)
(***************************************************************************)
EXTENDS Screens

Row(a, b, providers) == [reserve0 |-> a, reserve1 |-> b, lpCount |-> providers]

MCRows ==
    << [p |-> Row(6, 4, 0)],
       [p |-> Row(7, 3, 2), empty |-> Row(0, 0, 0)] >>

MCWalletTypes == <<"freighter", "albedo">>

MCActivePools == { [token0 |-> "XLM", reserve0 |-> 90, reserve1 |-> 88, feeBps |-> 1] }
=============================================================================
