--------------------------- MODULE MarketRegistry ---------------------------
(***************************************************************************)
(* What a pool registry promises: a market, two tokens in no order and a   *)
(* fee tier, gets at most one pool, a pool serves at most one market, and  *)
(* neither is ever taken back.                                             *)
(***************************************************************************)
CONSTANTS
    MToken, MFeeTier, MPool     \* the tokens, fee tiers and pools there are

VARIABLE
    markets                     \* the markets with their pools

Market == [pair : SUBSET MToken, feeTier : MFeeTier, pool : MPool]

RegistryInit == markets = {}

\* A market without a pool gets one that serves no other market.
Open(m) ==
    /\ \A n \in markets : <<n.pair, n.feeTier>> # <<m.pair, m.feeTier>>
    /\ \A n \in markets : n.pool # m.pool
    /\ markets' = markets \cup {m}

RegistryNext == \E m \in Market : Open(m)

RegistrySpec == RegistryInit /\ [][RegistryNext]_markets
=============================================================================
