---------------------------- MODULE PoolFactory ----------------------------
(***************************************************************************)
(* contracts/pool-factory: the contract that deploys pools and keeps their *)
(* registry, with a client that pages through the list while others create *)
(* pools.  Every call is atomic: an action is a call that succeeds.  The   *)
(* first parameter of an action is the address whose authorisation the     *)
(* code demands.                                                           *)
(*                                                                         *)
(* The host derives the address of a deployed contract from the deployer   *)
(* and the salt.  The factory deploys nothing but pools, so that the salt  *)
(* stands for the address.                                                 *)
(***************************************************************************)
EXTENDS Integers, Sequences

CONSTANTS
    Account,          \* who may call, administer or receive fees
    NoAccount,        \* "key not set"
    Token,            \* token addresses, ordered as the host orders them
    FeeTier,          \* the u32 fee tiers callers ask for
    NoPool,           \* "no entry in the registry"
    CountModulus,     \* 2^32, the values of the u32 pool counter
    MaxTime,          \* bound on the ledger timestamp
    PageSize          \* the limit the paging client asks for

ASSUME TokenAssumption        == Token \subseteq Nat
ASSUME NoAccountAssumption    == NoAccount \notin Account
ASSUME CountModulusAssumption == CountModulus \in Nat \ {0}
ASSUME NoPoolAssumption       == NoPool \notin 0..CountModulus - 1
ASSUME PageSizeAssumption     == PageSize \in Nat \ {0}
ASSUME MaxTimeAssumption      == MaxTime \in Nat

Pool     == 0..CountModulus - 1
PoolType == {"ConstantProduct", "StableSwap", "Concentrated"}
PoolInfo == [contract : Pool, pool_type : PoolType,
             token_a : Token, token_b : Token, fee_tier : FeeTier]

VARIABLES
    initialized,      \* INIT, set with the three wasm hashes
    admin,            \* ADMIN
    feeRecipient,     \* FEE_RCP
    registry,         \* POOL_REG
    allPools,         \* ALL_POOL
    poolCount,        \* POOL_CNT
    owners,           \* POOL_OWN
    deployed,         \* the pool addresses the host has contracts at
    seen,             \* what the paging client has been given so far
    now               \* the ledger timestamp

config   == <<initialized, admin, feeRecipient>>
records  == <<registry, allPools, poolCount, owners, deployed>>
factoryVars == <<config, records, seen, now>>

FactoryTypeOK ==
    /\ initialized \in BOOLEAN
    /\ admin \in Account \cup {NoAccount}
    /\ feeRecipient \in Account \cup {NoAccount}
    /\ registry \in [Token \X Token \X FeeTier -> Pool \cup {NoPool}]
    /\ allPools \in Seq(PoolInfo)
    /\ poolCount \in Pool
    /\ owners \in [Pool -> Account \cup {NoAccount}]
    /\ deployed \subseteq Pool
    /\ seen \in Seq(PoolInfo)
    /\ now \in 0..MaxTime

FactoryInit ==
    /\ initialized = FALSE
    /\ admin = NoAccount
    /\ feeRecipient = NoAccount
    /\ registry = [k \in Token \X Token \X FeeTier |-> NoPool]
    /\ allPools = <<>>
    /\ poolCount = 0
    /\ owners = [p \in Pool |-> NoAccount]
    /\ deployed = {}
    /\ seen = <<>>
    /\ now = 0

-----------------------------------------------------------------------------
\* Calls after the deadline they carry are refused.
InTime(deadline) == now <= deadline

InitializeFactory(newAdmin, recipient) ==
    /\ ~initialized
    /\ initialized' = TRUE
    /\ admin' = newAdmin
    /\ feeRecipient' = recipient
    /\ UNCHANGED <<records, seen, now>>

SetFeeRecipient(caller, recipient, deadline) ==
    /\ InTime(deadline)
    /\ initialized                    \* get_admin unwraps the key
    /\ caller = admin
    /\ feeRecipient' = recipient
    /\ UNCHANGED <<initialized, admin, records, seen, now>>

SortTokens(a, b) == IF a < b THEN <<a, b>> ELSE <<b, a>>

\* Mutant: only the order asked for is looked up.
GetPoolAsAsked(a, b, feeTier) == registry[<<a, b, feeTier>>]

\* The registry is asked for the pair in the order given, then in the other.
GetPool(a, b, feeTier) ==
    IF registry[<<a, b, feeTier>>] # NoPool THEN registry[<<a, b, feeTier>>]
                                            ELSE registry[<<b, a, feeTier>>]

\* The host deploys the stored wasm at the address the salt gives, unless a
\* contract is there.  The salt is the pool count.
Deploy(pool) ==
    /\ initialized                    \* get_*_wasm_hash unwraps the key
    /\ pool = poolCount
    /\ pool \notin deployed
    /\ deployed' = deployed \cup {pool}

\* The count is a u32 that wraps: count + 1 is unchecked.
NextCount == (poolCount + 1) % CountModulus

\* Mutant: the newest pool comes first in the list.
ListedFirst(info) == <<info>> \o allPools

Listed(info) == Append(allPools, info)

RegisterPool(pool, poolType, pair, feeTier, deployer) ==
    /\ registry' = [registry EXCEPT ![<<pair[1], pair[2], feeTier>>] = pool]
    /\ owners' = [owners EXCEPT ![pool] = deployer]
    /\ allPools' = Listed([contract |-> pool, pool_type |-> poolType,
           token_a |-> pair[1], token_b |-> pair[2], fee_tier |-> feeTier])
    /\ poolCount' = NextCount

\* Mutant: a market that has a pool gets another.
CreateAnother(poolType, caller, a, b, feeTier, deadline) ==
    /\ InTime(deadline)
    /\ \E pool \in Pool :
          /\ Deploy(pool)
          /\ RegisterPool(pool, poolType, SortTokens(a, b), feeTier, caller)
    /\ UNCHANGED <<config, seen, now>>

\* The three create functions differ in the wasm they deploy and in the pool
\* type they record.  Nothing asks that the two tokens differ.
CreatePool(poolType, caller, a, b, feeTier, deadline) ==
    LET pair == SortTokens(a, b) IN
    /\ InTime(deadline)
    /\ GetPool(pair[1], pair[2], feeTier) = NoPool
    /\ \E pool \in Pool :
          /\ Deploy(pool)
          /\ RegisterPool(pool, poolType, pair, feeTier, caller)
    /\ UNCHANGED <<config, seen, now>>

CreateConstantProductPool(caller, a, b, feeTier, deadline) ==
    CreatePool("ConstantProduct", caller, a, b, feeTier, deadline)

\* The pool is registered under its first two tokens, whatever follows them.
CreateStablePool(caller, tokens, feeTier, deadline) ==
    /\ Len(tokens) >= 2
    /\ CreatePool("StableSwap", caller, tokens[1], tokens[2], feeTier, deadline)

CreateConcentratedPool(caller, a, b, feeTier, deadline) ==
    CreatePool("Concentrated", caller, a, b, feeTier, deadline)

Least(x, y) == IF x < y THEN x ELSE y

\* Pools offset .. offset + limit - 1, counted from 0, cut off at the end.
GetAllPools(offset, limit) ==
    LET start == Least(offset, Len(allPools))
    IN  SubSeq(allPools, start + 1, Least(start + limit, Len(allPools)))

\* The client asks for the page after what it has.
ReadPage ==
    /\ seen' = seen \o GetAllPools(Len(seen), PageSize)
    /\ UNCHANGED <<config, records, now>>

Tick ==
    /\ now < MaxTime
    /\ now' = now + 1
    /\ UNCHANGED <<config, records, seen>>

\* Token lists of the length the code asks for at least, and one more.
TokenLists == Token \X Token \cup Token \X Token \X Token

FactoryNext ==
    \/ \E a, r \in Account : InitializeFactory(a, r)
    \/ \E c, r \in Account, d \in 0..MaxTime : SetFeeRecipient(c, r, d)
    \/ \E c \in Account, a, b \in Token, f \in FeeTier, d \in 0..MaxTime :
          CreateConstantProductPool(c, a, b, f, d)
    \/ \E c \in Account, ts \in TokenLists, f \in FeeTier, d \in 0..MaxTime :
          CreateStablePool(c, ts, f, d)
    \/ \E c \in Account, a, b \in Token, f \in FeeTier, d \in 0..MaxTime :
          CreateConcentratedPool(c, a, b, f, d)
    \/ ReadPage
    \/ Tick

FactorySpec == FactoryInit /\ [][FactoryNext]_factoryVars

-----------------------------------------------------------------------------
KeyOf(info) == <<info.token_a, info.token_b, info.fee_tier>>

\* The list, the registry, the owners and the host agree: every pool is listed
\* once, the registry finds it under the tokens and the fee tier of its entry
\* in either order, it has an owner, and nothing else is registered or owned.
RecordsAgree ==
    /\ \A i, j \in 1..Len(allPools) :
          allPools[i].contract = allPools[j].contract => i = j
    /\ \A i \in 1..Len(allPools) :
          LET info == allPools[i] IN
          /\ GetPool(info.token_a, info.token_b, info.fee_tier) = info.contract
          /\ GetPool(info.token_b, info.token_a, info.fee_tier) = info.contract
    /\ \A k \in DOMAIN registry : registry[k] # NoPool =>
          \E i \in 1..Len(allPools) :
             allPools[i].contract = registry[k] /\ KeyOf(allPools[i]) = k
    /\ \A p \in Pool : owners[p] # NoAccount <=>
          \E i \in 1..Len(allPools) : allPools[i].contract = p
    /\ deployed = {allPools[i].contract : i \in 1..Len(allPools)}

\* As long as the u32 count has not wrapped, the address of the next pool is
\* free: no sequence of creations leaves the factory unable to deploy, which
\* the host would make of a salt that was used before.
NextAddressFree ==
    Len(allPools) < CountModulus => poolCount \notin deployed

\* A client that pages through get_all_pools while pools are created gets the
\* pools in the order of their creation, none twice and none left out.
PagesAreOrderly ==
    /\ Len(seen) <= Len(allPools)
    /\ seen = SubSeq(allPools, 1, Len(seen))

\* What the registry answers about the pairs, for the abstract registry.
OpenMarkets ==
    {[pair |-> {k[1], k[2]}, feeTier |-> k[3], pool |-> registry[k]] :
       k \in {l \in Token \X Token \X FeeTier : registry[l] # NoPool}}

Registry == INSTANCE MarketRegistry WITH
    MToken <- Token, MFeeTier <- FeeTier, MPool <- Pool, markets <- OpenMarkets

\* The factory is a market registry: two tokens and a fee tier get at most one
\* pool, of whatever type and whichever order they are given in, and it stays.
FactoryImplementsRegistry == Registry!RegistrySpec
=============================================================================
