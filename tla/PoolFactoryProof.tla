-------------------------- MODULE PoolFactoryProof --------------------------
(***************************************************************************)
(* The records of the factory agree, the address of the next pool is free  *)
(* until the count wraps, pages come in order, and the factory is a market *)
(* registry, for any accounts, tokens, fee tiers, width and page size.     *)
(***************************************************************************)
EXTENDS PoolFactory, SequenceTheorems, TLAPS

\* The i-th pool created is at the address its place in the list gives.
ListInv ==
    /\ Len(allPools) <= CountModulus
    /\ Len(allPools) < CountModulus => poolCount = Len(allPools)
    /\ \A i \in 1..Len(allPools) :
          /\ allPools[i].contract = i - 1
          /\ allPools[i].token_a <= allPools[i].token_b

\* The registry, the owners and the host tell of the pools in the list.
TablesInv ==
    /\ deployed = 0..Len(allPools) - 1
    /\ \A i \in 1..Len(allPools) : registry[KeyOf(allPools[i])] = i - 1
    /\ \A k \in Token \X Token \X FeeTier : registry[k] # NoPool =>
          /\ registry[k] \in 0..Len(allPools) - 1
          /\ KeyOf(allPools[registry[k] + 1]) = k
    /\ \A p \in Pool : owners[p] # NoAccount <=> p < Len(allPools)

FactoryInv == FactoryTypeOK /\ ListInv /\ TablesInv /\ PagesAreOrderly

-----------------------------------------------------------------------------
\* The counter goes up by one or starts again at zero.
LEMMA CountStep ==
    ASSUME NEW c \in Pool
    PROVE  /\ (c + 1) % CountModulus \in Pool
           /\ c + 1 < CountModulus => (c + 1) % CountModulus = c + 1
BY CountModulusAssumption DEF Pool

\* The registry is keyed with the lower token first.
LEMMA SortedPair ==
    ASSUME NEW a \in Token, NEW b \in Token
    PROVE  /\ SortTokens(a, b) \in Token \X Token
           /\ SortTokens(a, b)[1] <= SortTokens(a, b)[2]
           /\ {SortTokens(a, b)[1], SortTokens(a, b)[2]} = {a, b}
BY TokenAssumption DEF SortTokens

\* What a creation of a pool of type t for the pair x <= y does.
Recorded(t, c, f, x, y) ==
    LET n == Len(allPools)
        info == [contract |-> n, pool_type |-> t, token_a |-> x, token_b |-> y,
                 fee_tier |-> f]
    IN  /\ x <= y /\ n \in Pool /\ info \in PoolInfo
        /\ registry[<<x, y, f>>] = NoPool /\ registry[<<y, x, f>>] = NoPool
        /\ registry' = [registry EXCEPT ![<<x, y, f>>] = n]
        /\ owners' = [owners EXCEPT ![n] = c]
        /\ allPools' = Append(allPools, info)
        /\ deployed' = deployed \cup {n}
        /\ poolCount' \in Pool
        /\ n + 1 < CountModulus => poolCount' = n + 1
        /\ UNCHANGED <<config, seen, now>>

\* Every create call that succeeds records the pool under its sorted pair.
LEMMA CreationEffect ==
    ASSUME FactoryInv, NEW t \in PoolType, NEW c \in Account, NEW a \in Token,
           NEW b \in Token, NEW f \in FeeTier, NEW d,
           CreatePool(t, c, a, b, f, d)
    PROVE  \E x, y \in Token : {x, y} = {a, b} /\ Recorded(t, c, f, x, y)
<1> DEFINE x == SortTokens(a, b)[1]
           y == SortTokens(a, b)[2]
           n == Len(allPools)
<1>1. x \in Token /\ y \in Token /\ x <= y /\ {x, y} = {a, b}
  BY SortedPair
<1>2. PICK pool \in Pool :
         Deploy(pool) /\ RegisterPool(pool, t, SortTokens(a, b), f, c)
  BY DEF CreatePool
<1>3. n \in Nat /\ deployed = 0..n - 1 /\ n <= CountModulus
  BY DEF FactoryInv, FactoryTypeOK, ListInv, TablesInv
<1>4. n < CountModulus
  BY <1>2, <1>3, CountModulusAssumption DEF Deploy, Pool
<1>5. pool = n
  BY <1>2, <1>4 DEF Deploy, FactoryInv, ListInv
<1>6. GetPool(x, y, f) = NoPool
  BY DEF CreatePool
<1>7. registry[<<x, y, f>>] = NoPool /\ registry[<<y, x, f>>] = NoPool
  BY <1>6 DEF GetPool
<1>8. NextCount \in Pool /\ (n + 1 < CountModulus => NextCount = n + 1)
  BY <1>2, <1>5, CountStep DEF Deploy, NextCount
<1>9. [contract |-> n, pool_type |-> t, token_a |-> x, token_b |-> y,
       fee_tier |-> f] \in PoolInfo
  BY <1>1, <1>2, <1>5 DEF PoolInfo
<1>10. UNCHANGED <<config, seen, now>>
  BY DEF CreatePool
<1>11. QED
  BY <1>1, <1>2, <1>5, <1>7, <1>8, <1>9, <1>10
  DEF Recorded, Deploy, RegisterPool, Listed

\* A creation keeps the types.
LEMMA CreationTyped ==
    ASSUME FactoryInv, NEW t \in PoolType, NEW c \in Account, NEW a \in Token,
           NEW b \in Token, NEW f \in FeeTier, NEW d,
           CreatePool(t, c, a, b, f, d)
    PROVE  FactoryTypeOK'
<1>1. PICK x, y \in Token : Recorded(t, c, f, x, y)
  BY CreationEffect
<1>2. FactoryTypeOK
  BY DEF FactoryInv
<1>3. allPools' \in Seq(PoolInfo)
  BY <1>1, <1>2 DEF Recorded, FactoryTypeOK
<1>4. registry' \in [Token \X Token \X FeeTier -> Pool \cup {NoPool}]
  BY <1>1, <1>2 DEF Recorded, FactoryTypeOK
<1>5. owners' \in [Pool -> Account \cup {NoAccount}]
  BY <1>1, <1>2 DEF Recorded, FactoryTypeOK
<1>6. deployed' \subseteq Pool /\ poolCount' \in Pool
  BY <1>1, <1>2 DEF Recorded, FactoryTypeOK
<1>7. UNCHANGED <<config, seen, now>>
  BY <1>1 DEF Recorded
<1>8. QED
  BY <1>2, <1>3, <1>4, <1>5, <1>6, <1>7 DEF FactoryTypeOK, config

\* A creation keeps list, tables and pages in step.
LEMMA CreationInv ==
    ASSUME FactoryInv, NEW t \in PoolType, NEW c \in Account, NEW a \in Token,
           NEW b \in Token, NEW f \in FeeTier, NEW d,
           CreatePool(t, c, a, b, f, d)
    PROVE  ListInv' /\ TablesInv' /\ PagesAreOrderly'
<1>0. PICK x, y \in Token : Recorded(t, c, f, x, y)
  BY CreationEffect
<1> DEFINE n == Len(allPools)
<1> DEFINE info == [contract |-> n, pool_type |-> t, token_a |-> x,
                    token_b |-> y, fee_tier |-> f]
<1>1. /\ x <= y
      /\ n \in Pool /\ info \in PoolInfo
      /\ registry[<<x, y, f>>] = NoPool
      /\ registry' = [registry EXCEPT ![<<x, y, f>>] = n]
      /\ owners' = [owners EXCEPT ![n] = c]
      /\ allPools' = Append(allPools, info)
      /\ deployed' = deployed \cup {n}
      /\ n + 1 < CountModulus => poolCount' = n + 1
      /\ UNCHANGED <<config, seen, now>>
  BY <1>0 DEF Recorded
<1>2. /\ allPools \in Seq(PoolInfo) /\ n \in Nat /\ n < CountModulus
      /\ registry \in [Token \X Token \X FeeTier -> Pool \cup {NoPool}]
      /\ owners \in [Pool -> Account \cup {NoAccount}]
      /\ seen \in Seq(PoolInfo)
  BY <1>1, CountModulusAssumption DEF FactoryInv, FactoryTypeOK, Pool
<1>3. /\ Len(allPools') = n + 1
      /\ \A i \in 1..n : allPools'[i] = allPools[i]
      /\ allPools'[n + 1] = info
  BY <1>1, <1>2
<1>4. ListInv'
  BY <1>1, <1>2, <1>3, CountModulusAssumption DEF FactoryInv, ListInv
<1>5. deployed' = 0..Len(allPools') - 1
  BY <1>1, <1>2, <1>3 DEF FactoryInv, TablesInv
<1>6. ASSUME NEW i \in 1..Len(allPools')
      PROVE  registry'[KeyOf(allPools'[i])] = i - 1
  <2>1. CASE i = n + 1
    BY <1>1, <1>2, <1>3, <2>1 DEF KeyOf
  <2>2. CASE i \in 1..n
    <3>1. registry[KeyOf(allPools[i])] = i - 1
      BY <2>2 DEF FactoryInv, TablesInv
    <3>5. i - 1 \in 0..CountModulus - 1
      BY <1>2, <2>2, CountModulusAssumption
    <3>2. KeyOf(allPools[i]) # <<x, y, f>>
      BY <1>1, <3>1, <3>5, NoPoolAssumption
    <3>3. allPools[i] \in PoolInfo
      BY <1>2, <2>2
    <3>6. KeyOf(allPools[i]) \in Token \X Token \X FeeTier
      BY <3>3 DEF KeyOf, PoolInfo
    <3>4. QED BY <1>1, <1>2, <1>3, <2>2, <3>1, <3>2, <3>6
  <2>3. QED BY <1>2, <1>3, <2>1, <2>2
<1>7. ASSUME NEW k \in Token \X Token \X FeeTier, registry'[k] # NoPool
      PROVE  /\ registry'[k] \in 0..Len(allPools') - 1
             /\ KeyOf(allPools'[registry'[k] + 1]) = k
  <2>1. CASE k = <<x, y, f>>
    BY <1>1, <1>2, <1>3, <2>1 DEF KeyOf
  <2>2. CASE k # <<x, y, f>>
    <3>1. registry'[k] = registry[k]
      BY <1>1, <1>2, <2>2
    <3>2. registry[k] \in 0..n - 1 /\ KeyOf(allPools[registry[k] + 1]) = k
      BY <1>7, <3>1 DEF FactoryInv, TablesInv
    <3>3. registry[k] + 1 \in 1..n
      BY <1>2, <3>2
    <3>4. QED BY <1>2, <1>3, <3>1, <3>2, <3>3
  <2>3. QED BY <2>1, <2>2
<1>8. ASSUME NEW p \in Pool
      PROVE  owners'[p] # NoAccount <=> p < Len(allPools')
  <2>1. owners[p] # NoAccount <=> p < n
    BY DEF FactoryInv, TablesInv
  <2>2. p \in Nat
    BY CountModulusAssumption DEF Pool
  <2>3. QED BY <1>1, <1>2, <1>3, <2>1, <2>2, NoAccountAssumption
<1>9. TablesInv'
  BY <1>5, <1>6, <1>7, <1>8 DEF TablesInv
<1>10. PagesAreOrderly'
  <2>1. seen' = seen /\ Len(seen) <= n /\ seen = SubSeq(allPools, 1, Len(seen))
    BY <1>1 DEF FactoryInv, PagesAreOrderly
  <2>2. SubSeq(allPools', 1, Len(seen)) = SubSeq(allPools, 1, Len(seen))
    BY <1>1, <1>2, <2>1
  <2>3. QED BY <1>2, <1>3, <2>1, <2>2 DEF PagesAreOrderly
<1>11. QED BY <1>4, <1>9, <1>10

\* A page goes on where what the client has ends.
LEMMA PageInOrder ==
    ASSUME FactoryInv, ReadPage
    PROVE  seen' \in Seq(PoolInfo) /\ PagesAreOrderly'
<1> DEFINE s == Len(seen)
           n == Len(allPools)
           e == Least(s + PageSize, n)
<1>1. /\ allPools \in Seq(PoolInfo) /\ seen \in Seq(PoolInfo)
      /\ s \in Nat /\ n \in Nat /\ s <= n
      /\ seen = SubSeq(allPools, 1, s)
  BY DEF FactoryInv, FactoryTypeOK, PagesAreOrderly
<1>2. e \in Nat /\ s <= e /\ e <= n
  BY <1>1, PageSizeAssumption DEF Least
<1>3. seen' = SubSeq(allPools, 1, s) \o SubSeq(allPools, s + 1, e)
  <2>1. Least(s, n) = s
    BY <1>1 DEF Least
  <2>2. GetAllPools(s, PageSize) = SubSeq(allPools, s + 1, e)
    BY <2>1 DEF GetAllPools
  <2>3. seen' = seen \o GetAllPools(s, PageSize)
    BY DEF ReadPage
  <2>4. QED BY <1>1, <2>2, <2>3
<1>4. SubSeq(allPools, 1, s) \o SubSeq(allPools, s + 1, e)
         = SubSeq(allPools, 1, e)
  <2>1. 1 \in 1..Len(allPools) + 1 /\ s \in 1 - 1..Len(allPools)
    BY <1>1
  <2>2. e \in s..Len(allPools)
    BY <1>1, <1>2
  <2> HIDE DEF s, e
  <2>3. QED BY <1>1, <2>1, <2>2, ConcatAdjacentSubSeq
<1>5. SubSeq(allPools, 1, e) \in Seq(PoolInfo) /\ Len(SubSeq(allPools, 1, e)) = e
  BY <1>1, <1>2
<1>6. allPools' = allPools
  BY DEF ReadPage, records
<1>7. QED
  BY <1>1, <1>2, <1>3, <1>4, <1>5, <1>6 DEF PagesAreOrderly

-----------------------------------------------------------------------------
LEMMA FactoryInvInit == FactoryInit => FactoryInv
<1> SUFFICES ASSUME FactoryInit PROVE FactoryInv
  OBVIOUS
<1>1. 0 \in Pool
  BY CountModulusAssumption DEF Pool
<1>2. FactoryTypeOK
  <2>1. <<>> \in Seq(PoolInfo) /\ 0 \in 0..MaxTime
    BY MaxTimeAssumption
  <2>2. registry \in [Token \X Token \X FeeTier -> Pool \cup {NoPool}]
    BY DEF FactoryInit
  <2>3. owners \in [Pool -> Account \cup {NoAccount}]
    BY DEF FactoryInit
  <2>4. QED BY <1>1, <2>1, <2>2, <2>3 DEF FactoryInit, FactoryTypeOK
<1>3. ListInv
  BY CountModulusAssumption DEF FactoryInit, ListInv
<1>4. TablesInv
  BY CountModulusAssumption DEF FactoryInit, TablesInv, Pool
<1>5. PagesAreOrderly
  BY DEF FactoryInit, PagesAreOrderly
<1>6. QED BY <1>2, <1>3, <1>4, <1>5 DEF FactoryInv

\* A step creates a pool, hands out a page, or leaves the records alone.
LEMMA StepKinds ==
    ASSUME [FactoryNext]_factoryVars
    PROVE  \/ \E t \in PoolType, c \in Account, a, b \in Token, f \in FeeTier,
                 d \in 0..MaxTime : CreatePool(t, c, a, b, f, d)
           \/ ReadPage
           \/ UNCHANGED <<records, seen>>
<1>1. CASE UNCHANGED factoryVars
  BY <1>1 DEF factoryVars
<1>2. CASE \E a, r \in Account : InitializeFactory(a, r)
  BY <1>2 DEF InitializeFactory
<1>3. CASE \E c, r \in Account, d \in 0..MaxTime : SetFeeRecipient(c, r, d)
  BY <1>3 DEF SetFeeRecipient
<1>4. CASE \E c \in Account, a, b \in Token, f \in FeeTier, d \in 0..MaxTime :
              CreateConstantProductPool(c, a, b, f, d)
  BY <1>4 DEF CreateConstantProductPool, PoolType
<1>5. CASE \E c \in Account, ts \in TokenLists, f \in FeeTier, d \in 0..MaxTime :
              CreateStablePool(c, ts, f, d)
  <2>1. PICK c \in Account, ts \in TokenLists, f \in FeeTier, d \in 0..MaxTime :
           CreateStablePool(c, ts, f, d)
    BY <1>5
  <2>2. ts[1] \in Token /\ ts[2] \in Token
    BY DEF TokenLists
  <2>3. QED BY <2>1, <2>2 DEF CreateStablePool, PoolType
<1>6. CASE \E c \in Account, a, b \in Token, f \in FeeTier, d \in 0..MaxTime :
              CreateConcentratedPool(c, a, b, f, d)
  BY <1>6 DEF CreateConcentratedPool, PoolType
<1>7. CASE ReadPage
  BY <1>7
<1>8. CASE Tick
  BY <1>8 DEF Tick
<1>9. QED
  BY <1>1, <1>2, <1>3, <1>4, <1>5, <1>6, <1>7, <1>8 DEF FactoryNext

\* The calls that create nothing keep the types.
LEMMA OtherStepsTyped ==
    ASSUME FactoryTypeOK, [FactoryNext]_factoryVars, UNCHANGED <<records, seen>>
    PROVE  FactoryTypeOK'
<1>1. CASE UNCHANGED factoryVars
  BY <1>1 DEF factoryVars, config, records, FactoryTypeOK
<1>2. CASE \E a, r \in Account : InitializeFactory(a, r)
  BY <1>2 DEF InitializeFactory, records, FactoryTypeOK
<1>3. CASE \E c, r \in Account, d \in 0..MaxTime : SetFeeRecipient(c, r, d)
  BY <1>3 DEF SetFeeRecipient, records, FactoryTypeOK
<1>4. CASE UNCHANGED <<config, now>>
  BY <1>4 DEF config, records, FactoryTypeOK
<1>5. CASE Tick
  BY <1>5, MaxTimeAssumption DEF Tick, config, records, FactoryTypeOK
<1>6. QED
  BY <1>1, <1>2, <1>3, <1>4, <1>5 DEF FactoryNext, CreateConstantProductPool,
     CreateStablePool, CreateConcentratedPool, CreatePool, ReadPage

LEMMA FactoryInvStep ==
    ASSUME FactoryInv, [FactoryNext]_factoryVars
    PROVE  FactoryInv'
<1>1. CASE \E t \in PoolType, c \in Account, a, b \in Token, f \in FeeTier,
              d \in 0..MaxTime : CreatePool(t, c, a, b, f, d)
  BY <1>1, CreationTyped, CreationInv DEF FactoryInv
<1>2. CASE ReadPage
  <2>1. seen' \in Seq(PoolInfo) /\ PagesAreOrderly'
    BY <1>2, PageInOrder
  <2>2. UNCHANGED <<config, records, now>>
    BY <1>2 DEF ReadPage
  <2>3. FactoryTypeOK'
    BY <2>1, <2>2 DEF FactoryInv, FactoryTypeOK, config, records
  <2>4. ListInv' /\ TablesInv'
    BY <2>2 DEF FactoryInv, ListInv, TablesInv, records, KeyOf
  <2>5. QED BY <2>1, <2>3, <2>4 DEF FactoryInv
<1>3. CASE UNCHANGED <<records, seen>>
  <2>1. FactoryTypeOK'
    BY <1>3, OtherStepsTyped DEF FactoryInv
  <2>2. ListInv' /\ TablesInv' /\ PagesAreOrderly'
    BY <1>3 DEF FactoryInv, ListInv, TablesInv, PagesAreOrderly, records, KeyOf
  <2>3. QED BY <2>1, <2>2 DEF FactoryInv
<1>4. QED BY <1>1, <1>2, <1>3, StepKinds

\* The records of the factory stay in step with each other.
THEOREM FactoryInvariant == FactorySpec => []FactoryInv
BY FactoryInvInit, FactoryInvStep, PTL DEF FactorySpec

\* What follows for the tables a caller reads.
LEMMA InvGivesRecordsAgree == FactoryInv => RecordsAgree
<1> SUFFICES ASSUME FactoryInv PROVE RecordsAgree
  OBVIOUS
<1> DEFINE n == Len(allPools)
<1>1. /\ n \in Nat /\ n <= CountModulus /\ allPools \in Seq(PoolInfo)
      /\ registry \in [Token \X Token \X FeeTier -> Pool \cup {NoPool}]
  BY DEF FactoryInv, FactoryTypeOK, ListInv
<1>2. ASSUME NEW i \in 1..n
      PROVE  /\ allPools[i].contract = i - 1 /\ i - 1 \in Pool
             /\ registry[KeyOf(allPools[i])] = i - 1 /\ i - 1 # NoPool
  <2>1. i - 1 \in 0..CountModulus - 1
    BY <1>1, CountModulusAssumption
  <2>2. QED BY <2>1, NoPoolAssumption DEF FactoryInv, ListInv, TablesInv, Pool
<1>3. ASSUME NEW i \in 1..n, NEW j \in 1..n,
             allPools[i].contract = allPools[j].contract
      PROVE  i = j
  <2>1. i - 1 = j - 1
    BY <1>2, <1>3
  <2>2. QED BY <2>1, <1>1
<1>4. ASSUME NEW i \in 1..n, NEW info, info = allPools[i]
      PROVE  /\ GetPool(info.token_a, info.token_b, info.fee_tier) = info.contract
             /\ GetPool(info.token_b, info.token_a, info.fee_tier) = info.contract
  <2> DEFINE x == info.token_a
             y == info.token_b
             f == info.fee_tier
  <2>1. /\ info \in PoolInfo /\ info.contract = i - 1 /\ x <= y
        /\ registry[<<x, y, f>>] = i - 1 /\ i - 1 # NoPool
    BY <1>1, <1>2, <1>4 DEF KeyOf, FactoryInv, ListInv
  <2>2. x \in Token /\ y \in Token /\ f \in FeeTier
    BY <2>1 DEF PoolInfo
  <2>3. GetPool(x, y, f) = i - 1
    BY <2>1 DEF GetPool
  <2>4. registry[<<y, x, f>>] = NoPool \/ x = y
    <3>1. SUFFICES ASSUME registry[<<y, x, f>>] # NoPool PROVE x = y
      OBVIOUS
    <3>2. <<y, x, f>> \in Token \X Token \X FeeTier
      BY <2>2
    <3> DEFINE m == registry[<<y, x, f>>]
    <3>3. m \in 0..n - 1 /\ KeyOf(allPools[m + 1]) = <<y, x, f>>
      BY <3>1, <3>2 DEF FactoryInv, TablesInv
    <3>4. allPools[m + 1].token_a <= allPools[m + 1].token_b
      BY <1>1, <3>3 DEF FactoryInv, ListInv
    <3>5. y <= x
      BY <3>3, <3>4 DEF KeyOf
    <3>6. x \in Nat /\ y \in Nat /\ x <= y
      BY <2>1, <2>2, TokenAssumption
    <3> HIDE DEF x, y
    <3>7. QED BY <3>5, <3>6
  <2>5. GetPool(y, x, f) = i - 1
    BY <2>1, <2>4 DEF GetPool
  <2>6. QED BY <2>1, <2>3, <2>5
<1>5. ASSUME NEW k \in DOMAIN registry, registry[k] # NoPool
      PROVE  \E i \in 1..n :
                allPools[i].contract = registry[k] /\ KeyOf(allPools[i]) = k
  <2>1. registry[k] \in 0..n - 1 /\ KeyOf(allPools[registry[k] + 1]) = k
    BY <1>1, <1>5 DEF FactoryInv, TablesInv
  <2>2. registry[k] + 1 \in 1..n
    BY <1>1, <2>1
  <2>3. allPools[registry[k] + 1].contract = registry[k]
    BY <1>2, <2>1, <2>2
  <2>4. QED BY <2>1, <2>2, <2>3
<1>6. ASSUME NEW p \in Pool
      PROVE  (p < n) <=> \E i \in 1..n : allPools[i].contract = p
  <2>1. p \in Nat
    BY CountModulusAssumption DEF Pool
  <2>2. ASSUME p < n PROVE \E i \in 1..n : allPools[i].contract = p
    <3>1. p + 1 \in 1..n
      BY <1>1, <2>1, <2>2
    <3>2. QED BY <1>2, <2>1, <3>1
  <2>3. ASSUME NEW i \in 1..n, allPools[i].contract = p PROVE p < n
    BY <1>1, <1>2, <2>1, <2>3
  <2>4. QED BY <2>2, <2>3
<1>7. \A p \in Pool : owners[p] # NoAccount <=>
         \E i \in 1..n : allPools[i].contract = p
  BY <1>6 DEF FactoryInv, TablesInv
<1>8. deployed = {allPools[i].contract : i \in 1..n}
  <2>1. deployed = 0..n - 1
    BY DEF FactoryInv, TablesInv
  <2>2. ASSUME NEW p \in 0..n - 1
        PROVE  p \in {allPools[i].contract : i \in 1..n}
    <3>1. p \in Pool /\ p < n
      BY <1>1, CountModulusAssumption DEF Pool
    <3>2. QED BY <1>6, <3>1
  <2>3. ASSUME NEW i \in 1..n
        PROVE  allPools[i].contract \in 0..n - 1
    BY <1>1, <1>2
  <2>4. QED BY <2>1, <2>2, <2>3
<1>9. QED BY <1>3, <1>4, <1>5, <1>7, <1>8 DEF RecordsAgree

\* List, registry, owners and host agree.
THEOREM FactoryRecordsAgree == FactorySpec => []RecordsAgree
BY FactoryInvariant, InvGivesRecordsAgree, PTL

\* The address of the next pool is free until the count has wrapped.
THEOREM FactoryNextAddressFree == FactorySpec => []NextAddressFree
<1>1. FactoryInv => NextAddressFree
  BY DEF FactoryInv, FactoryTypeOK, ListInv, TablesInv, NextAddressFree
<1>2. QED BY <1>1, FactoryInvariant, PTL

\* A client that pages through the list sees the pools in order.
THEOREM FactoryPagesAreOrderly == FactorySpec => []PagesAreOrderly
<1>1. FactoryInv => PagesAreOrderly
  BY DEF FactoryInv
<1>2. QED BY <1>1, FactoryInvariant, PTL

-----------------------------------------------------------------------------
\* A creation opens a market that was not there.
LEMMA CreationOpens ==
    ASSUME FactoryInv, NEW t \in PoolType, NEW c \in Account, NEW a \in Token,
           NEW b \in Token, NEW f \in FeeTier, NEW d,
           CreatePool(t, c, a, b, f, d)
    PROVE  Registry!RegistryNext
<1>1. PICK x, y \in Token : Recorded(t, c, f, x, y)
  BY CreationEffect
<1> DEFINE n == Len(allPools)
           key == <<x, y, f>>
           m == [pair |-> {x, y}, feeTier |-> f, pool |-> n]
           Keys == Token \X Token \X FeeTier
           Entry(k, r) == [pair |-> {k[1], k[2]}, feeTier |-> k[3], pool |-> r]
<1>2. /\ n \in Pool /\ n \in Nat /\ n # NoPool
      /\ registry \in [Keys -> Pool \cup {NoPool}]
      /\ registry[<<x, y, f>>] = NoPool /\ registry[<<y, x, f>>] = NoPool
      /\ registry' = [registry EXCEPT ![key] = n]
  BY <1>1, NoPoolAssumption
  DEF Recorded, FactoryInv, FactoryTypeOK, Pool
<1>3. m \in Registry!Market
  BY <1>2 DEF Registry!Market
<1>4. ASSUME NEW k \in Keys, registry[k] # NoPool
      PROVE  /\ <<{k[1], k[2]}, k[3]>> # <<{x, y}, f>>
             /\ registry[k] # n
  <2>1. registry[k] \in 0..n - 1
    BY <1>4 DEF FactoryInv, TablesInv
  <2>2. k = <<k[1], k[2], k[3]>>
    BY DEF Keys
  <2>3. ASSUME {k[1], k[2]} = {x, y}, k[3] = f PROVE FALSE
    <3>1. (k[1] = x /\ k[2] = y) \/ (k[1] = y /\ k[2] = x)
      BY <2>3
    <3>2. QED BY <1>2, <1>4, <2>2, <2>3, <3>1
  <2>4. registry[k] # n
    BY <1>2, <2>1
  <2>5. QED BY <2>3, <2>4
<1>5. ASSUME NEW e \in OpenMarkets
      PROVE  <<e.pair, e.feeTier>> # <<m.pair, m.feeTier>> /\ e.pool # m.pool
  <2>1. PICK k \in Keys : registry[k] # NoPool /\ e = Entry(k, registry[k])
    BY DEF OpenMarkets
  <2>2. e.pair = {k[1], k[2]} /\ e.feeTier = k[3] /\ e.pool = registry[k]
    BY <2>1
  <2>3. m.pair = {x, y} /\ m.feeTier = f /\ m.pool = n
    OBVIOUS
  <2>4. QED BY <1>4, <2>1, <2>2, <2>3
<1>6. OpenMarkets' = OpenMarkets \cup {m}
  <2>1. \A k \in Keys : registry'[k] = IF k = key THEN n ELSE registry[k]
    BY <1>2
  <2>2. OpenMarkets = {Entry(k, registry[k]) : k \in {l \in Keys : registry[l] # NoPool}}
    BY DEF OpenMarkets
  <2>3. OpenMarkets' = {Entry(k, registry'[k]) : k \in {l \in Keys : registry'[l] # NoPool}}
    BY DEF OpenMarkets
  <2>4. key \in Keys /\ Entry(key, n) = m
    OBVIOUS
  <2> HIDE DEF key, m, Keys, Entry
  <2>5. ASSUME NEW e PROVE e \in OpenMarkets' <=> e \in OpenMarkets \cup {m}
    <3>1. e \in OpenMarkets' <=>
             \E k \in Keys : registry'[k] # NoPool /\ e = Entry(k, registry'[k])
      BY <2>3
    <3>2. e \in OpenMarkets <=>
             \E k \in Keys : registry[k] # NoPool /\ e = Entry(k, registry[k])
      BY <2>2
    <3>3. registry[key] = NoPool /\ registry'[key] = n /\ n # NoPool
      BY <1>2, <2>1, <2>4 DEF key
    <3>4. \A k \in Keys : k # key => registry'[k] = registry[k]
      BY <2>1
    <3>5. ASSUME e \in OpenMarkets' PROVE e \in OpenMarkets \cup {m}
      BY <2>4, <3>1, <3>2, <3>3, <3>4, <3>5
    <3>6. ASSUME e \in OpenMarkets PROVE e \in OpenMarkets'
      BY <3>1, <3>2, <3>3, <3>4, <3>6
    <3>7. m \in OpenMarkets' <=>
             \E k \in Keys : registry'[k] # NoPool /\ m = Entry(k, registry'[k])
      BY <2>3
    <3>8. m \in OpenMarkets'
      BY <2>4, <3>3, <3>7
    <3>9. QED BY <3>5, <3>6, <3>8
  <2>6. QED BY <2>5
<1>7. Registry!Open(m)
  BY <1>5, <1>6 DEF Registry!Open
<1>8. QED BY <1>3, <1>7 DEF Registry!RegistryNext

\* The factory implements the market registry.
THEOREM FactoryIsRegistry == FactorySpec => FactoryImplementsRegistry
<1>1. FactoryInit => Registry!RegistryInit
  BY DEF FactoryInit, Registry!RegistryInit, OpenMarkets
<1>2. ASSUME FactoryInv, [FactoryNext]_factoryVars
      PROVE  [Registry!RegistryNext]_OpenMarkets
  <2>1. CASE \E t \in PoolType, c \in Account, a, b \in Token, f \in FeeTier,
                d \in 0..MaxTime : CreatePool(t, c, a, b, f, d)
    BY <1>2, <2>1, CreationOpens
  <2>2. CASE ReadPage
    BY <2>2 DEF ReadPage, records, OpenMarkets
  <2>3. CASE UNCHANGED <<records, seen>>
    BY <2>3 DEF records, OpenMarkets
  <2>4. QED BY <1>2, <2>1, <2>2, <2>3, StepKinds
<1>3. QED
  BY <1>1, <1>2, FactoryInvariant, PTL
  DEF FactorySpec, FactoryImplementsRegistry, Registry!RegistrySpec
=============================================================================
