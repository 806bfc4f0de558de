---------------------- MODULE ConstantProductPoolProof ----------------------
(***************************************************************************)
(* The constant product pool implements ShareVault for every set of users, *)
(* every amount they may pass and every value of the other constants.  The *)
(* order: the pricing functions round the pool's way, the transfers keep   *)
(* the pool's books, each operation preserves PoolIInv and is a step of    *)
(* the vault.                                                              *)
(***************************************************************************)
EXTENDS ConstantProductPool, ProofLemmas

\* get_accumulators and update read LTSTAMP with a default and update stores it
\* only when time has passed since, so no call ever stores it.  Without it a
\* withdrawal could be refused by the products of the price accumulators.
Unpriced == lastTime = NoTime

\* The invariant that is inductive and strong enough for HolderCanExit.
PoolIInv == PoolInv /\ Unpriced

-----------------------------------------------------------------------------
(***************************************************************************)
(* The share token keeps i128 values in its storage, whatever the amounts  *)
(* it is called with: the sums it does not check wrap around, the          *)
(* differences it takes are covered by its guards.                         *)
(***************************************************************************)

\* A sum or difference of two i128 wraps at most once.
LEMMA WrapInRange ==
    ASSUME NEW x \in I128, NEW n \in I128
    PROVE  Wrap(x + n) \in I128 /\ Wrap(x - n) \in I128
BY I128MaxAssumption DEF Wrap, I128

\* A sum inside i128 does not wrap.
LEMMA NoWrap ==
    ASSUME NEW x \in I128
    PROVE  Wrap(x) = x
BY I128MaxAssumption DEF Wrap, I128

LEMMA MintTyped ==
    ASSUME LpTypeOK, NEW m \in Address, NEW a \in Address, NEW n \in I128,
           Mint(m, a, n)
    PROVE  LpTypeOK'
BY WrapInRange DEF LpTypeOK, Mint

LEMMA BurnTyped ==
    ASSUME LpTypeOK, NEW m \in Address, NEW a \in Address, NEW n \in I128,
           Burn(m, a, n)
    PROVE  LpTypeOK'
<1>1. lpSupply' \in I128
  BY WrapInRange DEF LpTypeOK, Burn
<1>2. lpBalance[a] - n \in I128
  BY I128MaxAssumption DEF LpTypeOK, Burn, BurnOk, I128
<1>3. QED BY <1>1, <1>2 DEF LpTypeOK, Burn

\* Shares that move stay i128, also when both ends are one address.
LEMMA MoveSharesTyped ==
    ASSUME LpTypeOK, NEW a \in Address, NEW b \in Address, NEW n \in I128,
           n > 0, MoveShares(a, b, n)
    PROVE  lpBalance' \in [Address -> I128]
<1>1. lpBalance[a] - n \in I128
  BY I128MaxAssumption DEF LpTypeOK, MoveShares, I128
<1>2. [lpBalance EXCEPT ![a] = @ - n] \in [Address -> I128]
  BY <1>1 DEF LpTypeOK
<1>3. [lpBalance EXCEPT ![a] = @ - n][b] \in I128
  BY <1>2
<1>4. Wrap([lpBalance EXCEPT ![a] = @ - n][b] + n) \in I128
  BY <1>3, WrapInRange
<1>5. QED BY <1>2, <1>4 DEF LpTypeOK, MoveShares

\* The calls that neither mint nor burn.
LEMMA HolderCallsTyped ==
    ASSUME LpTypeOK, NEW a \in Address, NEW b \in Address, NEW c \in Address,
           NEW n \in I128,
           \/ Initialize(a) \/ SetMinter(a, b) \/ Transfer(a, b, n)
           \/ Approve(a, b, n) \/ TransferFrom(c, a, b, n)
    PROVE  LpTypeOK'
<1>1. CASE Initialize(a)
  BY <1>1, I128MaxAssumption DEF LpTypeOK, Initialize, I128
<1>2. CASE SetMinter(a, b)
  BY <1>2 DEF LpTypeOK, SetMinter
<1>3. CASE Transfer(a, b, n)
  <2>1. n > 0 /\ MoveShares(a, b, n)
    BY <1>3 DEF Transfer
  <2>2. QED BY <1>3, <2>1, MoveSharesTyped DEF LpTypeOK, Transfer
<1>4. CASE Approve(a, b, n)
  BY <1>4 DEF LpTypeOK, Approve
<1>5. CASE TransferFrom(c, a, b, n)
  <2>1. n > 0 /\ MoveShares(a, b, n) /\ lpAllowance[a][c] >= n
    BY <1>5 DEF TransferFrom
  <2>2. lpAllowance[a][c] - n \in I128
    BY <2>1, I128MaxAssumption DEF LpTypeOK, I128
  <2>3. lpAllowance' \in [Address -> [Address -> I128]]
    BY <1>5, <2>2 DEF LpTypeOK, TransferFrom
  <2>4. QED BY <1>5, <2>1, <2>3, MoveSharesTyped DEF LpTypeOK, TransferFrom
<1>6. QED BY <1>1, <1>2, <1>3, <1>4, <1>5

-----------------------------------------------------------------------------
(***************************************************************************)
(* Pricing.  d is FeeDenominator, g what is left of it after the fee.      *)
(***************************************************************************)

\* A quotient is at most what is divided.
LEMMA QuotientBelow ==
    ASSUME NEW n \in Nat, NEW d \in Nat, d > 0
    PROVE  n \div d <= n
<1>1. PICK q \in Nat : q = n \div d /\ q * d <= n
  BY Rounded
<1>2. q * 1 <= q * d
  BY ProductsCompare
<1>3. q * d \in Nat
  BY <1>1
<1>4. QED BY <1>1, <1>2, <1>3

\* The output of a swap, rounded down, leaves the product of the reserves.
LEMMA ExactInKeepsProduct ==
    ASSUME NEW x \in Nat, NEW y \in Nat, NEW a \in Nat, NEW d \in Nat,
           NEW g \in Nat, NEW out \in Nat,
           g <= d, x > 0, d > 0,
           out * (x * d + a * g) <= (a * g) * y
    PROVE  out <= y /\ x * y <= (x + a) * (y - out)
<1>1. PICK w \in Nat, v \in Nat, u \in Nat :
          v = a * g /\ u = x * d /\ w = u + v
  <2>1. a * g \in Nat /\ x * d \in Nat /\ x * d + a * g \in Nat
    OBVIOUS
  <2>2. QED BY <2>1
<1>2. u > 0 /\ w > 0
  <2>1. x * d > 0  OBVIOUS
  <2>2. QED BY <1>1, <2>1
<1>3. out * w <= v * y
  BY <1>1
<1>4. out <= y
  <2>1. v * y <= w * y
    BY <1>1, ProductsCompare
  <2>2. out * w \in Nat /\ v * y \in Nat /\ w * y \in Nat /\ w * y = y * w
    OBVIOUS
  <2>3. out * w <= y * w
    BY <1>3, <2>1, <2>2
  <2>4. QED BY <1>2, <2>3, Cancel
<1>5. PICK left \in Nat : y = left + out
  <2>1. y - out \in Nat /\ y = (y - out) + out  BY <1>4
  <2>2. QED BY <2>1
<1>6. u * y <= w * left
  <2>1. w * y = w * left + out * w
    BY <1>5
  <2>2. w * y = u * y + v * y
    BY <1>1
  <2>3. /\ w * y \in Nat /\ w * left \in Nat /\ out * w \in Nat
        /\ u * y \in Nat /\ v * y \in Nat
    OBVIOUS
  <2>4. QED BY <1>3, <2>1, <2>2, <2>3
<1>7. w <= (x + a) * d
  <2>1. a * g <= a * d
    BY ProductsCompare
  <2>2. (x + a) * d = x * d + a * d
    OBVIOUS
  <2>3. a * g \in Nat /\ a * d \in Nat /\ x * d \in Nat
    OBVIOUS
  <2>4. QED BY <1>1, <2>1, <2>2, <2>3
<1>8. w * left <= ((x + a) * d) * left
  <2>1. (x + a) * d \in Nat  OBVIOUS
  <2>2. QED BY <1>7, <2>1, ProductsCompare
<1>9. (x * y) * d <= ((x + a) * left) * d
  <2>1. u * y = (x * y) * d
    BY <1>1
  <2>2. ((x + a) * d) * left = ((x + a) * left) * d
    OBVIOUS
  <2>3. /\ u * y \in Nat /\ w * left \in Nat
        /\ ((x + a) * d) * left \in Nat
    OBVIOUS
  <2>4. QED BY <1>6, <1>8, <2>1, <2>2, <2>3
<1>10. x * y <= (x + a) * left
  <2>1. x * y \in Nat /\ (x + a) * left \in Nat  OBVIOUS
  <2>2. QED BY <1>9, <2>1, Cancel
<1>11. y - out = left
  BY <1>5
<1>12. QED BY <1>4, <1>10, <1>11

\* An input above the exact quotient leaves the product of the reserves too.
LEMMA ExactOutKeepsProduct ==
    ASSUME NEW x \in Nat, NEW y \in Nat, NEW i \in Nat, NEW d \in Nat,
           NEW g \in Nat, NEW out \in Nat,
           g <= d, d > 0, out < y,
           (x * out) * d <= i * ((y - out) * g)
    PROVE  x * y <= (x + i) * (y - out)
<1>1. PICK left \in Nat : y = left + out
  <2>1. y - out \in Nat /\ y = (y - out) + out  OBVIOUS
  <2>2. QED BY <2>1
<1>2. y - out = left
  BY <1>1
<1>3. (x * out) * d <= i * (left * g)
  BY <1>2
<1>4. i * (left * g) <= (i * left) * d
  <2>1. (i * left) * g <= (i * left) * d
    <3>1. i * left \in Nat  OBVIOUS
    <3>2. QED BY <3>1, ProductsCompare
  <2>2. (i * left) * g = i * (left * g)
    OBVIOUS
  <2>3. QED BY <2>1, <2>2
<1>5. x * out <= i * left
  <2>1. x * out \in Nat /\ i * left \in Nat  OBVIOUS
  <2>2. (x * out) * d \in Nat /\ i * (left * g) \in Nat /\ (i * left) * d \in Nat
    OBVIOUS
  <2>3. (x * out) * d <= (i * left) * d
    BY <1>3, <1>4, <2>2
  <2>4. QED BY <2>1, <2>3, Cancel
<1>6. x * y = x * left + x * out
  BY <1>1
<1>7. (x + i) * left = x * left + i * left
  OBVIOUS
<1>8. x * left \in Nat /\ x * out \in Nat /\ i * left \in Nat
  OBVIOUS
<1>9. QED BY <1>2, <1>5, <1>6, <1>7, <1>8

\* A square below m * m has a root of at most m.
LEMMA RootBelow ==
    ASSUME NEW s \in Nat, NEW m \in Nat, NEW x \in Nat, NEW y \in Nat,
           x <= m, y <= m, s * s <= x * y
    PROVE  s <= m
<1> SUFFICES ASSUME m < s PROVE FALSE
  OBVIOUS
<1>1. (m + 1) * (m + 1) <= s * s
  BY ProductsCompare
<1>2. x * y <= m * m
  BY ProductsCompare
<1>3. (m + 1) * (m + 1) = m * m + 2 * m + 1
  OBVIOUS
<1>4. s * s \in Nat /\ x * y \in Nat /\ m * m \in Nat
  OBVIOUS
<1>5. QED BY <1>1, <1>2, <1>3, <1>4

\* get_amount_out never lowers the product of the reserves.
LEMMA AmountOutFair ==
    ASSUME NEW x \in Nat, NEW y \in Nat, NEW a \in Int,
           NEW fee \in 0..FeeDenominator, AmountOutOk(a, x, y, fee)
    PROVE  /\ AmountOut(a, x, y, fee) \in 0..y
           /\ x * y <= (x + a) * (y - AmountOut(a, x, y, fee))
<1> USE FeeDenominatorAssumption
<1>1. a \in Nat /\ x > 0
  BY DEF AmountOutOk
<1>2. PICK g \in Nat, d \in Nat :
          g = FeeDenominator - fee /\ d = FeeDenominator /\ g <= d /\ d > 0
  <2>1. /\ FeeDenominator - fee \in Nat /\ FeeDenominator \in Nat
        /\ FeeDenominator - fee <= FeeDenominator /\ FeeDenominator > 0
    OBVIOUS
  <2>2. QED BY <2>1
<1>3. PICK n \in Nat, w \in Nat : n = (a * g) * y /\ w = x * d + a * g /\ w > 0
  <2>1. (a * g) * y \in Nat /\ x * d \in Nat /\ a * g \in Nat /\ x * d > 0
    BY <1>1, <1>2
  <2>2. QED BY <2>1
<1>4. AmountOut(a, x, y, fee) = n \div w
  BY <1>2, <1>3 DEF AmountOut
<1>5. PICK out \in Nat : out = n \div w /\ out * w <= n
  BY <1>3, Rounded
<1>6. out * (x * d + a * g) <= (a * g) * y
  BY <1>3, <1>5
<1>7. out <= y /\ x * y <= (x + a) * (y - out)
  BY <1>1, <1>2, <1>6, ExactInKeepsProduct
<1>8. QED BY <1>4, <1>5, <1>7

\* Neither does get_amount_in.
LEMMA AmountInFair ==
    ASSUME NEW x \in Nat, NEW y \in Nat, NEW out \in Int,
           NEW fee \in 0..FeeDenominator, AmountInOk(out, x, y, fee)
    PROVE  /\ AmountIn(out, x, y, fee) \in Nat
           /\ out \in 0..y
           /\ x * y <= (x + AmountIn(out, x, y, fee)) * (y - out)
<1> USE FeeDenominatorAssumption
<1>1. out \in Nat /\ out < y /\ fee # FeeDenominator
  BY DEF AmountInOk
<1>2. PICK g \in Nat, d \in Nat :
          /\ g = FeeDenominator - fee /\ d = FeeDenominator
          /\ g <= d /\ d > 0 /\ g > 0
  <2>1. /\ FeeDenominator - fee \in Nat /\ FeeDenominator \in Nat
        /\ FeeDenominator - fee <= FeeDenominator /\ FeeDenominator - fee > 0
    BY <1>1
  <2>2. QED BY <1>1, <2>1
<1>3. PICK left \in Nat : left = y - out /\ left > 0
  <2>1. y - out \in Nat /\ y - out > 0  BY <1>1
  <2>2. QED BY <2>1
<1>4. PICK n \in Nat, w \in Nat : n = (x * out) * d /\ w = left * g /\ w > 0
  <2>1. (x * out) * d \in Nat /\ left * g \in Nat /\ left * g > 0
    BY <1>1, <1>2, <1>3
  <2>2. QED BY <2>1
<1>5. AmountIn(out, x, y, fee) = (n \div w) + 1
  BY <1>2, <1>3, <1>4 DEF AmountIn
<1>6. PICK q \in Nat : q = n \div w /\ n < q * w + w
  BY <1>4, Rounded
<1>7. n <= (q + 1) * w
  <2>1. (q + 1) * w = q * w + w  OBVIOUS
  <2>2. (q + 1) * w \in Nat  OBVIOUS
  <2>3. QED BY <1>6, <2>1, <2>2
<1>8. (x * out) * d <= (q + 1) * ((y - out) * g)
  BY <1>3, <1>4, <1>7
<1>9. x * y <= (x + (q + 1)) * (y - out)
  BY <1>1, <1>2, <1>8, ExactOutKeepsProduct
<1>10. QED BY <1>1, <1>5, <1>6, <1>9

\* The recorded fee is a natural number.
LEMMA ProtocolFeeNatural ==
    ASSUME NEW a \in Nat, NEW fee \in 0..FeeDenominator
    PROVE  ProtocolFee(a, fee, ProtocolFeeBps) \in Nat
<1> USE FeeDenominatorAssumption, PoolAssumption
<1>1. PICK p \in Nat : p = (a * fee) \div FeeDenominator
  <2>1. a * fee \in Nat  OBVIOUS
  <2>2. QED BY <2>1, Rounded
<1>2. p * ProtocolFeeBps \in Nat
  OBVIOUS
<1>3. (p * ProtocolFeeBps) \div FeeDenominator \in Nat
  BY <1>2, Rounded
<1>4. QED BY <1>1, <1>3 DEF ProtocolFee

\* The shares of a later deposit leave no reserve per share smaller.
LEMMA ProRataFair ==
    ASSUME NEW a \in Nat, NEW b \in Nat, NEW x \in Nat, NEW y \in Nat,
           NEW s \in Nat, x > 0, y > 0
    PROVE  /\ ProRataShares(a, b, x, y, s) \in Nat
           /\ ProRataShares(a, b, x, y, s) * x <= a * s
           /\ ProRataShares(a, b, x, y, s) * y <= b * s
<1>1. a * s \in Nat /\ b * s \in Nat
  OBVIOUS
<1>2. PICK p \in Nat : p = (a * s) \div x /\ p * x <= a * s
  BY <1>1, Rounded
<1>3. PICK q \in Nat : q = (b * s) \div y /\ q * y <= b * s
  BY <1>1, Rounded
<1>4. PICK n \in Nat : n = ProRataShares(a, b, x, y, s) /\ n <= p /\ n <= q
  BY <1>2, <1>3 DEF ProRataShares, Lesser
<1>5. n * x <= p * x /\ n * y <= q * y
  BY <1>4, ProductsCompare
<1>6. /\ n * x \in Nat /\ p * x \in Nat /\ n * y \in Nat /\ q * y \in Nat
  OBVIOUS
<1>7. QED BY <1>1, <1>2, <1>3, <1>4, <1>5, <1>6

\* n new shares for a more of reserve x: a share stands for no less of it.
LEMMA PerShareGrows ==
    ASSUME NEW x \in Nat, NEW s \in Nat, NEW n \in Nat, NEW a \in Nat,
           n * x <= a * s
    PROVE  x * (s + n) <= (x + a) * s
<1>1. x * (s + n) = x * s + n * x /\ (x + a) * s = x * s + a * s
  OBVIOUS
<1>2. x * s \in Nat /\ n * x \in Nat /\ a * s \in Nat
  OBVIOUS
<1>3. QED BY <1>1, <1>2

\* What a withdrawal pays of a reserve leaves the remaining shares theirs.
LEMMA ShareOfFair ==
    ASSUME NEW n \in Nat, NEW s \in Nat, NEW x \in Nat, s > 0, n <= s
    PROVE  /\ ShareOf(n, s, x) \in 0..x
           /\ x * (s - n) <= (x - ShareOf(n, s, x)) * s
<1>1. n * x \in Nat
  OBVIOUS
<1>2. PICK q \in Nat : q = ShareOf(n, s, x) /\ q * s <= n * x
  BY <1>1, Rounded DEF ShareOf
<1>3. n * x <= s * x
  BY ProductsCompare
<1>4. q * s \in Nat /\ s * x \in Nat /\ s * x = x * s
  OBVIOUS
<1>5. q <= x
  <2>1. q * s <= x * s  BY <1>1, <1>2, <1>3, <1>4
  <2>2. QED BY <2>1, Cancel
<1>6. x * (s - n) = x * s - n * x
  OBVIOUS
<1>7. (x - q) * s = x * s - q * s
  OBVIOUS
<1>8. QED BY <1>1, <1>2, <1>4, <1>5, <1>6, <1>7

-----------------------------------------------------------------------------
(***************************************************************************)
(* Books.                                                                  *)
(***************************************************************************)

\* A transfer leaves balances that are natural numbers, also to oneself.
LEMMA MovedTyped ==
    ASSUME NEW f \in [Address -> Nat], NEW from \in Address, NEW to \in Address,
           NEW n \in Int, TransferOk(f, from, n)
    PROVE  /\ n \in Nat
           /\ Moved(f, from, to, n) \in [Address -> Nat]
           /\ from # to => /\ Moved(f, from, to, n)[from] = f[from] - n
                           /\ Moved(f, from, to, n)[to] = f[to] + n
           /\ from = to => Moved(f, from, to, n) = f
           /\ \A h \in Address : h # from => Moved(f, from, to, n)[h] >= f[h]
<1>1. n \in Nat /\ f[from] - n \in Nat
  BY DEF TransferOk
<1>2. PICK g : g = [f EXCEPT ![from] = @ - n]
  OBVIOUS
<1>3. /\ g \in [Address -> Nat] /\ g[from] = f[from] - n
      /\ \A h \in Address : h # from => g[h] = f[h]
  BY <1>1, <1>2
<1>4. /\ Moved(f, from, to, n) = [g EXCEPT ![to] = @ + n]
      /\ Moved(f, from, to, n) \in [Address -> Nat]
  <2>1. Moved(f, from, to, n) = [g EXCEPT ![to] = @ + n]
    BY <1>2 DEF Moved
  <2>2. g[to] + n \in Nat
    BY <1>1, <1>3
  <2>3. QED BY <1>3, <2>1, <2>2
<1>5. CASE from = to
  <2>1. Moved(f, from, to, n)[from] = f[from]
    BY <1>1, <1>3, <1>4, <1>5
  <2>2. \A h \in Address : h # from => Moved(f, from, to, n)[h] = f[h]
    BY <1>3, <1>4, <1>5
  <2>3. \A h \in Address : Moved(f, from, to, n)[h] = f[h]
    BY <2>1, <2>2
  <2>4. Moved(f, from, to, n) = f
    BY <1>4, <2>3
  <2>5. QED BY <1>1, <1>4, <1>5, <2>4
<1>6. CASE from # to
  BY <1>1, <1>3, <1>4, <1>6
<1>7. QED BY <1>5, <1>6

\* The accumulators are never updated: the timestamp is only stored where the
\* stored one is earlier than now, and there is none.
LEMMA ReservesSet ==
    ASSUME PoolIInv, NEW r, SetReserves(r)
    PROVE  /\ reserve' = r
           /\ lastTime' = NoTime /\ priceAcc' = priceAcc
           /\ \A s \in Side : r[s] <= I128Max
<1>1. now \in Nat /\ lastTime = NoTime
  BY DEF PoolIInv, PoolInv, Unpriced, TypeOK
<1>2. ~(now > now)
  BY <1>1
<1>3. UNCHANGED <<priceAcc, lastTime>>
  BY <1>1, <1>2 DEF SetReserves, UpdateTwap, PricesMove, LastUpdate
<1>4. QED BY <1>1, <1>3 DEF SetReserves, ReservesOk, Fits

\* What one operation owes: the invariant and a step of the vault.
Kept == PoolIInv' /\ [Vault!VaultNext]_(Vault!vaultVars)

\* An operation that touches neither reserves nor shares.
LEMMA BooksUntouched ==
    ASSUME PoolIInv, TypeOK', UNCHANGED <<reserve, lpSupply, lastTime>>,
           \A s \in Side : held'[s][Pool] >= held[s][Pool],
           initialized => initialized',
           lpAdmin' = NoAddress => lpMinter' = NoAddress /\ lpSupply' = 0
    PROVE  Kept
<1>1. \A s \in Side : reserve'[s] <= held'[s][Pool] /\ reserve'[s] <= I128Max
  <2> SUFFICES ASSUME NEW s \in Side
               PROVE  reserve'[s] <= held'[s][Pool] /\ reserve'[s] <= I128Max
    OBVIOUS
  <2>1. /\ reserve[s] \in Nat /\ held[s][Pool] \in Nat /\ held'[s][Pool] \in Nat
        /\ reserve[s] <= held[s][Pool] /\ reserve[s] <= I128Max
    BY PoolAssumption DEF PoolIInv, PoolInv, Unpriced, TypeOK
  <2>2. held'[s][Pool] >= held[s][Pool] /\ reserve'[s] = reserve[s]
    OBVIOUS
  <2>3. QED BY <2>1, <2>2
<1>2. lpSupply' * lpSupply' <= K(reserve')
  BY DEF PoolIInv, PoolInv, Unpriced, K
<1>3. QED BY <1>1, <1>2 DEF PoolIInv, PoolInv, Unpriced, Kept, Vault!vaultVars

\* An operation that books reserves it holds, with the shares backed.
LEMMA BooksKept ==
    ASSUME PoolIInv, LpTypeOK', initialized,
           UNCHANGED <<initialized, feeTier, now, lpAdmin, lpMinter>>,
           fees' \in [Side -> Nat],
           held' \in [Side -> [Address -> Nat]],
           NEW r \in [Side -> Nat], SetReserves(r),
           \A s \in Side : r[s] <= held'[s][Pool],
           lpAdmin = NoAddress => lpSupply' = 0,
           lpSupply' \in Nat,
           lpSupply' * lpSupply' <= K(r),
           Vault!VaultNext \/ UNCHANGED <<reserve, lpSupply>>
    PROVE  Kept
<1>1. /\ reserve' = r /\ lastTime' = NoTime /\ priceAcc' = priceAcc
      /\ \A s \in Side : r[s] <= I128Max
  BY ReservesSet
<1>2. TypeOK'
  BY <1>1 DEF PoolIInv, PoolInv, Unpriced, TypeOK
<1>3. QED BY <1>1, <1>2 DEF PoolIInv, PoolInv, Unpriced, Kept, Vault!vaultVars

\* The numbers an operation starts from.
LEMMA Books ==
    ASSUME PoolIInv
    PROVE  /\ LpTypeOK
           /\ Pool \in Address /\ Users \subseteq Address /\ Pool \notin Users
           /\ lpSupply \in Nat /\ lpSupply <= I128Max
           /\ feeTier \in 0..FeeDenominator
           /\ \A s \in Side :
                 /\ reserve[s] \in Nat /\ fees[s] \in Nat
                 /\ held[s] \in [Address -> Nat]
                 /\ reserve[s] <= held[s][Pool]
           /\ lpSupply * lpSupply <= reserve["a"] * reserve["b"]
           /\ lpAdmin = NoAddress => lpMinter = NoAddress
<1>1. LpTypeOK /\ lpSupply \in Nat /\ lpSupply <= I128Max
  BY I128MaxAssumption DEF PoolIInv, PoolInv, Unpriced, TypeOK, LpTypeOK, I128
<1>2. QED BY <1>1, PoolAssumption DEF PoolIInv, PoolInv, Unpriced, TypeOK, K

-----------------------------------------------------------------------------
(***************************************************************************)
(* Operations, one lemma each.                                             *)
(***************************************************************************)
LEMMA InitializePoolKeeps ==
    ASSUME PoolIInv, NEW fee \in FeeTiers, InitializePool(fee)
    PROVE  Kept
<1>1. reserve' = reserve
  <2>1. \A s \in Side : reserve[s] = 0
    BY DEF PoolIInv, PoolInv, Unpriced, InitializePool
  <2>2. reserve \in [Side -> Nat] /\ reserve' = [s \in Side |-> 0]
    BY DEF PoolIInv, PoolInv, Unpriced, TypeOK, InitializePool
  <2>3. QED BY <2>1, <2>2
<1>2. initialized' /\ UNCHANGED <<fees, lastTime, priceAcc, held, now, lpVars>>
  BY DEF InitializePool
<1>3. feeTier' \in 0..FeeDenominator
  BY PoolAssumption DEF InitializePool
<1>4. initialized' \in BOOLEAN
  BY DEF InitializePool
<1>5. LpTypeOK'
  BY <1>2 DEF PoolIInv, PoolInv, Unpriced, TypeOK, LpTypeOK, lpVars
<1>6. TypeOK'
  BY <1>1, <1>2, <1>3, <1>4, <1>5 DEF PoolIInv, PoolInv, Unpriced, TypeOK
<1>7. \A s \in Side : held'[s][Pool] >= held[s][Pool]
  BY <1>2, PoolAssumption DEF PoolIInv, PoolInv, Unpriced, TypeOK
<1>8. lpAdmin' = NoAddress => lpMinter' = NoAddress /\ lpSupply' = 0
  BY <1>2 DEF PoolIInv, PoolInv, Unpriced, lpVars
<1>9. QED
  BY <1>1, <1>2, <1>6, <1>7, <1>8, BooksUntouched DEF lpVars

\* The shares a first deposit mints: at most the root of what it brings.
LEMMA FirstMint ==
    ASSUME PoolIInv, NEW u \in Users, NEW k \in Nat, FirstSharesOk(k),
           NEW root \in 0..k, root * root <= k, lpSupply = 0,
           Mint(Pool, u, root - MinimumLiquidity)
    PROVE  /\ LpTypeOK' /\ UNCHANGED <<lpAdmin, lpMinter>> /\ lpMinter # NoAddress
           /\ lpSupply' \in Nat /\ lpSupply' > 0 /\ lpSupply' * lpSupply' <= k
<1> USE I128MaxAssumption, MinimumLiquidityAssumption
<1>1. PICK n \in Nat : n = root - MinimumLiquidity /\ n > 0 /\ n <= root
  <2>1. root - MinimumLiquidity > 0
    BY DEF Mint
  <2>2. root - MinimumLiquidity \in Nat /\ root - MinimumLiquidity <= root
    BY <2>1
  <2>3. QED BY <2>1, <2>2
<1>2. n \in I128 /\ root <= I128Max
  BY <1>1 DEF FirstSharesOk, Fits, I128
<1>3. lpSupply' = n
  BY <1>1, <1>2, NoWrap DEF Mint
<1>4. n * n <= k
  <2>1. n * n <= root * root
    BY <1>1, ProductsCompare
  <2>2. n * n \in Nat /\ root * root \in Nat
    BY <1>1
  <2>3. QED BY <2>1, <2>2
<1>5. LpTypeOK'
  BY <1>1, <1>2, Books, MintTyped
<1>6. QED BY <1>1, <1>3, <1>4, <1>5 DEF Mint

\* The shares a later deposit mints: a part of the supply no larger than the
\* part of either reserve it brings; the new reserves keep the sum in i128.
LEMMA LaterMint ==
    ASSUME PoolIInv, NEW u \in Users, NEW a \in Nat, NEW b \in Nat,
           ProRataSharesOk(a, b, reserve["a"], reserve["b"], lpSupply),
           lpSupply # 0,
           reserve["a"] + a <= I128Max, reserve["b"] + b <= I128Max,
           Mint(Pool, u, ProRataShares(a, b, reserve["a"], reserve["b"],
                                       lpSupply))
    PROVE  /\ LpTypeOK' /\ UNCHANGED <<lpAdmin, lpMinter>> /\ lpMinter # NoAddress
           /\ lpSupply' \in Nat /\ lpSupply' > lpSupply
           /\ reserve["a"] * lpSupply' <= (reserve["a"] + a) * lpSupply
           /\ reserve["b"] * lpSupply' <= (reserve["b"] + b) * lpSupply
           /\ lpSupply' * lpSupply' <= (reserve["a"] + a) * (reserve["b"] + b)
<1> USE I128MaxAssumption
<1>1. PICK x \in Nat, y \in Nat, s \in Nat :
          /\ x = reserve["a"] /\ y = reserve["b"] /\ s = lpSupply
          /\ x > 0 /\ y > 0 /\ s > 0 /\ s <= I128Max /\ s * s <= x * y
  BY Books DEF ProRataSharesOk, Side
<1>2. PICK n \in Nat :
          /\ n = ProRataShares(a, b, x, y, s)
          /\ n * x <= a * s /\ n * y <= b * s
  BY <1>1, ProRataFair
<1>3. Mint(Pool, u, n) /\ n > 0
  BY <1>1, <1>2 DEF Mint
<1>4. PICK s1 \in Nat, x1 \in Nat, y1 \in Nat :
          s1 = s + n /\ x1 = x + a /\ y1 = y + b
  <2>1. s + n \in Nat /\ x + a \in Nat /\ y + b \in Nat  OBVIOUS
  <2>2. QED BY <2>1
<1>5. x * s1 <= x1 * s
  BY <1>2, <1>4, PerShareGrows
<1>6. y * s1 <= y1 * s
  BY <1>2, <1>4, PerShareGrows
<1>7. s1 * s1 <= x1 * y1
  BY <1>1, <1>5, <1>6, BackingScales
<1>8. s1 <= I128Max
  <2>1. x1 <= I128Max /\ y1 <= I128Max /\ I128Max \in Nat
    BY <1>1, <1>4
  <2>2. QED BY <1>7, <2>1, RootBelow
<1>9. s1 \in I128 /\ n \in I128
  BY <1>4, <1>8 DEF I128
<1>10. lpSupply' = s1
  BY <1>1, <1>3, <1>4, <1>9, NoWrap DEF Mint
<1>11. LpTypeOK'
  BY <1>3, <1>9, Books, MintTyped
<1>12. QED
  BY <1>1, <1>3, <1>4, <1>5, <1>6, <1>7, <1>10, <1>11 DEF Mint

\* Tokens that come into the pool, one transfer per side.
LEMMA TokensIn ==
    ASSUME PoolIInv, NEW u \in Users, NEW amount \in [Side -> Int],
           \A s \in Side : TransferOk(held[s], u, amount[s]),
           held' = [s \in Side |-> Moved(held[s], u, Pool, amount[s])]
    PROVE  /\ held' \in [Side -> [Address -> Nat]]
           /\ \A s \in Side : /\ amount[s] \in Nat
                              /\ held'[s][Pool] = held[s][Pool] + amount[s]
<1>1. u \in Address /\ u # Pool /\ Pool \in Address
  BY Books
<1>2. ASSUME NEW s \in Side
      PROVE  /\ amount[s] \in Nat
             /\ Moved(held[s], u, Pool, amount[s]) \in [Address -> Nat]
             /\ Moved(held[s], u, Pool, amount[s])[Pool]
                    = held[s][Pool] + amount[s]
  BY <1>1, Books, MovedTyped
<1>3. QED BY <1>2

LEMMA DepositKeeps ==
    ASSUME PoolIInv, initialized, NEW u \in Users, NEW amount \in [Side -> Int],
           Deposit(u, amount)
    PROVE  Kept
<1> DEFINE r == [s \in Side |-> reserve[s] + amount[s]]
<1>1. /\ \A s \in Side : amount[s] > 0 /\ TransferOk(held[s], u, amount[s])
      /\ held' = [s \in Side |-> Moved(held[s], u, Pool, amount[s])]
      /\ SetReserves(r)
      /\ UNCHANGED <<initialized, feeTier, fees, now>>
  BY DEF Deposit
<1>2. /\ held' \in [Side -> [Address -> Nat]]
      /\ \A s \in Side : /\ amount[s] \in Nat
                         /\ held'[s][Pool] = held[s][Pool] + amount[s]
  BY <1>1, TokensIn
<1>3. /\ r \in [Side -> Nat]
      /\ \A s \in Side : r[s] <= held'[s][Pool]
  BY <1>2, Books
<1>4. reserve' = r /\ \A s \in Side : r[s] <= I128Max
  BY <1>1, ReservesSet
<1>5. /\ r["a"] = reserve["a"] + amount["a"] /\ r["b"] = reserve["b"] + amount["b"]
      /\ reserve["a"] \in Nat /\ reserve["b"] \in Nat
      /\ amount["a"] \in Nat /\ amount["b"] \in Nat
  BY <1>2, Books DEF Side
<1> HIDE DEF r
<1>6. CASE /\ lpSupply = 0
           /\ FirstSharesOk(K(amount))
           /\ \E root \in 0..K(amount) :
                 /\ IsIntegerSqrt(root, K(amount))
                 /\ Mint(Pool, u, root - MinimumLiquidity)
  <2>1. K(amount) \in Nat
    BY <1>5 DEF K
  <2>2. /\ LpTypeOK' /\ UNCHANGED <<lpAdmin, lpMinter>> /\ lpMinter # NoAddress
        /\ lpSupply' \in Nat /\ lpSupply' > 0 /\ lpSupply' * lpSupply' <= K(amount)
    BY <1>6, <2>1, FirstMint DEF IsIntegerSqrt
  <2>3. K(amount) <= K(r)
    <3>1. amount["a"] <= r["a"] /\ amount["b"] <= r["b"]
      BY <1>5
    <3>2. PICK x \in Nat, y \in Nat, x1 \in Nat, y1 \in Nat :
             /\ x = amount["a"] /\ y = amount["b"] /\ x1 = r["a"] /\ y1 = r["b"]
      BY <1>5
    <3>3. x * y <= x1 * y1
      BY <3>1, <3>2, ProductsCompare
    <3>4. QED BY <3>2, <3>3 DEF K
  <2>4. lpSupply' * lpSupply' <= K(r)
    <3>1. /\ K(r) \in Nat
          /\ \A n \in Nat : n * n \in Nat
      BY <1>5 DEF K
    <3>2. QED BY <2>1, <2>2, <2>3, <3>1
  <2>5. Vault!VaultNext
    <3>1. Vault!FirstDeposit
      BY <1>4, <1>6, <2>2, <2>4 DEF Vault!FirstDeposit, Vault!Product, K
    <3>2. QED
      BY <1>3, <1>4, <2>2, <3>1 DEF Vault!VaultNext, Vault!Sides, Side
  <2>6. lpAdmin = NoAddress => lpSupply' = 0
    BY <2>2, Books
  <2>7. fees' \in [Side -> Nat]
    BY <1>1 DEF PoolIInv, PoolInv, Unpriced, TypeOK
  <2>8. QED
    BY <1>1, <1>2, <1>3, <2>2, <2>4, <2>5, <2>6, <2>7, BooksKept
<1>7. CASE /\ lpSupply # 0
           /\ ProRataSharesOk(amount["a"], amount["b"],
                              reserve["a"], reserve["b"], lpSupply)
           /\ Mint(Pool, u, ProRataShares(amount["a"], amount["b"],
                                          reserve["a"], reserve["b"], lpSupply))
  <2>1. reserve["a"] + amount["a"] <= I128Max /\ reserve["b"] + amount["b"] <= I128Max
    BY <1>4, <1>5 DEF Side
  <2>2. /\ LpTypeOK' /\ UNCHANGED <<lpAdmin, lpMinter>> /\ lpMinter # NoAddress
        /\ lpSupply' \in Nat /\ lpSupply' > lpSupply
        /\ reserve["a"] * lpSupply' <= r["a"] * lpSupply
        /\ reserve["b"] * lpSupply' <= r["b"] * lpSupply
        /\ lpSupply' * lpSupply' <= r["a"] * r["b"]
    BY <1>5, <1>7, <2>1, LaterMint
  <2>3. Vault!VaultNext
    <3>1. Vault!KeepsEachShare
      <4>1. /\ r["a"] * lpSupply \in Nat /\ reserve["a"] * lpSupply' \in Nat
            /\ r["b"] * lpSupply \in Nat /\ reserve["b"] * lpSupply' \in Nat
        BY <1>5, <2>2, Books
      <4>2. QED BY <1>4, <2>2, <4>1 DEF Vault!KeepsEachShare, Vault!Sides
    <3>2. Vault!LaterDeposit
      BY <1>7, <2>2, <3>1, Books DEF Vault!LaterDeposit
    <3>3. QED
      BY <1>3, <1>4, <2>2, <3>2 DEF Vault!VaultNext, Vault!Sides, Side
  <2>4. lpSupply' * lpSupply' <= K(r)
    BY <2>2 DEF K
  <2>5. lpAdmin = NoAddress => lpSupply' = 0
    BY <2>2, Books
  <2>6. fees' \in [Side -> Nat]
    BY <1>1 DEF PoolIInv, PoolInv, Unpriced, TypeOK
  <2>7. QED
    BY <1>1, <1>2, <1>3, <2>2, <2>3, <2>4, <2>5, <2>6, BooksKept
<1>8. QED BY <1>6, <1>7 DEF Deposit

LEMMA AddLiquidityKeeps ==
    ASSUME PoolIInv, NEW u \in Users, NEW desired \in [Side -> Int],
           NEW minimum, NEW deadline, AddLiquidity(u, desired, minimum, deadline)
    PROVE  Kept
<1>1. initialized
  BY DEF AddLiquidity
<1>2. CASE Deposit(u, desired)
  BY <1>1, <1>2, DepositKeeps
<1>3. ASSUME NEW n \in Int, NEW s \in Side, Deposit(u, [desired EXCEPT ![s] = n])
      PROVE  Kept
  <2>1. [desired EXCEPT ![s] = n] \in [Side -> Int]
    OBVIOUS
  <2>2. QED BY <1>1, <1>3, <2>1, DepositKeeps
<1>4. "a" \in Side /\ "b" \in Side
  BY DEF Side
<1>5. CASE /\ reserve["a"] # 0
           /\ Deposit(u, [desired EXCEPT !["b"] =
                             (desired["a"] * reserve["b"]) \div reserve["a"]])
  <2>1. (desired["a"] * reserve["b"]) \div reserve["a"] \in Int
    BY <1>4, <1>5, Books
  <2>2. QED BY <1>3, <1>4, <1>5, <2>1
<1>6. CASE /\ reserve["b"] # 0
           /\ Deposit(u, [desired EXCEPT !["a"] =
                             (desired["b"] * reserve["a"]) \div reserve["b"]])
  <2>1. (desired["b"] * reserve["a"]) \div reserve["b"] \in Int
    BY <1>4, <1>6, Books
  <2>2. QED BY <1>3, <1>4, <1>6, <2>1
<1>7. QED BY <1>2, <1>5, <1>6 DEF AddLiquidity

LEMMA RemoveLiquidityKeeps ==
    ASSUME PoolIInv, NEW u \in Users, NEW n \in Int, NEW minimum, NEW deadline,
           RemoveLiquidity(u, n, minimum, deadline)
    PROVE  Kept
<1> DEFINE amount == [s \in Side |-> ShareOf(n, lpSupply, reserve[s])]
           r == [s \in Side |-> reserve[s] - amount[s]]
<1>1. /\ initialized
      /\ lpSupply > 0 /\ n > 0 /\ n <= lpSupply
      /\ \A s \in Side : TransferOk(held[s], Pool, amount[s])
      /\ held' = [s \in Side |-> Moved(held[s], Pool, u, amount[s])]
      /\ SetReserves(r)
      /\ Burn(Pool, u, n)
      /\ UNCHANGED <<initialized, feeTier, fees, now>>
  BY DEF RemoveLiquidity, RemoveLiquidityOk, Redeemed, LiquidityRatioOk
<1>2. u \in Address /\ u # Pool /\ Pool \in Address /\ n \in Nat /\ lpSupply \in Nat
  BY <1>1, Books
<1>3. \A s \in Side : /\ amount[s] \in 0..reserve[s]
                      /\ reserve[s] * (lpSupply - n)
                             <= (reserve[s] - amount[s]) * lpSupply
  <2> SUFFICES ASSUME NEW s \in Side
               PROVE  /\ ShareOf(n, lpSupply, reserve[s]) \in 0..reserve[s]
                      /\ reserve[s] * (lpSupply - n)
                          <= (reserve[s] - ShareOf(n, lpSupply, reserve[s]))
                                 * lpSupply
    OBVIOUS
  <2>1. reserve[s] \in Nat
    BY Books
  <2>2. QED BY <1>1, <1>2, <2>1, ShareOfFair
<1>4. \A s \in Side : amount[s] \in Int
  BY <1>3, Books
<1> HIDE DEF amount
<1>5. /\ r \in [Side -> Nat]
      /\ \A s \in Side : r[s] = reserve[s] - amount[s]
  BY <1>3, Books
<1>6. \A s \in Side : /\ held'[s] \in [Address -> Nat]
                      /\ held'[s][Pool] = held[s][Pool] - amount[s]
  <2> SUFFICES ASSUME NEW s \in Side
               PROVE  /\ held'[s] \in [Address -> Nat]
                      /\ held'[s][Pool] = held[s][Pool] - amount[s]
    OBVIOUS
  <2>1. held'[s] = Moved(held[s], Pool, u, amount[s])
    BY <1>1
  <2>2. TransferOk(held[s], Pool, amount[s]) /\ held[s] \in [Address -> Nat]
    BY <1>1, Books
  <2>3. QED BY <1>2, <1>4, <2>1, <2>2, MovedTyped
<1>7. held' \in [Side -> [Address -> Nat]]
  BY <1>1, <1>6
<1>8. \A s \in Side : r[s] <= held'[s][Pool]
  <2> SUFFICES ASSUME NEW s \in Side PROVE r[s] <= held'[s][Pool]
    OBVIOUS
  <2>1. /\ r[s] = reserve[s] - amount[s]
        /\ held'[s][Pool] = held[s][Pool] - amount[s]
        /\ reserve[s] <= held[s][Pool] /\ reserve[s] \in Nat
        /\ held[s][Pool] \in Nat /\ amount[s] \in Int
    BY <1>2, <1>4, <1>5, <1>6, Books
  <2>2. QED BY <2>1
<1>9. reserve' = r
  BY <1>1, ReservesSet
<1> HIDE DEF r
<1>10. /\ lpSupply - n \in Nat /\ lpSupply - n \in I128 /\ n \in I128
  BY <1>1, <1>2, Books, I128MaxAssumption DEF I128
<1>11. lpSupply' = lpSupply - n
  BY <1>1, <1>10, NoWrap DEF Burn
<1>12. LpTypeOK' /\ UNCHANGED <<lpAdmin, lpMinter>> /\ lpMinter # NoAddress
  BY <1>1, <1>2, <1>10, Books, BurnTyped DEF Burn, BurnOk
<1>13. /\ reserve["a"] * lpSupply' <= r["a"] * lpSupply
       /\ reserve["b"] * lpSupply' <= r["b"] * lpSupply
  BY <1>3, <1>5, <1>11 DEF Side
<1>14. lpSupply' * lpSupply' <= K(r)
  <2>1. PICK x \in Nat, y \in Nat, s \in Nat, x1 \in Nat, y1 \in Nat, s1 \in Nat :
           /\ x = reserve["a"] /\ y = reserve["b"] /\ s = lpSupply
           /\ x1 = r["a"] /\ y1 = r["b"] /\ s1 = lpSupply'
    BY <1>2, <1>5, <1>10, <1>11, Books DEF Side
  <2>2. s > 0 /\ s * s <= x * y /\ x * s1 <= x1 * s /\ y * s1 <= y1 * s
    BY <1>1, <1>13, <2>1, Books
  <2>3. s1 * s1 <= x1 * y1
    BY <2>2, BackingScales
  <2>4. QED BY <2>1, <2>3 DEF K
<1>15. Vault!VaultNext
  <2>1. Vault!KeepsEachShare
    <3>1. /\ r["a"] * lpSupply \in Nat /\ reserve["a"] * lpSupply' \in Nat
          /\ r["b"] * lpSupply \in Nat /\ reserve["b"] * lpSupply' \in Nat
      BY <1>2, <1>5, <1>10, <1>11, Books DEF Side
    <3>2. QED BY <1>9, <1>13, <3>1 DEF Vault!KeepsEachShare, Vault!Sides
  <2>2. lpSupply' < lpSupply
    BY <1>1, <1>2, <1>11
  <2>3. Vault!Withdrawal
    BY <2>1, <2>2 DEF Vault!Withdrawal
  <2>4. QED
    BY <1>5, <1>9, <1>10, <1>11, <2>3 DEF Vault!VaultNext, Vault!Sides, Side
<1>16. lpAdmin = NoAddress => lpSupply' = 0
  BY <1>12, Books
<1>17. fees' \in [Side -> Nat]
  BY <1>1 DEF PoolIInv, PoolInv, Unpriced, TypeOK
<1>18. lpSupply' \in Nat
  BY <1>10, <1>11
<1>19. QED
  BY <1>1, <1>5, <1>7, <1>8, <1>12, <1>14, <1>15, <1>16, <1>17, <1>18, BooksKept

\* Reserves whose product does not fall, with no share minted or burned.
LEMMA ExchangeKeeps ==
    ASSUME PoolIInv, initialized,
           UNCHANGED <<initialized, feeTier, now, lpVars>>,
           fees' \in [Side -> Nat],
           held' \in [Side -> [Address -> Nat]],
           NEW r \in [Side -> Nat], SetReserves(r),
           \A s \in Side : r[s] <= held'[s][Pool],
           K(reserve) <= K(r)
    PROVE  Kept
<1>1. reserve' = r
  BY ReservesSet
<1>2. /\ LpTypeOK' /\ lpSupply' = lpSupply /\ lpSupply \in Nat
      /\ UNCHANGED <<lpAdmin, lpMinter>>
  BY Books DEF LpTypeOK, lpVars
<1>3. lpSupply' * lpSupply' <= K(r)
  <2>1. PICK s \in Nat, k \in Nat, k1 \in Nat :
           s = lpSupply /\ k = K(reserve) /\ k1 = K(r) /\ s * s <= k
    BY <1>2, Books DEF K, Side
  <2>2. s * s \in Nat
    OBVIOUS
  <2>3. s * s <= k1
    BY <2>1, <2>2
  <2>4. QED BY <1>2, <2>1, <2>3
<1>4. Vault!VaultNext
  <2>1. Vault!Exchange
    <3>1. K(reserve) \in Nat /\ K(r) \in Nat
      BY Books DEF K, Side
    <3>2. QED BY <1>1, <1>2, <3>1 DEF Vault!Exchange, Vault!Product, K
  <2>2. QED BY <1>1, <1>2, <2>1 DEF Vault!VaultNext, Vault!Sides, Side
<1>5. lpAdmin = NoAddress => lpSupply' = 0
  BY <1>2 DEF PoolIInv, PoolInv, Unpriced
<1>6. QED BY <1>2, <1>3, <1>4, <1>5, BooksKept

\* The tail of the two swaps keeps the books, whatever the price.
LEMMA TradeKeeps ==
    ASSUME PoolIInv, initialized, NEW u \in Users, NEW h \in Address,
           NEW s \in Side, NEW in \in Nat, NEW out \in 0..reserve[Other(s)],
           Trade(u, s, in, out, h),
           reserve[s] * reserve[Other(s)]
               <= (reserve[s] + in) * (reserve[Other(s)] - out)
    PROVE  Kept
<1> DEFINE o == Other(s)
           r == [reserve EXCEPT ![s] = @ + in, ![o] = @ - out]
<1>1. /\ TransferOk(held[s], u, in)
      /\ TransferOk(held[o], Pool, out)
      /\ held' = [held EXCEPT ![s] = Moved(@, u, Pool, in),
                              ![o] = Moved(@, Pool, h, out)]
      /\ fees' = [fees EXCEPT ![s] = fees[s] + ProtocolFee(in, feeTier, ProtocolFeeBps)]
      /\ SetReserves(r)
      /\ UNCHANGED <<initialized, feeTier, now, lpVars>>
  BY DEF Trade, TradeOk, TradedReserves, FeesAfter
<1>2. o \in Side /\ o # s /\ Side = {s, o}
  BY DEF Other, Side
<1>3. /\ u \in Address /\ u # Pool /\ Pool \in Address
      /\ reserve[s] \in Nat /\ reserve[o] \in Nat
      /\ held[s] \in [Address -> Nat] /\ held[o] \in [Address -> Nat]
      /\ reserve[s] <= held[s][Pool] /\ reserve[o] <= held[o][Pool]
      /\ reserve \in [Side -> Nat] /\ held \in [Side -> [Address -> Nat]]
      /\ fees \in [Side -> Nat]
  BY <1>2, Books DEF PoolIInv, PoolInv, Unpriced, TypeOK
<1>4. fees' \in [Side -> Nat]
  <2>1. ProtocolFee(in, feeTier, ProtocolFeeBps) \in Nat
    BY Books, ProtocolFeeNatural
  <2>2. QED BY <1>1, <1>3, <2>1
<1>5. r \in [Side -> Nat] /\ r[s] = reserve[s] + in /\ r[o] = reserve[o] - out
  BY <1>2, <1>3
<1>6. /\ held'[s] = Moved(held[s], u, Pool, in)
      /\ held'[o] = Moved(held[o], Pool, h, out)
  BY <1>1, <1>2, <1>3
<1>7. held'[s] \in [Address -> Nat] /\ held'[s][Pool] = held[s][Pool] + in
  BY <1>1, <1>3, <1>6, MovedTyped, SMTT(30)
<1>8. /\ held'[o] \in [Address -> Nat]
      /\ held'[o][Pool] >= held[o][Pool] - out
  <2>1. out \in Nat /\ held[o][Pool] \in Nat
    BY <1>3
  <2>2. CASE h = Pool
    <3>1. held'[o] = held[o]
      BY <1>1, <1>3, <1>6, <2>1, <2>2, MovedTyped
    <3>2. QED BY <1>3, <2>1, <3>1
  <2>3. CASE h # Pool
    <3>1. /\ Moved(held[o], Pool, h, out) \in [Address -> Nat]
          /\ Moved(held[o], Pool, h, out)[Pool] = held[o][Pool] - out
      <4>1. PICK f \in [Address -> Nat] : f = held[o]
        BY <1>3
      <4>2. TransferOk(f, Pool, out) /\ out \in Int /\ Pool # h
        BY <1>1, <2>1, <2>3, <4>1
      <4>3. /\ Moved(f, Pool, h, out) \in [Address -> Nat]
            /\ Moved(f, Pool, h, out)[Pool] = f[Pool] - out
        BY <1>3, <4>2, MovedTyped
      <4>4. QED BY <4>1, <4>3
    <3>2. QED BY <1>6, <2>1, <3>1
  <2>4. QED BY <2>2, <2>3
<1>9. held' \in [Side -> [Address -> Nat]]
  <2>1. Moved(held[s], u, Pool, in) \in [Address -> Nat]
    BY <1>6, <1>7
  <2>2. Moved(held[o], Pool, h, out) \in [Address -> Nat]
    BY <1>6, <1>8
  <2>3. QED BY <1>1, <1>2, <1>3, <2>1, <2>2
<1>10. \A t \in Side : r[t] <= held'[t][Pool]
  <2>1. r[s] <= held'[s][Pool]
    BY <1>3, <1>5, <1>7
  <2>2. r[o] <= held'[o][Pool]
    BY <1>3, <1>5, <1>8
  <2>3. QED BY <1>2, <2>1, <2>2
<1>11. K(reserve) <= K(r)
  <2>1. /\ reserve["a"] * reserve["b"] = reserve[s] * reserve[o]
        /\ r["a"] * r["b"] = r[s] * r[o]
    <3>1. CASE s = "a"
      BY <3>1 DEF Other
    <3>2. CASE s = "b"
      <4>1. \A x, y \in Nat : x * y = y * x
        OBVIOUS
      <4>2. o = "a"
        BY <3>2 DEF Other
      <4>3. QED BY <1>2, <1>3, <1>5, <3>2, <4>1, <4>2
    <3>3. QED BY <3>1, <3>2 DEF Side
  <2>2. QED BY <1>5, <2>1 DEF K
<1> HIDE DEF r
<1>12. QED BY <1>1, <1>4, <1>5, <1>9, <1>10, <1>11, ExchangeKeeps

LEMMA SwapExactInKeeps ==
    ASSUME PoolIInv, NEW u \in Users, NEW n \in Int, NEW outMin,
           NEW s \in Side, NEW h \in Address, NEW deadline,
           SwapExactIn(u, n, outMin, s, h, deadline)
    PROVE  Kept
<1>0. PICK x \in Nat, y \in Nat : x = reserve[s] /\ y = reserve[Other(s)]
  BY Books DEF Side, Other
<1>1. PICK out : out = AmountOut(n, x, y, feeTier)
  OBVIOUS
<1>2. initialized /\ AmountOutOk(n, x, y, feeTier) /\ Trade(u, s, n, out, h)
  BY <1>0, <1>1 DEF SwapExactIn, SwapExactInOk, Quote, QuoteOk, SwapServable
<1>3. n \in Nat
  BY <1>2 DEF AmountOutOk
<1>4. out \in 0..y /\ x * y <= (x + n) * (y - out)
  BY <1>1, <1>2, Books, AmountOutFair
<1>5. QED BY <1>0, <1>2, <1>3, <1>4, TradeKeeps

LEMMA SwapExactOutKeeps ==
    ASSUME PoolIInv, NEW u \in Users, NEW n \in Int, NEW inMax,
           NEW s \in Side, NEW h \in Address, NEW deadline,
           SwapExactOut(u, n, inMax, s, h, deadline)
    PROVE  Kept
<1>0. PICK x \in Nat, y \in Nat : x = reserve[s] /\ y = reserve[Other(s)]
  BY Books DEF Side, Other
<1>1. PICK in : in = AmountIn(n, x, y, feeTier)
  OBVIOUS
<1>2. initialized /\ AmountInOk(n, x, y, feeTier) /\ Trade(u, s, in, n, h)
  BY <1>0, <1>1 DEF SwapExactOut, SwapServable
<1>3. in \in Nat /\ n \in 0..y /\ x * y <= (x + in) * (y - n)
  BY <1>1, <1>2, Books, AmountInFair
<1>4. QED BY <1>0, <1>2, <1>3, TradeKeeps

\* A flash swap ends with the pool's balances as its reserves; their product is
\* no less than before, and before they were no less than the reserves.
LEMMA FlashSwapKeeps ==
    ASSUME PoolIInv, NEW u \in Users, NEW out \in [Side -> Int],
           NEW repaid \in [Side -> Int], FlashSwap(out, u, repaid)
    PROVE  Kept
<1> DEFINE sent == [s \in Side |-> IF out[s] > 0 THEN out[s] ELSE 0]
           r == [s \in Side |-> PoolBalance[s] - sent[s] + repaid[s]]
<1>1. /\ initialized
      /\ \A s \in Side : /\ out[s] <= PoolBalance[s]
                         /\ repaid[s] \in 0..(held[s][u] + sent[s])
      /\ held' = [s \in Side |-> Moved(Moved(held[s], Pool, u, sent[s]),
                                       u, Pool, repaid[s])]
      /\ K(r) >= K(PoolBalance)
      /\ SetReserves(r)
      /\ UNCHANGED <<initialized, feeTier, fees, now, lpVars>>
  BY DEF FlashSwap
<1>2. u \in Address /\ u # Pool /\ Pool \in Address
  BY Books
<1>3. \A s \in Side : /\ sent[s] \in Nat /\ sent[s] <= held[s][Pool]
                      /\ PoolBalance[s] = held[s][Pool]
                      /\ held[s] \in [Address -> Nat]
                      /\ repaid[s] \in 0..(held[s][u] + sent[s])
                      /\ r[s] = held[s][Pool] - sent[s] + repaid[s]
  BY <1>1, <1>2, Books DEF PoolBalance
<1>4. \A s \in Side : /\ held'[s] = Moved(Moved(held[s], Pool, u, sent[s]),
                                          u, Pool, repaid[s])
                      /\ repaid[s] \in Int /\ sent[s] \in Int
  BY <1>1, <1>3
<1>5. r \in [Side -> Int]
  BY <1>2, <1>3, <1>4
<1> HIDE DEF sent, r
<1>6. ASSUME NEW s \in Side
      PROVE  /\ held'[s] \in [Address -> Nat]
             /\ held'[s][Pool] = r[s]
  <2>0. PICK f \in [Address -> Nat], n \in Nat, m \in Nat :
           f = held[s] /\ n = sent[s] /\ m = repaid[s]
    BY <1>2, <1>3
  <2>1. PICK g : g = Moved(f, Pool, u, n)
    OBVIOUS
  <2>2. n <= f[Pool] /\ m <= f[u] + n /\ r[s] = f[Pool] - n + m
    BY <1>2, <1>3, <2>0
  <2>3. TransferOk(f, Pool, n)
    BY <1>2, <2>0, <2>2 DEF TransferOk
  <2>4. /\ g \in [Address -> Nat] /\ g[Pool] = f[Pool] - n /\ g[u] = f[u] + n
    BY <1>2, <2>1, <2>3, MovedTyped
  <2>5. TransferOk(g, u, m)
    BY <1>2, <2>1, <2>2, <2>4 DEF TransferOk
  <2>6. /\ Moved(g, u, Pool, m) \in [Address -> Nat]
        /\ Moved(g, u, Pool, m)[Pool] = g[Pool] + m
    BY <1>2, <2>4, <2>5, MovedTyped
  <2>7. held'[s] = Moved(g, u, Pool, m)
    BY <1>4, <2>0, <2>1
  <2>8. QED BY <2>2, <2>4, <2>6, <2>7
<1>7. held' \in [Side -> [Address -> Nat]]
  BY <1>1, <1>6
<1>8. r \in [Side -> Nat] /\ \A s \in Side : r[s] <= held'[s][Pool]
  <2>1. \A s \in Side : r[s] \in Nat
    BY <1>2, <1>6
  <2>2. QED BY <1>5, <1>6, <2>1
<1>9. K(reserve) <= K(r)
  <2>1. PICK x \in Nat, y \in Nat, x1 \in Nat, y1 \in Nat, k \in Nat :
           /\ x = reserve["a"] /\ y = reserve["b"]
           /\ x1 = held["a"][Pool] /\ y1 = held["b"][Pool]
           /\ k = K(r) /\ x <= x1 /\ y <= y1
    <3>1. \A s \in Side : /\ reserve[s] \in Nat /\ held[s][Pool] \in Nat
                          /\ reserve[s] <= held[s][Pool]
      BY <1>2, Books
    <3>2. r["a"] \in Nat /\ r["b"] \in Nat
      BY <1>8 DEF Side
    <3>3. K(r) \in Nat
      BY <3>2 DEF K
    <3>4. QED BY <3>1, <3>3 DEF Side
  <2>2. x * y <= x1 * y1
    BY <2>1, ProductsCompare
  <2>3. K(PoolBalance) = x1 * y1 /\ K(reserve) = x * y
    BY <1>3, <2>1 DEF K, Side
  <2>4. x1 * y1 <= k
    BY <1>1, <2>1, <2>3
  <2>5. x * y \in Nat /\ x1 * y1 \in Nat
    OBVIOUS
  <2>6. x * y <= k
    BY <2>2, <2>4, <2>5
  <2>7. QED BY <2>1, <2>3, <2>6
<1>10. fees' \in [Side -> Nat]
  BY <1>1 DEF PoolIInv, PoolInv, Unpriced, TypeOK
<1>11. QED BY <1>1, <1>7, <1>8, <1>9, <1>10, ExchangeKeeps

\* The fees go from the pool to the pool.
LEMMA CollectProtocolFeesKeeps ==
    ASSUME PoolIInv, NEW h \in Address, CollectProtocolFees(h)
    PROVE  Kept
<1>1. /\ h = Pool /\ initialized
      /\ \A s \in Side : TransferOk(held[s], Pool, fees[s])
      /\ held' = [s \in Side |-> Moved(held[s], Pool, Pool, fees[s])]
      /\ fees' = [s \in Side |-> 0]
      /\ UNCHANGED <<initialized, feeTier, reserve, lastTime, priceAcc,
                     now, lpVars>>
  BY DEF CollectProtocolFees
<1>2. held' = held
  <2>1. ASSUME NEW s \in Side
        PROVE  Moved(held[s], Pool, Pool, fees[s]) = held[s]
    <3>1. /\ fees[s] \in Int /\ held[s] \in [Address -> Nat] /\ Pool \in Address
          /\ TransferOk(held[s], Pool, fees[s])
      BY <1>1, Books
    <3>2. QED BY <3>1, MovedTyped
  <2>2. held \in [Side -> [Address -> Nat]]
    BY DEF PoolIInv, PoolInv, Unpriced, TypeOK
  <2>3. QED BY <1>1, <2>1, <2>2
<1>3. fees' \in [Side -> Nat]
  BY <1>1
<1>4. TypeOK'
  BY <1>1, <1>2, <1>3 DEF PoolIInv, PoolInv, Unpriced, TypeOK, LpTypeOK, lpVars
<1>5. \A s \in Side : held'[s][Pool] >= held[s][Pool]
  BY <1>2, PoolAssumption DEF PoolIInv, PoolInv, Unpriced, TypeOK
<1>6. lpAdmin' = NoAddress => lpMinter' = NoAddress /\ lpSupply' = 0
  BY <1>1 DEF PoolIInv, PoolInv, Unpriced, lpVars
<1>7. QED BY <1>1, <1>4, <1>5, <1>6, BooksUntouched DEF lpVars

\* Calls of the share token that holders and its admin make.
LEMMA LpOperationKeeps ==
    ASSUME PoolIInv, LpOperation
    PROVE  Kept
<1>1. UNCHANGED <<poolVars, held, now>>
  BY DEF LpOperation
<1>2. Pool \in Address /\ Users \subseteq Address /\ 0 \in I128 /\ LpTypeOK
  BY Books, I128MaxAssumption DEF I128
<1>3. LpTypeOK' /\ lpSupply' = lpSupply
        /\ (lpAdmin' = NoAddress => lpMinter' = NoAddress)
  <2>1. CASE \E u \in Users : Initialize(u)
    <3>1. PICK u \in Users : Initialize(u)
      BY <2>1
    <3>2. LpTypeOK'
      BY <1>2, <3>1, HolderCallsTyped
    <3>3. lpSupply' = lpSupply /\ lpAdmin' # NoAddress
      BY <1>2, <3>1, NoAddressAssumption DEF PoolIInv, PoolInv, Unpriced, Initialize
    <3>4. QED BY <3>2, <3>3
  <2>2. CASE \E u \in Users : SetMinter(u, Pool)
    <3>1. PICK u \in Users : SetMinter(u, Pool)
      BY <2>2
    <3>2. LpTypeOK'
      BY <1>2, <3>1, HolderCallsTyped
    <3>3. QED BY <3>1, <3>2 DEF SetMinter
  <2>3. CASE \E u \in Users, h \in Address, n \in Amounts : Transfer(u, h, n)
    <3>1. PICK u \in Users, h \in Address, n \in Amounts : Transfer(u, h, n)
      BY <2>3
    <3>2. LpTypeOK'
      BY <1>2, <3>1, AmountsAssumption, HolderCallsTyped
    <3>3. QED BY <3>1, <3>2 DEF Transfer, PoolIInv, PoolInv, Unpriced
  <2>4. CASE \E u \in Users, h \in Spenders, n \in Amounts : Approve(u, h, n)
    <3>1. PICK u \in Users, h \in Spenders, n \in Amounts : Approve(u, h, n)
      BY <2>4
    <3>2. LpTypeOK'
      BY <1>2, <3>1, PoolAssumption, AmountsAssumption, HolderCallsTyped
    <3>3. QED BY <3>1, <3>2 DEF Approve, PoolIInv, PoolInv, Unpriced
  <2>5. CASE \E u, v \in Users, h \in Address, n \in Amounts :
                TransferFrom(u, v, h, n)
    <3>1. PICK u \in Users, v \in Users, h \in Address, n \in Amounts :
             TransferFrom(u, v, h, n)
      BY <2>5
    <3>2. LpTypeOK'
      BY <1>2, <3>1, AmountsAssumption, HolderCallsTyped
    <3>3. QED BY <3>1, <3>2 DEF TransferFrom, PoolIInv, PoolInv, Unpriced
  <2>6. QED BY <2>1, <2>2, <2>3, <2>4, <2>5 DEF LpOperation
<1>4. TypeOK'
  BY <1>1, <1>3 DEF PoolIInv, PoolInv, Unpriced, TypeOK, poolVars
<1>5. \A s \in Side : held'[s][Pool] >= held[s][Pool]
  BY <1>1, <1>2, Books
<1>6. lpAdmin' = NoAddress => lpMinter' = NoAddress /\ lpSupply' = 0
  <2>1. SUFFICES ASSUME lpAdmin' = NoAddress PROVE lpSupply' = 0
    BY <1>3
  <2>2. lpAdmin = NoAddress
    BY <1>2, <2>1, NoAddressAssumption
       DEF LpOperation, Initialize, SetMinter, Transfer, Approve, TransferFrom
  <2>3. QED BY <1>3, <2>2 DEF PoolIInv, PoolInv, Unpriced
<1>7. QED BY <1>1, <1>3, <1>4, <1>5, <1>6, BooksUntouched DEF poolVars

\* Tokens that move outside the pool's functions never leave the pool.
LEMMA TokenTransferKeeps ==
    ASSUME PoolIInv, NEW s \in Side, NEW u \in Users, NEW h \in Address,
           NEW n \in Int, TokenTransfer(s, u, h, n)
    PROVE  Kept
<1>1. /\ TransferOk(held[s], u, n)
      /\ held' = [held EXCEPT ![s] = Moved(@, u, h, n)]
      /\ UNCHANGED <<poolVars, now, lpVars>>
  BY DEF TokenTransfer
<1>2. /\ Moved(held[s], u, h, n) \in [Address -> Nat]
      /\ Moved(held[s], u, h, n)[Pool] >= held[s][Pool]
  BY <1>1, Books, MovedTyped
<1>3. held \in [Side -> [Address -> Nat]] /\ Pool \in Address
  BY Books DEF PoolIInv, PoolInv, Unpriced, TypeOK
<1>4. TypeOK'
  BY <1>1, <1>2, <1>3 DEF PoolIInv, PoolInv, Unpriced, TypeOK, LpTypeOK, poolVars, lpVars
<1>5. \A t \in Side : held'[t][Pool] >= held[t][Pool]
  BY <1>1, <1>2, <1>3
<1>6. lpAdmin' = NoAddress => lpMinter' = NoAddress /\ lpSupply' = 0
  BY <1>1 DEF PoolIInv, PoolInv, Unpriced, lpVars
<1>7. QED BY <1>1, <1>4, <1>5, <1>6, BooksUntouched DEF poolVars, lpVars

LEMMA TickKeeps ==
    ASSUME PoolIInv, Tick
    PROVE  Kept
<1>1. UNCHANGED <<poolVars, held, lpVars>> /\ now' \in Nat
  BY DEF PoolIInv, PoolInv, Unpriced, TypeOK, Tick
<1>2. TypeOK'
  BY <1>1 DEF PoolIInv, PoolInv, Unpriced, TypeOK, LpTypeOK, poolVars, lpVars
<1>3. \A s \in Side : held'[s][Pool] >= held[s][Pool]
  BY <1>1, Books
<1>4. lpAdmin' = NoAddress => lpMinter' = NoAddress /\ lpSupply' = 0
  BY <1>1 DEF PoolIInv, PoolInv, Unpriced, lpVars
<1>5. QED BY <1>1, <1>2, <1>3, <1>4, BooksUntouched DEF poolVars, lpVars

-----------------------------------------------------------------------------
(***************************************************************************)
(* Every ShareVault keeps its shares backed.  The argument is arithmetic:  *)
(* if neither reserve per share falls, the product of the reserves grows   *)
(* at least with the square of the supply.                                 *)
(***************************************************************************)
\* The reserves and the supply of a vault are natural numbers.
LEMMA VaultTyped == Vault!VaultSpec => [](Vault!VaultTypeOK)
<1>1. Vault!VaultInit => Vault!VaultTypeOK
  BY DEF Vault!VaultInit, Vault!VaultTypeOK, Vault!Sides
<1>2. Vault!VaultTypeOK /\ [Vault!VaultNext]_(Vault!vaultVars) => Vault!VaultTypeOK'
  BY DEF Vault!VaultTypeOK, Vault!VaultNext, Vault!vaultVars
<1>3. QED BY <1>1, <1>2, PTL DEF Vault!VaultSpec

\* LP shares are always backed: whatever a vault does, its supply stays at most
\* the geometric mean of its reserves.
THEOREM VaultBacked == Vault!VaultSpec => [](Vault!SharesBacked)
<1>1. Vault!VaultInit => Vault!SharesBacked
  BY DEF Vault!VaultInit, Vault!SharesBacked, Vault!Product, Vault!Sides
<1>2. Vault!VaultTypeOK /\ Vault!SharesBacked /\ [Vault!VaultNext]_(Vault!vaultVars) => Vault!SharesBacked'
  <2> SUFFICES ASSUME Vault!VaultTypeOK, Vault!SharesBacked, [Vault!VaultNext]_(Vault!vaultVars)
               PROVE  Vault!SharesBacked'
    OBVIOUS
  <2>1. CASE UNCHANGED Vault!vaultVars
    BY <2>1 DEF Vault!vaultVars, Vault!SharesBacked, Vault!Product
  <2> SUFFICES ASSUME Vault!VaultNext PROVE Vault!SharesBacked'
    BY <2>1
  <2>2. /\ reserve["a"] \in Nat /\ reserve["b"] \in Nat /\ lpSupply \in Nat
        /\ reserve'["a"] \in Nat /\ reserve'["b"] \in Nat /\ lpSupply' \in Nat
    BY DEF Vault!VaultTypeOK, Vault!VaultNext, Vault!Sides
  <2>3. CASE Vault!FirstDeposit
    BY <2>3 DEF Vault!FirstDeposit, Vault!SharesBacked, Vault!Product
  <2>4. ASSUME Vault!KeepsEachShare, lpSupply > 0
        PROVE  Vault!SharesBacked'
    <3>1. /\ reserve["a"] * lpSupply' <= reserve'["a"] * lpSupply
          /\ reserve["b"] * lpSupply' <= reserve'["b"] * lpSupply
      BY <2>2, <2>4 DEF Vault!KeepsEachShare, Vault!Sides
    <3>2. lpSupply * lpSupply <= reserve["a"] * reserve["b"]
      BY DEF Vault!SharesBacked, Vault!Product
    <3>3. lpSupply > 0
      BY <2>4
    <3>4. PICK x \in Nat, y \in Nat, s \in Nat, x1 \in Nat, y1 \in Nat, s1 \in Nat :
             /\ x = reserve["a"] /\ y = reserve["b"] /\ s = lpSupply
             /\ x1 = reserve'["a"] /\ y1 = reserve'["b"] /\ s1 = lpSupply'
      BY <2>2
    <3>5. s1 * s1 <= x1 * y1
      <4>1. s > 0 /\ s * s <= x * y /\ x * s1 <= x1 * s /\ y * s1 <= y1 * s
        BY <3>1, <3>2, <3>3, <3>4
      <4>2. QED BY <4>1, BackingScales
    <3>6. QED BY <3>4, <3>5 DEF Vault!SharesBacked, Vault!Product
  <2>5. CASE Vault!LaterDeposit
    BY <2>4, <2>5 DEF Vault!LaterDeposit
  <2>6. CASE Vault!Withdrawal
    BY <2>2, <2>4, <2>6 DEF Vault!Withdrawal
  <2>7. CASE Vault!Exchange
    <3>1. /\ Vault!Product(reserve) \in Nat /\ Vault!Product(reserve') \in Nat
          /\ lpSupply * lpSupply \in Nat
      BY <2>2 DEF Vault!Product
    <3>2. lpSupply' * lpSupply' = lpSupply * lpSupply
      BY <2>7 DEF Vault!Exchange
    <3>3. QED BY <2>7, <3>1, <3>2 DEF Vault!Exchange, Vault!SharesBacked
  <2>8. QED BY <2>3, <2>5, <2>6, <2>7 DEF Vault!VaultNext
<1>3. QED BY <1>1, <1>2, VaultTyped, PTL DEF Vault!VaultSpec

-----------------------------------------------------------------------------
(***************************************************************************)
(* The theorems.                                                           *)
(***************************************************************************)
LEMMA PoolStep == PoolIInv /\ [Next]_vars => Kept
<1> SUFFICES ASSUME PoolIInv, [Next]_vars
             PROVE  Kept
  OBVIOUS
<1> USE DEF Pairs
<1>1. CASE UNCHANGED vars
  <2>1. UNCHANGED <<poolVars, held, now, lpVars>>
    BY <1>1 DEF vars
  <2>2. PoolIInv'
    BY <2>1 DEF PoolIInv, PoolInv, Unpriced, TypeOK, LpTypeOK, K, poolVars, lpVars
  <2>3. QED BY <2>1, <2>2 DEF Kept, Vault!vaultVars, poolVars, lpVars
<1>2. CASE PoolOperation
  <2>1. CASE \E fee \in FeeTiers : InitializePool(fee)
    BY <2>1, InitializePoolKeeps
  <2>2. CASE \E u \in Users, d \in Pairs(TradeAmounts), m \in Pairs(MinAmounts),
                t \in LeadTimes : AddLiquidity(u, d, m, now + t)
    <3>1. PICK u \in Users, d \in Pairs(TradeAmounts), m \in Pairs(MinAmounts),
               t \in LeadTimes : AddLiquidity(u, d, m, now + t)
      BY <2>2
    <3>2. d \in [Side -> Int]
      BY PoolAssumption
    <3>3. QED BY <3>1, <3>2, AddLiquidityKeeps
  <2>3. CASE \E u \in Users, n \in TradeAmounts, m \in Pairs(MinAmounts),
                t \in LeadTimes : RemoveLiquidity(u, n, m, now + t)
    <3>1. PICK u \in Users, n \in TradeAmounts, m \in Pairs(MinAmounts),
               t \in LeadTimes : RemoveLiquidity(u, n, m, now + t)
      BY <2>3
    <3>2. n \in Int
      BY PoolAssumption
    <3>3. QED BY <3>1, <3>2, RemoveLiquidityKeeps
  <2>4. CASE \E u \in Users, n \in TradeAmounts, m \in MinAmounts, s \in Side,
                h \in Address, t \in LeadTimes :
                SwapExactIn(u, n, m, s, h, now + t)
    <3>1. PICK u \in Users, n \in TradeAmounts, m \in MinAmounts, s \in Side,
               h \in Address, t \in LeadTimes :
               SwapExactIn(u, n, m, s, h, now + t)
      BY <2>4
    <3>2. n \in Int
      BY PoolAssumption
    <3>3. QED BY <3>1, <3>2, SwapExactInKeeps
  <2>5. CASE \E u \in Users, n, m \in TradeAmounts, s \in Side,
                h \in Address, t \in LeadTimes :
                SwapExactOut(u, n, m, s, h, now + t)
    <3>1. PICK u \in Users, n \in TradeAmounts, m \in TradeAmounts, s \in Side,
               h \in Address, t \in LeadTimes :
               SwapExactOut(u, n, m, s, h, now + t)
      BY <2>5
    <3>2. n \in Int
      BY PoolAssumption
    <3>3. QED BY <3>1, <3>2, SwapExactOutKeeps
  <2>6. CASE \E u \in Users, o, p \in Pairs(FlashAmounts) : FlashSwap(o, u, p)
    <3>1. PICK u \in Users, o \in Pairs(FlashAmounts), p \in Pairs(FlashAmounts) :
               FlashSwap(o, u, p)
      BY <2>6
    <3>2. o \in [Side -> Int] /\ p \in [Side -> Int]
      BY PoolAssumption
    <3>3. QED BY <3>1, <3>2, FlashSwapKeeps
  <2>7. CASE \E h \in Address : CollectProtocolFees(h)
    BY <2>7, CollectProtocolFeesKeeps
  <2>8. QED
    BY <1>2, <2>1, <2>2, <2>3, <2>4, <2>5, <2>6, <2>7 DEF PoolOperation
<1>3. CASE LpOperation
  BY <1>3, LpOperationKeeps
<1>4. CASE \E s \in Side, u \in Users, h \in Address, n \in TradeAmounts :
              TokenTransfer(s, u, h, n)
  <2>1. PICK s \in Side, u \in Users, h \in Address, n \in TradeAmounts :
             TokenTransfer(s, u, h, n)
    BY <1>4
  <2>2. n \in Int
    BY PoolAssumption
  <2>3. QED BY <2>1, <2>2, TokenTransferKeeps
<1>5. CASE Tick
  BY <1>5, TickKeeps
<1>6. QED BY <1>1, <1>2, <1>3, <1>4, <1>5 DEF Next

LEMMA PoolIInvariant == Spec => []PoolIInv
<1>1. Init => PoolIInv
  <2> SUFFICES ASSUME Init PROVE PoolIInv
    OBVIOUS
  <2>1. LpTypeOK /\ lpSupply = 0 /\ lpMinter = NoAddress
    BY I128MaxAssumption DEF Init, LpInit, LpTypeOK, I128
  <2>2. held \in [Side -> [Address -> Nat]]
    BY PoolAssumption DEF Init
  <2>3. /\ reserve \in [Side -> Nat] /\ fees \in [Side -> Nat]
        /\ priceAcc \in [Side -> Nat] /\ now \in Nat /\ lastTime = NoTime
        /\ initialized \in BOOLEAN
        /\ \A s \in Side : reserve[s] = 0
    BY DEF Init
  <2>4. feeTier \in 0..FeeDenominator
    BY FeeDenominatorAssumption DEF Init
  <2>5. TypeOK
    BY <2>1, <2>2, <2>3, <2>4 DEF TypeOK
  <2>6. \A s \in Side : reserve[s] <= held[s][Pool] /\ reserve[s] <= I128Max
    BY <2>2, <2>3, PoolAssumption, I128MaxAssumption
  <2>7. lpSupply * lpSupply <= K(reserve)
    BY <2>1, <2>3 DEF K, Side
  <2>8. QED
    BY <2>1, <2>3, <2>5, <2>6, <2>7 DEF PoolIInv, PoolInv, Unpriced
<1>2. PoolIInv /\ [Next]_vars => PoolIInv'
  BY PoolStep DEF Kept
<1>3. QED BY <1>1, <1>2, PTL DEF Spec

\* PoolInv holds in every reachable state: the books of the pool are in order
\* for every number of users and every amount.
THEOREM PoolInvariant == Spec => []PoolInv
<1>1. PoolIInv => PoolInv
  BY DEF PoolIInv
<1>2. QED BY <1>1, PoolIInvariant, PTL

\* The pool, its share token and its tokens together implement ShareVault.
THEOREM PoolRefinesVault == Spec => PoolImplementsVault
<1>1. Init => Vault!VaultInit
  BY DEF Init, LpInit, Vault!VaultInit, Vault!Sides, Side
<1>2. PoolIInv /\ [Next]_vars => [Vault!VaultNext]_(Vault!vaultVars)
  BY PoolStep DEF Kept
<1>3. QED
  BY <1>1, <1>2, PoolIInvariant, PTL DEF Spec, PoolImplementsVault, Vault!VaultSpec

\* What the pool stores keeps its type: no balance, reserve or fee turns
\* negative and the share token's sums never leave i128.
THEOREM PoolTyped == Spec => []TypeOK
<1>1. PoolIInv => TypeOK
  BY DEF PoolIInv, PoolInv, Unpriced
<1>2. QED BY <1>1, PoolIInvariant, PTL

\* The LP supply never exceeds the geometric mean of the reserves.
THEOREM PoolSharesBacked == Spec => []SharesBacked
<1>1. PoolIInv => SharesBacked
  BY DEF PoolIInv, PoolInv, Unpriced, SharesBacked, Vault!SharesBacked, Vault!Product, K
<1>2. QED BY <1>1, PoolIInvariant, PTL

\* The reserves the pool prices with are tokens it holds.
THEOREM PoolSolvent == Spec => []Solvent
<1>1. PoolIInv => Solvent
  BY DEF PoolIInv, PoolInv, Unpriced, Solvent
<1>2. QED BY <1>1, PoolIInvariant, PTL

-----------------------------------------------------------------------------
(***************************************************************************)
(* The balances of the share token.  PoolIInv on both sides of a step says *)
(* that the supply it leaves is a natural inside i128, so the sum that     *)
(* makes it did not wrap; a balance is never more than the supply.         *)
(***************************************************************************)
LEMMA BalanceInSupply ==
    ASSUME PoolIInv, SharesAccounted
    PROVE  /\ \A a \in Address : lpBalance[a] \in Nat /\ lpBalance[a] <= lpSupply
           /\ lpBalance \in [Address -> Int]
           /\ lpSupply \in Nat /\ lpSupply <= I128Max
<1>1. lpBalance \in [Address -> Nat] /\ \A a \in Address : lpBalance[a] \in Nat
  BY DEF SharesAccounted
<1>2. \A a \in Address : lpBalance[a] <= SumFunctionOnSet(lpBalance, Address)
  BY <1>1, AddressAssumption, SumOfNaturals
<1>3. SumFunction(lpBalance) = SumFunctionOnSet(lpBalance, Address)
  <2>1. DOMAIN lpBalance = Address
    BY <1>1
  <2>2. QED BY <2>1, Zenon DEF SumFunction
<1>4. QED BY <1>1, <1>2, <1>3, Books DEF SharesAccounted

\* One balance changes, and the supply by as much.
LEMMA OneBalance ==
    ASSUME SharesAccounted, NEW a \in Address, NEW v \in Nat,
           lpBalance' = [lpBalance EXCEPT ![a] = v],
           lpSupply' = lpSupply - lpBalance[a] + v,
           lpMinter' \in {NoAddress, Pool}, lpMinter' # NoAddress
    PROVE  SharesAccounted'
<1>1. lpBalance \in [Address -> Int] /\ lpBalance' \in [Address -> Nat]
  BY DEF SharesAccounted
<1>2. SumFunction(lpBalance') = SumFunction(lpBalance) - lpBalance[a] + v
  <2>1. SumFunction([lpBalance EXCEPT ![a] = v]) = SumFunction(lpBalance) - lpBalance[a] + v
    <3>1. lpBalance \in [Address -> Int] /\ v \in Int /\ IsFiniteSet(Address)
      BY <1>1, AddressAssumption
    <3>2. QED BY <3>1, SumChanged
  <2>2. QED BY <2>1, Zenon
<1>3. QED BY <1>1, <1>2 DEF SharesAccounted

LEMMA MintAccounted ==
    ASSUME PoolIInv, PoolIInv', SharesAccounted, NEW a \in Address, NEW n \in 1..I128Max,
           Mint(Pool, a, n)
    PROVE  SharesAccounted'
<1> USE I128MaxAssumption
<1>1. /\ lpSupply \in Nat /\ lpSupply <= I128Max
      /\ lpSupply' \in Nat /\ lpSupply' <= I128Max
  <2>1. lpSupply' \in I128 /\ 0 <= lpSupply'
    BY DEF PoolIInv, PoolInv, Unpriced, TypeOK, LpTypeOK
  <2>2. QED BY <2>1, Books DEF I128
<1>2. lpSupply' = Wrap(lpSupply + n)
  BY DEF Mint
<1>3. lpSupply' = lpSupply + n
  BY <1>1, <1>2 DEF Wrap
<1>4. lpBalance[a] \in Nat /\ lpBalance[a] <= lpSupply
  BY BalanceInSupply
<1>5. Wrap(lpBalance[a] + n) = lpBalance[a] + n
  <2>1. lpBalance[a] + n \in I128
    BY <1>1, <1>3, <1>4 DEF I128
  <2>2. QED BY <2>1, NoWrap
<1>6. /\ lpBalance' = [lpBalance EXCEPT ![a] = lpBalance[a] + n]
      /\ lpBalance[a] + n \in Nat
      /\ lpMinter' = lpMinter /\ lpMinter = Pool
  <2>1. lpBalance' = [lpBalance EXCEPT ![a] = Wrap(lpBalance[a] + n)]
    BY Zenon DEF Mint
  <2>2. lpMinter' = lpMinter /\ lpMinter = Pool
    BY DEF Mint
  <2>3. lpBalance' = [lpBalance EXCEPT ![a] = lpBalance[a] + n]
    BY <1>5, <2>1, Zenon
  <2>4. QED BY <1>4, <2>2, <2>3
<1>7. lpSupply' = lpSupply - lpBalance[a] + (lpBalance[a] + n)
  BY <1>1, <1>3, <1>4
<1>8. lpMinter' \in {NoAddress, Pool} /\ lpMinter' # NoAddress
  BY <1>6 DEF Mint
<1>9. QED BY <1>6, <1>7, <1>8, OneBalance

LEMMA BurnAccounted ==
    ASSUME PoolIInv, SharesAccounted, NEW a \in Address, NEW n \in Int,
           Burn(Pool, a, n)
    PROVE  SharesAccounted'
<1>1. /\ lpBalance[a] \in Nat /\ lpBalance[a] <= lpSupply
      /\ lpSupply \in Nat /\ lpSupply <= I128Max
  BY BalanceInSupply
<1>2. n > 0 /\ n <= lpBalance[a] /\ lpMinter # NoAddress
  BY <1>1 DEF Burn, BurnOk
<1>3. lpSupply' = lpSupply - n
  <2>1. lpSupply - n \in I128
    BY <1>1, <1>2, I128MaxAssumption DEF I128
  <2>2. QED BY <2>1, NoWrap DEF Burn
<1>4. /\ lpBalance' = [lpBalance EXCEPT ![a] = lpBalance[a] - n]
      /\ lpMinter' = lpMinter
  BY DEF Burn
<1>5. /\ lpBalance[a] - n \in Nat
      /\ lpSupply' = lpSupply - lpBalance[a] + (lpBalance[a] - n)
  BY <1>1, <1>2, <1>3
<1>6. lpMinter' \in {NoAddress, Pool} /\ lpMinter' # NoAddress
  BY <1>2, <1>4 DEF SharesAccounted
<1>7. QED BY <1>4, <1>5, <1>6, OneBalance

\* Shares that move, also from an address to itself.
LEMMA MoveAccounted ==
    ASSUME PoolIInv, SharesAccounted, NEW a \in Address, NEW b \in Address,
           NEW n \in I128, n > 0, MoveShares(a, b, n),
           lpSupply' = lpSupply, lpMinter' = lpMinter
    PROVE  SharesAccounted'
<1> USE I128MaxAssumption
<1> DEFINE f == [lpBalance EXCEPT ![a] = lpBalance[a] - n]
<1>1. /\ \A c \in Address : lpBalance[c] \in Nat /\ lpBalance[c] <= lpSupply
      /\ lpBalance \in [Address -> Int]
      /\ lpSupply \in Nat /\ lpSupply <= I128Max
  BY BalanceInSupply
<1>2. n \in Nat /\ n <= lpBalance[a]
  BY <1>1 DEF MoveShares, I128
<1>3. f \in [Address -> Nat]
  <2>1. lpBalance[a] - n \in Nat
    BY <1>1, <1>2
  <2>2. QED BY <1>1, <2>1 DEF SharesAccounted
<1>4. SumFunction(f) = lpSupply - n
  <2>1. lpBalance[a] - n \in Int
    BY <1>1, <1>2
  <2>2. SumFunction(f) = SumFunction(lpBalance) - lpBalance[a] + (lpBalance[a] - n)
    BY <1>1, <2>1, AddressAssumption, SumChanged, ZenonT(60)
  <2>3. QED BY <1>1, <1>2, <2>2 DEF SharesAccounted
<1>5. f[b] \in Nat /\ f[b] + n <= lpSupply
  <2>1. f[b] \in Nat /\ f[b] <= SumFunctionOnSet(f, Address)
    <3>1. \A c \in Address : f[c] \in Nat
      BY <1>3
    <3> HIDE DEF f
    <3>2. QED BY <3>1, AddressAssumption, SumOfNaturals
  <2>2. SumFunctionOnSet(f, Address) = SumFunction(f)
    <3>1. DOMAIN f = Address
      BY <1>3
    <3> HIDE DEF f
    <3>2. QED BY <3>1, Zenon DEF SumFunction
  <2> HIDE DEF f
  <2>3. QED BY <1>1, <1>2, <1>4, <2>1, <2>2
<1>6. lpBalance' = [f EXCEPT ![b] = Wrap(f[b] + n)]
  BY DEF MoveShares
<1> HIDE DEF f
<1>7. Wrap(f[b] + n) = f[b] + n
  <2>1. f[b] + n \in I128
    BY <1>1, <1>2, <1>5 DEF I128
  <2>2. QED BY <2>1, NoWrap
<1>8. lpBalance' \in [Address -> Nat]
  BY <1>2, <1>3, <1>5, <1>6, <1>7
<1>9. SumFunction(lpBalance') = SumFunction(f) - f[b] + (f[b] + n)
  <2>1. f \in [Address -> Int] /\ f[b] + n \in Int
    BY <1>2, <1>3, <1>5
  <2>2. SumFunction([f EXCEPT ![b] = f[b] + n]) = SumFunction(f) - f[b] + (f[b] + n)
    BY <2>1, AddressAssumption, SumChanged, ZenonT(60)
  <2>3. lpBalance' = [f EXCEPT ![b] = f[b] + n]
    BY <1>6, <1>7
  <2>4. QED BY <2>2, <2>3, Zenon
<1>10. SumFunction(lpBalance') = lpSupply
  BY <1>1, <1>2, <1>4, <1>5, <1>9
<1>11. QED BY <1>8, <1>10 DEF SharesAccounted

LEMMA SharesUntouched ==
    ASSUME SharesAccounted, UNCHANGED lpVars
    PROVE  SharesAccounted'
BY DEF SharesAccounted, lpVars

LEMMA DepositAccounted ==
    ASSUME PoolIInv, PoolIInv', SharesAccounted, NEW u \in Users,
           NEW amount \in [Side -> Int], Deposit(u, amount)
    PROVE  SharesAccounted'
<1> USE I128MaxAssumption
<1>1. /\ amount["a"] \in Nat /\ amount["b"] \in Nat
      /\ reserve["a"] \in Nat /\ reserve["b"] \in Nat
      /\ u \in Address /\ lpSupply \in Nat
  BY Books DEF Deposit, Side
<1>2. CASE /\ lpSupply = 0
           /\ FirstSharesOk(K(amount))
           /\ \E root \in 0..K(amount) :
                 /\ IsIntegerSqrt(root, K(amount))
                 /\ Mint(Pool, u, root - MinimumLiquidity)
  <2>1. K(amount) \in Nat /\ K(amount) <= I128Max
    BY <1>1, <1>2 DEF K, FirstSharesOk, Fits
  <2>2. PICK root \in 0..K(amount) : Mint(Pool, u, root - MinimumLiquidity)
    BY <1>2
  <2>3. root - MinimumLiquidity > 0
    BY <2>2 DEF Mint
  <2>4. root - MinimumLiquidity \in 1..I128Max
    BY <2>1, <2>3, MinimumLiquidityAssumption
  <2>5. QED BY <1>1, <2>2, <2>4, MintAccounted
<1>3. CASE /\ lpSupply # 0
           /\ ProRataSharesOk(amount["a"], amount["b"],
                              reserve["a"], reserve["b"], lpSupply)
           /\ Mint(Pool, u, ProRataShares(amount["a"], amount["b"],
                                          reserve["a"], reserve["b"], lpSupply))
  <2>1. PICK a \in Nat, b \in Nat, x \in Nat, y \in Nat, s \in Nat :
           /\ a = amount["a"] /\ b = amount["b"] /\ s = lpSupply
           /\ x = reserve["a"] /\ y = reserve["b"]
           /\ x > 0 /\ y > 0 /\ s > 0 /\ a * s <= I128Max
    BY <1>1, <1>3 DEF ProRataSharesOk, Fits
  <2>2. PICK n \in Nat : n = ProRataShares(a, b, x, y, s) /\ n * x <= a * s
    BY <2>1, ProRataFair
  <2>3. Mint(Pool, u, n) /\ n > 0
    BY <1>3, <2>1, <2>2 DEF Mint
  <2>4. n <= I128Max
    <3>1. n * 1 <= n * x
      BY <2>1, ProductsCompare
    <3>2. n * x \in Nat /\ a * s \in Nat
      OBVIOUS
    <3>3. QED BY <2>1, <2>2, <3>1, <3>2
  <2>5. QED BY <1>1, <2>3, <2>4, MintAccounted
<1>4. QED BY <1>2, <1>3 DEF Deposit

LEMMA AddLiquidityAccounted ==
    ASSUME PoolIInv, PoolIInv', SharesAccounted, NEW u \in Users,
           NEW desired \in [Side -> Int], NEW minimum, NEW deadline,
           AddLiquidity(u, desired, minimum, deadline)
    PROVE  SharesAccounted'
<1>1. CASE Deposit(u, desired)
  BY <1>1, DepositAccounted
<1>2. CASE \E q \in Int : Deposit(u, [desired EXCEPT !["b"] = q])
  <2>1. PICK q \in Int : Deposit(u, [desired EXCEPT !["b"] = q])
    BY <1>2
  <2>2. [desired EXCEPT !["b"] = q] \in [Side -> Int]
    OBVIOUS
  <2>3. QED BY <2>1, <2>2, DepositAccounted
<1>3. CASE \E q \in Int : Deposit(u, [desired EXCEPT !["a"] = q])
  <2>1. PICK q \in Int : Deposit(u, [desired EXCEPT !["a"] = q])
    BY <1>3
  <2>2. [desired EXCEPT !["a"] = q] \in [Side -> Int]
    OBVIOUS
  <2>3. QED BY <2>1, <2>2, DepositAccounted
<1>4. /\ desired["a"] \in Int /\ desired["b"] \in Int
      /\ reserve["a"] \in Nat /\ reserve["b"] \in Nat
  BY Books DEF Side
<1>5. /\ reserve["a"] # 0 => (desired["a"] * reserve["b"]) \div reserve["a"] \in Int
      /\ reserve["b"] # 0 => (desired["b"] * reserve["a"]) \div reserve["b"] \in Int
  BY <1>4
<1>6. QED BY <1>1, <1>2, <1>3, <1>5 DEF AddLiquidity

LEMMA LpOperationAccounted ==
    ASSUME PoolIInv, SharesAccounted, LpOperation
    PROVE  SharesAccounted'
<1>1. Users \subseteq Address
  BY Books
<1>2. CASE \E u \in Users : Initialize(u)
  BY <1>2 DEF Initialize, PoolIInv, PoolInv, Unpriced, SharesAccounted
<1>3. CASE \E u \in Users : SetMinter(u, Pool)
  BY <1>3, Books, NoAddressAssumption DEF SetMinter, SharesAccounted
<1>4. CASE \E u \in Users, h \in Address, n \in Amounts : Transfer(u, h, n)
  BY <1>1, <1>4, AmountsAssumption, MoveAccounted DEF Transfer
<1>5. CASE \E u \in Users, h \in Spenders, n \in Amounts : Approve(u, h, n)
  BY <1>5 DEF Approve, SharesAccounted
<1>6. CASE \E u, v \in Users, h \in Address, n \in Amounts : TransferFrom(u, v, h, n)
  BY <1>1, <1>6, AmountsAssumption, MoveAccounted DEF TransferFrom
<1>7. QED BY <1>2, <1>3, <1>4, <1>5, <1>6 DEF LpOperation

LEMMA SharesStep ==
    ASSUME PoolIInv, PoolIInv', SharesAccounted, [Next]_vars
    PROVE  SharesAccounted'
<1> USE DEF Pairs
<1>1. CASE UNCHANGED lpVars
  BY <1>1, SharesUntouched
<1>2. CASE \E u \in Users, d \in Pairs(TradeAmounts), m \in Pairs(MinAmounts),
              t \in LeadTimes : AddLiquidity(u, d, m, now + t)
  <2>1. PICK u \in Users, d \in Pairs(TradeAmounts), m \in Pairs(MinAmounts),
             t \in LeadTimes : AddLiquidity(u, d, m, now + t)
    BY <1>2
  <2>2. d \in [Side -> Int]
    BY PoolAssumption
  <2>3. QED BY <2>1, <2>2, AddLiquidityAccounted
<1>3. CASE \E u \in Users, n \in TradeAmounts, m \in Pairs(MinAmounts),
              t \in LeadTimes : RemoveLiquidity(u, n, m, now + t)
  <2>1. PICK u \in Users, n \in TradeAmounts : Burn(Pool, u, n)
    BY <1>3 DEF RemoveLiquidity
  <2>2. u \in Address /\ n \in Int
    BY PoolAssumption, Books
  <2>3. QED BY <2>1, <2>2, BurnAccounted
<1>4. CASE LpOperation
  BY <1>4, LpOperationAccounted
<1>5. CASE UNCHANGED vars
  BY <1>5, <1>1 DEF vars
<1>6. ASSUME NEW u, NEW s, NEW in, NEW out, NEW h, Trade(u, s, in, out, h)
      PROVE  UNCHANGED lpVars
  BY <1>6 DEF Trade
<1>7. CASE PoolOperation
  <2>1. CASE \E fee \in FeeTiers : InitializePool(fee)
    BY <1>1, <2>1 DEF InitializePool
  <2>2. CASE \E u \in Users, n \in TradeAmounts, m \in MinAmounts, s \in Side,
                h \in Address, t \in LeadTimes : SwapExactIn(u, n, m, s, h, now + t)
    BY <1>1, <1>6, <2>2 DEF SwapExactIn
  <2>3. CASE \E u \in Users, n, m \in TradeAmounts, s \in Side,
                h \in Address, t \in LeadTimes : SwapExactOut(u, n, m, s, h, now + t)
    BY <1>1, <1>6, <2>3 DEF SwapExactOut
  <2>4. CASE \E u \in Users, o, p \in Pairs(FlashAmounts) : FlashSwap(o, u, p)
    BY <1>1, <2>4 DEF FlashSwap
  <2>5. CASE \E h \in Address : CollectProtocolFees(h)
    BY <1>1, <2>5 DEF CollectProtocolFees
  <2>6. QED BY <1>2, <1>3, <1>7, <2>1, <2>2, <2>3, <2>4, <2>5 DEF PoolOperation
<1>8. CASE \E s \in Side, u \in Users, h \in Address, n \in TradeAmounts :
              TokenTransfer(s, u, h, n)
  BY <1>1, <1>8 DEF TokenTransfer
<1>9. CASE Tick
  BY <1>1, <1>9 DEF Tick
<1>10. QED BY <1>4, <1>5, <1>7, <1>8, <1>9 DEF Next

\* The LP token's balances add up to its supply with no wrap-around, whoever
\* mints, burns or moves shares and whatever the amounts.
THEOREM PoolSharesAccounted == Spec => []SharesAccounted
<1>1. Init => SharesAccounted
  <2> SUFFICES ASSUME Init PROVE SharesAccounted
    OBVIOUS
  <2>1. /\ lpBalance = [a \in Address |-> 0] /\ lpSupply = 0 /\ lpMinter = NoAddress
    BY DEF Init, LpInit
  <2>2. /\ lpBalance \in [Address -> Nat] /\ DOMAIN lpBalance = Address
        /\ \A a \in Address : lpBalance[a] = 0
    BY <2>1
  <2>3. SumFunctionOnSet(lpBalance, Address) = 0
    BY <2>2, AddressAssumption, SumOfZeros
  <2>4. SumFunction(lpBalance) = 0
    BY <2>2, <2>3, Zenon DEF SumFunction
  <2>5. QED BY <2>1, <2>2, <2>4 DEF SharesAccounted
<1>2. PoolIInv /\ PoolIInv' /\ SharesAccounted /\ [Next]_vars => SharesAccounted'
  BY SharesStep
<1>3. QED BY <1>1, <1>2, PoolIInvariant, PTL DEF Spec

\* Whoever owns shares can leave: one share is always redeemable.  It needs a
\* supply behind the balance, so the accounts above.
THEOREM PoolHolderCanExit == Spec => []HolderCanExit
<1>1. ASSUME PoolIInv, SharesAccounted, NEW u \in Users, lpBalance[u] > 0
      PROVE  RemoveLiquidityOk(u, 1, [s \in Side |-> 0], now)
  <2> USE <1>1, I128MaxAssumption
  <2>1. u \in Address /\ now \in Nat /\ lastTime = NoTime
    BY Books DEF PoolIInv, PoolInv, Unpriced, TypeOK
  <2>2. /\ lpBalance[u] \in Nat /\ lpBalance[u] >= 1 /\ lpSupply \in Nat /\ lpSupply >= 1
    BY <1>1, <2>1, BalanceInSupply
  <2>3. BurnOk(Pool, u, 1)
    BY <2>2 DEF BurnOk, SharesAccounted
  <2>4. initialized
    <3>1. lpSupply * lpSupply >= 1
      <4>1. PICK n \in Nat : n = lpSupply /\ n >= 1
        BY <2>2
      <4>2. n * n >= 1
        BY <4>1
      <4>3. QED BY <4>1, <4>2
    <3>2. K(reserve) # 0
      BY <2>2, <3>1 DEF PoolIInv, PoolInv, Unpriced, K
    <3>3. QED BY <3>2, Books DEF PoolIInv, PoolInv, Unpriced, K, Side
  <2>5. ASSUME NEW s \in Side
        PROVE  /\ Redeemed(1)[s] \in 0..reserve[s]
               /\ reserve[s] \in Nat /\ reserve[s] <= I128Max
               /\ held[s][Pool] \in Nat /\ reserve[s] <= held[s][Pool]
    <3>1. /\ reserve[s] \in Nat /\ reserve[s] <= I128Max
          /\ held[s][Pool] \in Nat /\ reserve[s] <= held[s][Pool]
      BY PoolAssumption DEF PoolIInv, PoolInv, Unpriced, TypeOK
    <3>2. ShareOf(1, lpSupply, reserve[s]) \in 0..reserve[s]
      <4>1. \A c \in Nat, x \in Nat : c > 0 => ShareOf(1, c, x) \in 0..x
        <5>1. 1 \in Nat /\ \A c \in Nat : c > 0 => 1 <= c
          OBVIOUS
        <5>2. QED BY <5>1, ShareOfFair
      <4>2. QED BY <2>2, <3>1, <4>1
    <3>3. QED BY <3>1, <3>2 DEF Redeemed
  <2>6. LiquidityRatioOk(1, lpSupply, reserve["a"], reserve["b"])
    BY <2>2, <2>5 DEF LiquidityRatioOk, Fits, Side
  <2>7. \A s \in Side : Redeemed(1)[s] >= 0 /\ TransferOk(held[s], Pool, Redeemed(1)[s])
    BY <2>5 DEF TransferOk
  <2>8. ReservesOk([s \in Side |-> reserve[s] - Redeemed(1)[s]])
    <3>1. \A s \in Side : Fits(reserve[s] - Redeemed(1)[s])
      BY <2>5 DEF Fits
    <3>2. \A r : ~PricesMove(r)
      BY <2>1 DEF PricesMove, LastUpdate
    <3>3. QED BY <3>1, <3>2 DEF ReservesOk
  <2>9. now <= now
    BY <2>1
  <2>10. QED BY <2>3, <2>4, <2>6, <2>7, <2>8, <2>9 DEF RemoveLiquidityOk
<1>2. PoolIInv /\ SharesAccounted => HolderCanExit
  <2> SUFFICES ASSUME PoolIInv, SharesAccounted, NEW u \in Users, lpBalance[u] > 0
               PROVE  \E n \in 1..lpBalance[u] :
                         RemoveLiquidityOk(u, n, [s \in Side |-> 0], now)
    BY DEF HolderCanExit
  <2>1. 1 \in 1..lpBalance[u]
    BY Books, BalanceInSupply
  <2>2. QED BY <1>1, <2>1
<1>3. QED BY <1>2, PoolIInvariant, PoolSharesAccounted, PTL

\* The fee that a trade records fits, and is no more than the amount.
LEMMA ProtocolFeeServed ==
    ASSUME NEW n \in Nat, NEW fee \in 0..FeeDenominator, Fits(n * FeeDenominator)
    PROVE  /\ ProtocolFeeOk(n, fee, ProtocolFeeBps)
           /\ ProtocolFee(n, fee, ProtocolFeeBps) \in 0..n
<1> USE I128MaxAssumption, FeeDenominatorAssumption
<1>1. PICK d \in Nat, p \in Nat :
         d = FeeDenominator /\ p = ProtocolFeeBps /\ d > 0 /\ p <= d /\ fee <= d
  BY PoolAssumption
<1>2. fee \in Nat /\ n * d \in Nat /\ n * fee \in Nat /\ n * d <= I128Max
  BY <1>1 DEF Fits
<1>3. n * fee <= n * d
  BY <1>1, <1>2, ProductsCompare
<1>4. PICK q \in Nat : q = (n * fee) \div d /\ q * d <= n * fee
  BY <1>1, <1>2, Rounded
<1>5. q <= n
  <2>1. q * d \in Nat
    BY <1>1, <1>4
  <2>2. q * d <= n * d
    BY <1>2, <1>3, <1>4, <2>1
  <2>3. QED BY <1>1, <2>2, Cancel
<1>6. q * p <= n * d /\ q * p \in Nat
  BY <1>1, <1>5, ProductsCompare
<1>7. PICK z \in Nat : z = (q * p) \div d /\ z * d <= q * p
  BY <1>1, <1>6, Rounded
<1>8. z <= n
  <2>1. z * d \in Nat
    BY <1>1
  <2>2. z * d <= n * d
    BY <1>2, <1>6, <1>7, <2>1
  <2>3. QED BY <1>1, <2>2, Cancel
<1>9. ProtocolFee(n, fee, ProtocolFeeBps) = z
  BY <1>1, <1>4, <1>7 DEF ProtocolFee
<1>10. ProtocolFeeOk(n, fee, ProtocolFeeBps)
  <2>1. Fits(n * fee) /\ Fits(q * p)
    BY <1>2, <1>3, <1>6 DEF Fits
  <2>2. QED BY <1>1, <1>4, <2>1 DEF ProtocolFeeOk
<1>11. QED BY <1>8, <1>9, <1>10

\* What a quote leaves in the reserve it adds to fits.
LEMMA QuotedReserveFits ==
    ASSUME NEW n \in Nat, NEW x \in Nat, NEW y \in Nat,
           NEW fee \in 0..FeeDenominator, AmountOutOk(n, x, y, fee)
    PROVE  x + n <= I128Max
<1> USE I128MaxAssumption, FeeDenominatorAssumption
<1>1. PICK d \in Nat, w \in Nat : d = FeeDenominator /\ w = n * (d - fee) /\ d - fee \in Nat
  BY DEF AmountOutOk
<1>2. /\ x > 0 /\ d > 0
      /\ x * d + w <= I128Max
      /\ (w * y) \div (x * d + w) > 0
  BY <1>1 DEF AmountOutOk, AmountOut, Fits
<1>3. x <= x * d /\ x * d \in Nat
  <2>1. x * 1 <= x * d
    BY <1>1, <1>2, ProductsCompare
  <2>2. QED BY <1>1, <2>1
<1>4. d - fee >= 1
  <2> SUFFICES ASSUME d - fee = 0 PROVE FALSE
    BY <1>1
  <2>1. w = 0
    BY <1>1
  <2>2. w * y = 0 /\ x * d + w = x * d /\ x * d > 0
    BY <1>2, <1>3, <2>1
  <2>3. \A m \in Nat : m > 0 => 0 \div m = 0
    OBVIOUS
  <2>4. QED BY <1>2, <1>3, <2>2, <2>3
<1>5. n <= w
  <2>1. n * 1 <= n * (d - fee)
    BY <1>1, <1>4, ProductsCompare
  <2>2. QED BY <1>1, <2>1
<1>6. QED BY <1>2, <1>3, <1>5

\* A quoted swap of a caller who holds the input is executed, where the fee tier
\* can be read: every later guard of swap_exact_in follows from the quote's.
THEOREM PoolQuotedSwapServed == Spec => []QuotedSwapServed
<1>1. ASSUME PoolIInv, NEW u \in Users, NEW n \in TradeAmounts, NEW s \in Side,
             initialized, HostReadsU32AsI128, QuoteOk(n, s),
             held[s][u] >= n, fees[s] + n <= MaxFees
      PROVE  SwapExactInOk(u, n, 0, s, now)
  <2> USE <1>1, I128MaxAssumption
  <2>1. PICK x \in Nat, y \in Nat :
           /\ x = reserve[s] /\ y = reserve[Other(s)]
           /\ x <= I128Max /\ y <= I128Max /\ y <= held[Other(s)][Pool]
    BY Books DEF PoolIInv, PoolInv, Unpriced, Side, Other
  <2>2. AmountOutOk(n, x, y, feeTier)
    BY <2>1 DEF QuoteOk
  <2>3. n \in Nat /\ n > 0 /\ Fits(n * FeeDenominator) /\ feeTier \in 0..FeeDenominator
    BY <2>2, PoolAssumption, Books DEF AmountOutOk
  <2>4. PICK out : out = Quote(n, s) /\ out = AmountOut(n, x, y, feeTier)
    BY <2>1 DEF Quote
  <2>5. out \in 0..y /\ out > 0
    BY <2>2, <2>3, <2>4, AmountOutFair DEF AmountOutOk
  <2>6. x + n <= I128Max
    BY <2>2, <2>3, QuotedReserveFits
  <2>7. /\ ProtocolFeeOk(n, feeTier, ProtocolFeeBps)
        /\ ProtocolFee(n, feeTier, ProtocolFeeBps) \in 0..n
    BY <2>3, ProtocolFeeServed
  <2>8. Fits(FeesAfter(s, n)) /\ FeesAfter(s, n) <= MaxFees
    BY <2>3, <2>7, Books, PoolAssumption DEF FeesAfter, Fits
  <2>9. TransferOk(held[s], u, n) /\ TransferOk(held[Other(s)], Pool, out)
    <3>1. /\ held[s][u] \in Nat /\ held[Other(s)][Pool] \in Nat
      BY Books DEF Other, Side
    <3>2. QED BY <2>1, <2>3, <2>5, <3>1 DEF TransferOk
  <2>10. Fits(reserve[s] + n)
    BY <2>1, <2>3, <2>6 DEF Fits
  <2>11. ReservesOk(TradedReserves(s, n, out))
    <3>1. /\ TradedReserves(s, n, out)[s] = x + n
          /\ TradedReserves(s, n, out)[Other(s)] = y - out
          /\ Side = {s, Other(s)}
      BY <2>1 DEF TradedReserves, PoolIInv, PoolInv, Unpriced, TypeOK, Other, Side
    <3>2. Fits(x + n) /\ Fits(y - out)
      BY <2>1, <2>3, <2>5, <2>6 DEF Fits
    <3>3. \A r : ~PricesMove(r)
      <4>1. now \in Nat /\ lastTime = NoTime
        BY DEF PoolIInv, PoolInv, Unpriced, TypeOK
      <4>2. QED BY <4>1 DEF PricesMove, LastUpdate
    <3>4. QED BY <3>1, <3>2, <3>3 DEF ReservesOk
  <2>12. TradeOk(u, s, n, out)
    BY <2>3, <2>7, <2>8, <2>9, <2>10, <2>11 DEF TradeOk
  <2>13. SwapServable(now)
    BY DEF SwapServable, PoolIInv, PoolInv, Unpriced, TypeOK
  <2>14. QED BY <2>4, <2>5, <2>12, <2>13 DEF SwapExactInOk
<1>2. PoolIInv => QuotedSwapServed
  BY <1>1 DEF QuotedSwapServed, QuoteOk, AmountOutOk
<1>3. QED BY <1>2, PoolIInvariant, PTL
=============================================================================
