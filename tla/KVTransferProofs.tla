--------------------------- MODULE KVTransferProofs ---------------------------
(***************************************************************************)
(* Theorems about KVTransfer, for every deployment: a load beside the      *)
(* steps writes into blocks of its own request only, and whatever a load   *)
(* has brought or failed to bring, a waiting request has a token left to   *)
(* compute.  They rest on TransferInv.  In a careful deployment what is    *)
(* counted and what the cache offers is really there, and no client gets   *)
(* a wrong answer.  These rest on EntriesInv.                              *)
(***************************************************************************)
EXTENDS KVTransfer, RequestQueueLemmas, FiniteSetTheorems, TLAPS

--------------------------------------------------------------------------------
(* The operators *)

\* The types of the constants, in the form the proofs use.
LEMMA ConstantTypes ==
    /\ NoRequest \notin Requests
    /\ BlockSize \in Nat /\ BlockSize > 0 /\ Chunk \in Nat
    /\ \A r \in Requests : PromptLen[r] \in Nat /\ PromptLen[r] > 0 /\ MaxTokens[r] \in Nat
    /\ \A c \in Configs : /\ c.blocks \in Nat /\ c.shared \in Nat /\ c.recompute \in BOOLEAN
                          /\ c.async \in BOOLEAN /\ c.delay \in BOOLEAN
BY ConfigAssumption

\* Blocks are counted upwards to the next whole one.
LEMMA CeilDivFacts ==
    ASSUME NEW a \in Int, NEW b \in Nat, b > 0
    PROVE  /\ CeilDiv(a, b) \in Int
           /\ a <= CeilDiv(a, b) * b /\ (CeilDiv(a, b) - 1) * b < a
<1> DEFINE x == a + b - 1
           q == x \div b
<1>1. x \in Int
  OBVIOUS
<1> HIDE DEF x
<1>2. q \in Int /\ q * b <= x /\ x < (q + 1) * b
  BY <1>1
<1> HIDE DEF q
<1>3. (q + 1) * b = q * b + b /\ (q - 1) * b = q * b - b /\ q * b \in Int
  BY <1>2
<1>4. a <= q * b /\ (q - 1) * b < a
  BY <1>2, <1>3 DEF x
<1>5. QED BY <1>2, <1>4 DEF CeilDiv, q, x

LEMMA Monotone ==
    ASSUME NEW b \in Nat, b > 0, NEW m \in Int, NEW n \in Int
    PROVE  m < n <=> m * b < n * b
<1>1. m < n => m * b < n * b
  OBVIOUS
<1>2. n <= m => n * b <= m * b
  OBVIOUS
<1>3. QED BY <1>1, <1>2

\* Ascending lists the members of a set of blocks.
LEMMA AscendingMembers ==
    ASSUME NEW n \in Nat, NEW S \in SUBSET (1 .. n)
    PROVE  /\ Ascending(S) \in Seq(S) /\ Len(Ascending(S)) = Cardinality(S)
           /\ \A k \in 1 .. Cardinality(S) : Ascending(S)[k] \in S
           /\ \A j, k \in 1 .. Cardinality(S) : Ascending(S)[j] = Ascending(S)[k] => j = k
<1>1. Cardinality(S) \in Nat
  <2>1. IsFiniteSet(1 .. n)
    BY FS_Interval
  <2>2. QED BY <2>1, FS_Subset, FS_CardinalityType
<1> DEFINE kth(k) == CHOOSE x \in S : Cardinality({y \in S : y < x}) = k - 1
           a == Ascending(S)
<1>2. a = [k \in 1 .. Cardinality(S) |-> kth(k)]
  BY DEF Ascending
<1>3. \A k \in 1 .. Cardinality(S) : kth(k) \in S
  BY KthMember
<1>8. \A j, k \in 1 .. Cardinality(S) : kth(j) = kth(k) => j = k
  <2> TAKE j, k \in 1 .. Cardinality(S)
  <2>1. Cardinality({y \in S : y < kth(j)}) = j - 1
    BY KthMember
  <2>2. Cardinality({y \in S : y < kth(k)}) = k - 1
    BY KthMember
  <2>3. kth(j) = kth(k) => j - 1 = k - 1
    BY <2>1, <2>2
  <2>4. QED BY <1>1, <2>3
<1> HIDE DEF a, kth
<1>4. \A k \in 1 .. Cardinality(S) : a[k] \in S
  BY <1>2, <1>3
<1>5. a \in [1 .. Cardinality(S) -> S]
  BY <1>2, <1>3
<1>6. a \in Seq(S) /\ Len(a) = Cardinality(S)
  BY <1>1, <1>5
<1>9. \A j, k \in 1 .. Cardinality(S) : a[j] = a[k] => j = k
  BY <1>2, <1>8
<1>7. QED BY <1>4, <1>6, <1>9 DEF a

\* The state's parts, in the form the proofs use.
LEMMA StateTypes ==
    ASSUME TypeOK
    PROVE  /\ cfg \in Configs /\ cfg.blocks \in Nat
           /\ Blocks = 1 .. cfg.blocks
           /\ \A r \in Requests :
                /\ req[r].status \in Statuses /\ req[r].tokens \in Nat /\ req[r].tokens > 0
                /\ req[r].computed \in Int /\ req[r].cached \in Int
                /\ req[r].preempted \in BOOLEAN /\ req[r].wrong \in BOOLEAN
                /\ table[r] \in Seq(Blocks) /\ Len(table[r]) \in Nat
                /\ DOMAIN table[r] = 1 .. Len(table[r])
                /\ \A i \in DOMAIN table[r] : table[r][i] \in Blocks
                /\ Held(r) \subseteq Blocks
           /\ \A r \in Requests : sch.num[r] \in Int
           /\ FreeBlocks \subseteq Blocks
<1>1. cfg \in Configs /\ cfg.blocks \in Nat /\ Blocks = 1 .. cfg.blocks
  BY ConstantTypes DEF TypeOK, Blocks
<1>2. ASSUME NEW r \in Requests
      PROVE  /\ req[r].status \in Statuses /\ req[r].tokens \in Nat /\ req[r].tokens > 0
             /\ req[r].computed \in Int /\ req[r].cached \in Int
             /\ req[r].preempted \in BOOLEAN /\ req[r].wrong \in BOOLEAN
  BY DEF TypeOK
<1>3. ASSUME NEW r \in Requests
      PROVE  /\ table[r] \in Seq(Blocks) /\ Len(table[r]) \in Nat
             /\ DOMAIN table[r] = 1 .. Len(table[r])
             /\ \A i \in DOMAIN table[r] : table[r][i] \in Blocks
             /\ Held(r) \subseteq Blocks
  <2>1. table[r] \in Seq(Blocks)
    BY DEF TypeOK
  <2> HIDE DEF Blocks
  <2>2. \A i \in DOMAIN table[r] : table[r][i] \in Blocks
    BY <2>1
  <2>3. QED BY <2>1, <2>2 DEF Held
<1>4. \A r \in Requests : sch.num[r] \in Int
  BY DEF TypeOK
<1>5. QED BY <1>1, <1>2, <1>3, <1>4 DEF FreeBlocks

LEMMA KeyFacts ==
    ASSUME NEW r \in Requests, NEW i \in Nat \ {0}
    PROVE  Key(r, i) \in (Requests \cup {NoRequest}) \X Nat /\ Key(r, i) # NoKey
BY ConstantTypes DEF Key, NoKey

\* A hit consists of cached blocks and leaves a token to compute.
LEMMA LocalHitFacts ==
    ASSUME TypeOK, NEW r \in Requests
    PROVE  /\ LocalHit(r) \in Seq(Blocks) /\ Len(LocalHit(r)) \in Nat
           /\ Len(LocalHit(r)) * BlockSize < req[r].tokens
           /\ \A i \in 1 .. Len(LocalHit(r)) :
                 LocalHit(r)[i] \in Blocks /\ key[LocalHit(r)[i]] # NoKey
           /\ \A i \in 1 .. Len(LocalHit(r)) : key[LocalHit(r)[i]] = Key(r, i)
<1> DEFINE m == (req[r].tokens - 1) \div BlockSize
           hit == {n \in 0 .. m : \A i \in 1 .. n : \E b \in Blocks : key[b] = Key(r, i)}
           len == Max(hit)
           block(i) == CHOOSE b \in Blocks : key[b] = Key(r, i)
           h == LocalHit(r)
<1>1. /\ BlockSize \in Nat /\ BlockSize > 0
      /\ req[r].tokens \in Nat /\ req[r].tokens > 0
  BY ConstantTypes, StateTypes
<1>2. m \in Nat /\ m * BlockSize < req[r].tokens
  <2> DEFINE t == req[r].tokens - 1
  <2>1. t \in Nat
    BY <1>1
  <2> HIDE DEF t
  <2>2. t \div BlockSize \in Nat /\ (t \div BlockSize) * BlockSize <= t
    BY <1>1, <2>1
  <2>3. (t \div BlockSize) * BlockSize \in Int
    BY <1>1, <2>2
  <2>4. QED BY <1>1, <2>2, <2>3 DEF t
<1>3. h = [i \in 1 .. len |-> block(i)]
  BY DEF LocalHit
<1> HIDE DEF m
<1>4. len \in hit
  <2>1. 0 \in hit
    BY <1>2
  <2>2. hit \in SUBSET (0 .. m)
    OBVIOUS
  <2> HIDE DEF hit
  <2>3. QED BY <1>2, <2>1, <2>2, MaxIsGreatest
<1>5. len \in 0 .. m /\ \A i \in 1 .. len : \E b \in Blocks : key[b] = Key(r, i)
  BY <1>4
<1> HIDE DEF len, hit, h
<1>6. \A i \in 1 .. len : block(i) \in Blocks /\ key[block(i)] = Key(r, i)
  BY <1>5
<1>7. \A i \in 1 .. len : Key(r, i) # NoKey
  BY <1>2, <1>5, KeyFacts
<1> HIDE DEF block
<1>8. /\ h \in Seq(Blocks) /\ Len(h) = len /\ len \in Nat
      /\ \A i \in 1 .. len : h[i] \in Blocks /\ key[h[i]] # NoKey
      /\ \A i \in 1 .. len : key[h[i]] = Key(r, i)
  BY <1>2, <1>3, <1>5, <1>6, <1>7
<1>9. len * BlockSize < req[r].tokens
  <2>1. len < m + 1 /\ m + 1 \in Int
    BY <1>2, <1>5
  <2>2. ~(m < len)
    BY <1>2, <1>5
  <2>3. ~(m * BlockSize < len * BlockSize)
    BY <1>1, <1>2, <1>8, <2>2, Monotone
  <2>4. m * BlockSize \in Int /\ len * BlockSize \in Int
    BY <1>1, <1>2, <1>8
  <2>5. QED BY <1>1, <1>2, <2>3, <2>4
<1>10. QED BY <1>8, <1>9 DEF h

\* A request's new table: what it is given, then blocks that were free.  Only blocks of
\* this table change what they are cached under.
Allocated(r, hit, total, cached, new, t) ==
    /\ new \subseteq FreeBlocks /\ t \in Seq(Blocks)
    /\ Len(t) = Len(hit) + Most(0, CeilDiv(total, BlockSize) - Len(hit))
    /\ \A i \in 1 .. Len(hit) : i \in 1 .. Len(t) /\ t[i] = hit[i]
    /\ \A i \in 1 .. Len(t) : i > Len(hit) => t[i] \in new
    /\ table' = [table EXCEPT ![r] = t]
    /\ filled' = [b \in Blocks |-> IF b \in new THEN 0 ELSE filled[b]]
    /\ filled' \in [Blocks -> 0 .. BlockSize]
    /\ key' \in [Blocks -> (Requests \cup {NoRequest}) \X Nat]
    /\ \A b \in Blocks : key'[b] # key[b] => b \in new \/ \E i \in 1 .. Len(t) : t[i] = b
    /\ cached = 0 => \A b \in Blocks : key'[b] = IF b \in new THEN NoKey ELSE key[b]

\* The blocks of the first n tokens.
LEMMA WholeBlocks ==
    ASSUME NEW n \in Int, NEW i \in Int
    PROVE  i <= n \div BlockSize <=> i * BlockSize <= n
<1> DEFINE q == n \div BlockSize
<1>1. BlockSize \in Nat /\ BlockSize > 0 /\ q \in Int
  BY ConstantTypes
<1>2. q * BlockSize <= n /\ n < (q + 1) * BlockSize
  BY <1>1
<1> HIDE DEF q
<1>3. q * BlockSize \in Int /\ (q + 1) * BlockSize \in Int /\ i * BlockSize \in Int
  BY <1>1
<1>4. q < i <=> q * BlockSize < i * BlockSize
  BY <1>1, Monotone
<1>5. i < q + 1 <=> i * BlockSize < (q + 1) * BlockSize
  BY <1>1, Monotone
<1>6. i < q + 1 <=> i <= q
  BY <1>1
<1>7. i <= q => i * BlockSize <= n
  BY <1>1, <1>2, <1>3, <1>4
<1>8. i * BlockSize <= n => i <= q
  BY <1>2, <1>3, <1>5, <1>6
<1>9. QED BY <1>7, <1>8 DEF q

\* None of the blocks comes twice, and those of the first `cached` tokens are cached.
AllocatedKeys(r, hit, cached, new, t) ==
    /\ new \cap Range(hit) = {}
    /\ IsInjective(hit) => IsInjective(t)
    /\ \A b \in Blocks :
          key'[b] = IF \E i \in 1 .. Len(t) : t[i] = b /\ i * BlockSize <= cached
                    THEN Key(r, CHOOSE i \in DOMAIN t : t[i] = b)
                    ELSE IF b \in new THEN NoKey ELSE key[b]

LEMMA AllocateFacts ==
    ASSUME TypeOK, NEW r \in Requests, NEW hit \in Seq(Blocks),
           NEW total \in Int, NEW cached \in Int, cached <= total,
           Allocate(r, hit, total, cached)
    PROVE  \E new, t : /\ Allocated(r, hit, total, cached, new, t)
                       /\ AllocatedKeys(r, hit, cached, new, t)
<1> DEFINE missing == Most(0, CeilDiv(total, BlockSize) - Len(hit))
<1>1. /\ BlockSize \in Nat /\ BlockSize > 0 /\ Len(hit) \in Nat
      /\ FreeBlocks \subseteq Blocks /\ cfg.blocks \in Nat /\ Blocks = 1 .. cfg.blocks
  BY ConstantTypes, StateTypes
<1>2. PICK new \in Available(missing, hit) :
          LET t == hit \o Ascending(new)
          IN  /\ table' = [table EXCEPT ![r] = t]
              /\ filled' = [b \in Blocks |-> IF b \in new THEN 0 ELSE filled[b]]
              /\ key' = [b \in Blocks |->
                   IF \E i \in 1 .. cached \div BlockSize : t[i] = b
                   THEN Key(r, CHOOSE i \in DOMAIN t : t[i] = b)
                   ELSE IF b \in new THEN NoKey ELSE key[b]]
  BY DEF Allocate
<1>3. new \subseteq FreeBlocks /\ Cardinality(new) = missing
  BY DEF Available, kSubset
<1> DEFINE a == Ascending(new)
           t == hit \o a
           total_blocks == CeilDiv(total, BlockSize)
           cached_blocks == cached \div BlockSize
<1>4. total_blocks \in Int /\ total <= total_blocks * BlockSize
  BY <1>1, CeilDivFacts
<1>5. missing \in Nat /\ total_blocks <= Len(hit) + missing
  <2> HIDE DEF total_blocks
  <2>1. Most(0, total_blocks - Len(hit)) \in Nat
        /\ total_blocks <= Len(hit) + Most(0, total_blocks - Len(hit))
    BY <1>1, <1>4 DEF Most
  <2>2. QED BY <2>1 DEF total_blocks
<1>6. a \in Seq(Blocks) /\ Len(a) = missing /\ \A i \in 1 .. missing : a[i] \in new
  <2>1. new \in SUBSET (1 .. cfg.blocks)
    BY <1>1, <1>3
  <2>2. /\ a \in Seq(new) /\ Len(a) = Cardinality(new)
        /\ \A k \in 1 .. Cardinality(new) : a[k] \in new
    BY <1>1, <2>1, AscendingMembers
  <2> HIDE DEF a, missing
  <2>3. new \subseteq Blocks
    BY <1>1, <1>3
  <2>4. Len(a) \in Nat /\ \A k \in 1 .. Len(a) : a[k] \in Blocks
    BY <1>3, <2>2, <2>3
  <2>5. a \in Seq(Blocks)
    BY <2>2, <2>4
  <2>6. QED BY <1>3, <2>2, <2>5
<1>23. new \cap Range(hit) = {}
  BY DEF Available, kSubset
<1>24. \A i, j \in 1 .. missing : a[i] = a[j] => i = j
  <2>1. new \in SUBSET (1 .. cfg.blocks)
    BY <1>1, <1>3
  <2>2. \A i, j \in 1 .. Cardinality(new) : a[i] = a[j] => i = j
    BY <1>1, <2>1, AscendingMembers
  <2>3. QED BY <1>3, <2>2
<1> HIDE DEF a, missing
<1>7. /\ t \in Seq(Blocks) /\ Len(t) = Len(hit) + missing
      /\ \A i \in 1 .. Len(hit) + missing :
            t[i] = IF i <= Len(hit) THEN hit[i] ELSE a[i - Len(hit)]
  BY <1>1, <1>5, <1>6, ConcatProperties
<1>8. cached_blocks \in Int /\ cached_blocks <= total_blocks
  <2>1. cached_blocks \in Int /\ cached_blocks * BlockSize <= cached
    BY <1>1
  <2> HIDE DEF cached_blocks, total_blocks
  <2>2. cached_blocks * BlockSize \in Int /\ total_blocks * BlockSize \in Int
    BY <1>1, <1>4, <2>1
  <2>3. ~(total_blocks * BlockSize < cached_blocks * BlockSize)
    BY <1>4, <2>1, <2>2
  <2>4. ~(total_blocks < cached_blocks)
    BY <1>1, <1>4, <2>1, <2>3, Monotone
  <2>5. QED BY <1>4, <2>1, <2>4
<1> DEFINE position(b) == CHOOSE i \in DOMAIN t : t[i] = b
<1>9. /\ table' = [table EXCEPT ![r] = t]
      /\ filled' = [b \in Blocks |-> IF b \in new THEN 0 ELSE filled[b]]
      /\ key' = [b \in Blocks |->
                   IF \E i \in 1 .. cached_blocks : t[i] = b
                   THEN Key(r, position(b))
                   ELSE IF b \in new THEN NoKey ELSE key[b]]
  BY <1>2 DEF a
<1>10. DOMAIN t = 1 .. Len(t)
  BY <1>7
<1>17. Len(t) \in Nat /\ total_blocks <= Len(t)
  BY <1>1, <1>5, <1>7
<1>16. cached = 0 => cached_blocks = 0
  BY <1>1
<1> HIDE DEF t, cached_blocks
<1>11. \A b \in Blocks : (\E i \in 1 .. cached_blocks : t[i] = b) =>
          \E i \in 1 .. Len(t) : t[i] = b
  <2>1. \A i \in 1 .. cached_blocks : i \in 1 .. Len(t)
    <3> HIDE DEF total_blocks
    <3>1. QED BY <1>4, <1>8, <1>17
  <2>2. QED BY <2>1
<1>12. \A b \in Blocks : (\E i \in 1 .. Len(t) : t[i] = b) =>
          position(b) \in 1 .. Len(t)
  BY <1>10
<1> HIDE DEF position
<1>13. key' \in [Blocks -> (Requests \cup {NoRequest}) \X Nat]
  <2>1. \A b \in Blocks : key[b] \in (Requests \cup {NoRequest}) \X Nat
    BY DEF TypeOK
  <2>2. NoKey \in (Requests \cup {NoRequest}) \X Nat
    BY DEF NoKey
  <2>3. \A i \in 1 .. Len(t) : Key(r, i) \in (Requests \cup {NoRequest}) \X Nat
    <3>1. \A i \in 1 .. Len(t) : i \in Nat \ {0}
      BY <1>17
    <3>2. QED BY <3>1, KeyFacts
  <2>4. \A b \in Blocks : key'[b] \in (Requests \cup {NoRequest}) \X Nat
    BY <1>9, <1>11, <1>12, <2>1, <2>2, <2>3
  <2>5. QED BY <1>9, <2>4
<1>14. filled' \in [Blocks -> 0 .. BlockSize]
  BY <1>1, <1>9 DEF TypeOK
<1>15. \A b \in Blocks : key'[b] # key[b] => b \in new \/ \E i \in 1 .. Len(t) : t[i] = b
  BY <1>9, <1>11
<1>18. cached = 0 => \A b \in Blocks : key'[b] = IF b \in new THEN NoKey ELSE key[b]
  BY <1>9, <1>16
<1>19. /\ \A i \in 1 .. Len(hit) : i \in 1 .. Len(t) /\ t[i] = hit[i]
       /\ \A i \in 1 .. Len(t) : i > Len(hit) => t[i] \in new
  <2>1. ASSUME NEW i \in 1 .. Len(hit) PROVE i \in 1 .. Len(t) /\ t[i] = hit[i]
    <3>1. i \in 1 .. Len(hit) + missing /\ i <= Len(hit)
      BY <1>1, <1>5
    <3>2. QED BY <1>7, <3>1
  <2>2. ASSUME NEW i \in 1 .. Len(t), i > Len(hit) PROVE t[i] \in new
    <3>1. i - Len(hit) \in 1 .. missing /\ t[i] = a[i - Len(hit)]
      BY <1>1, <1>5, <1>7, <2>2
    <3>2. QED BY <1>6, <3>1
  <2>3. QED BY <2>1, <2>2
<1>20. Len(t) = Len(hit) + Most(0, CeilDiv(total, BlockSize) - Len(hit))
  BY <1>7 DEF missing
<1>21. Allocated(r, hit, total, cached, new, t)
  BY <1>3, <1>7, <1>9, <1>13, <1>14, <1>15, <1>18, <1>19, <1>20 DEF Allocated
<1>22. IsInjective(hit) => IsInjective(t)
  <2> SUFFICES ASSUME IsInjective(hit), NEW i \in 1 .. Len(t), NEW j \in 1 .. Len(t),
                      t[i] = t[j], i < j
               PROVE  FALSE
    <3>1. DOMAIN t = 1 .. Len(t)
      BY <1>7
    <3>2. ASSUME IsInjective(hit) PROVE \A i, j \in 1 .. Len(t) : t[i] = t[j] => i = j
      <4> TAKE i, j \in 1 .. Len(t)
      <4>1. i < j \/ j < i \/ i = j
        OBVIOUS
      <4>2. QED BY <3>2, <4>1
    <3>3. QED BY <3>1, <3>2 DEF IsInjective
  <2>1. t[i] = IF i <= Len(hit) THEN hit[i] ELSE a[i - Len(hit)]
    BY <1>7
  <2>2. t[j] = IF j <= Len(hit) THEN hit[j] ELSE a[j - Len(hit)]
    BY <1>7
  <2>3. CASE j <= Len(hit)
    <3>1. i \in 1 .. Len(hit) /\ j \in 1 .. Len(hit) /\ i # j
      BY <1>1, <1>17, <2>3
    <3>2. i <= Len(hit) /\ j <= Len(hit)
      BY <3>1
    <3>4. t[i] = hit[i] /\ t[j] = hit[j]
      BY <2>1, <2>2, <3>2
    <3>5. DOMAIN hit = 1 .. Len(hit)
      OBVIOUS
    <3>3. QED BY <3>1, <3>4, <3>5 DEF IsInjective
  <2>4. CASE ~(j <= Len(hit))
    <3>1. j - Len(hit) \in 1 .. missing /\ t[j] = a[j - Len(hit)] /\ t[j] \in new
      BY <1>1, <1>5, <1>6, <1>7, <2>2, <2>4
    <3>2. CASE i <= Len(hit)
      <4>1. i \in DOMAIN hit /\ t[i] = hit[i]
        BY <1>1, <2>1, <3>2
      <4>2. QED BY <1>23, <3>1, <4>1 DEF Range
    <3>3. CASE ~(i <= Len(hit))
      <4>1. i - Len(hit) \in 1 .. missing /\ i - Len(hit) # j - Len(hit)
        BY <1>1, <1>5, <1>7, <1>17, <3>3
      <4>2. a[i - Len(hit)] = a[j - Len(hit)]
        BY <2>1, <3>1, <3>3
      <4>3. QED BY <1>24, <3>1, <4>1, <4>2
    <3>4. QED BY <3>2, <3>3
  <2>5. QED BY <2>3, <2>4
<1>27. \A i \in Int : i <= cached_blocks <=> i * BlockSize <= cached
  BY WholeBlocks DEF cached_blocks
<1>28. ASSUME NEW b
       PROVE  (\E i \in 1 .. cached_blocks : t[i] = b)
                <=> \E i \in 1 .. Len(t) : t[i] = b /\ i * BlockSize <= cached
  <2>1. \A i \in 1 .. cached_blocks : i \in 1 .. Len(t) /\ i * BlockSize <= cached
    <3> HIDE DEF total_blocks
    <3>1. QED BY <1>4, <1>8, <1>17, <1>27
  <2>2. \A i \in 1 .. Len(t) : i * BlockSize <= cached => i \in 1 .. cached_blocks
    BY <1>8, <1>17, <1>27
  <2>3. QED BY <2>1, <2>2
<1>29. ASSUME NEW b \in Blocks
       PROVE  key'[b] = IF \E i \in 1 .. Len(t) : t[i] = b /\ i * BlockSize <= cached
                        THEN Key(r, position(b))
                        ELSE IF b \in new THEN NoKey ELSE key[b]
  <2>1. key'[b] = IF \E i \in 1 .. cached_blocks : t[i] = b
                  THEN Key(r, position(b))
                  ELSE IF b \in new THEN NoKey ELSE key[b]
    BY <1>9
  <2>2. CASE \E i \in 1 .. cached_blocks : t[i] = b
    BY <1>28, <2>1, <2>2
  <2>3. CASE ~ \E i \in 1 .. cached_blocks : t[i] = b
    BY <1>28, <2>1, <2>3
  <2>4. QED BY <2>2, <2>3
<1>25. AllocatedKeys(r, hit, cached, new, t)
  BY <1>22, <1>23, <1>29 DEF AllocatedKeys, position
<1>26. QED BY <1>21, <1>25

--------------------------------------------------------------------------------
(* Types, action by action *)

RequestType ==
    [status : Statuses, tokens : Nat \ {0}, computed : Int, cached : Int,
     preempted : BOOLEAN, wrong : BOOLEAN]

ScheduleType ==
    [index : Nat \ {0}, preempted : BOOLEAN, skipped : Seq(Requests),
     num : [Requests -> Int], sync : [Requests -> SUBSET (Nat \ {0})],
     right : SUBSET Requests, pending : SUBSET Requests, failing : SUBSET Requests]

\* Requests and local variables keep their type through the updates of the actions.
LEMMA StatusUpdate ==
    ASSUME NEW q \in RequestType, NEW st \in Statuses
    PROVE  [q EXCEPT !.status = st] \in RequestType
BY DEF RequestType

LEMMA ComputedUpdate ==
    ASSUME NEW q \in RequestType, NEW n \in Int
    PROVE  [q EXCEPT !.computed = n] \in RequestType
BY DEF RequestType

LEMMA PreemptUpdate ==
    ASSUME NEW q \in RequestType, NEW st \in Statuses, NEW n \in Int, NEW p \in BOOLEAN
    PROVE  [q EXCEPT !.status = st, !.computed = n, !.preempted = p] \in RequestType
BY DEF RequestType

LEMMA ReadyUpdate ==
    ASSUME NEW q \in RequestType, NEW n \in Int, NEW st \in Statuses
    PROVE  [q EXCEPT !.computed = n, !.status = st] \in RequestType
BY DEF RequestType

LEMMA AdmitUpdate ==
    ASSUME NEW q \in RequestType, NEW st \in Statuses, NEW n \in Int, NEW c \in Int
    PROVE  [q EXCEPT !.status = st, !.computed = n, !.cached = c] \in RequestType
BY DEF RequestType

LEMMA AnswerUpdate ==
    ASSUME NEW q \in RequestType, NEW t \in Nat \ {0}, NEW p \in BOOLEAN, NEW st \in Statuses
    PROVE  [q EXCEPT !.tokens = t, !.wrong = p, !.status = st] \in RequestType
BY DEF RequestType

LEMMA IndexUpdate ==
    ASSUME NEW q \in ScheduleType,
           NEW i \in Nat \ {0}, NEW r \in Requests, NEW n \in Int
    PROVE  [q EXCEPT !.index = i, !.num[r] = n] \in ScheduleType
<1>1. [q.num EXCEPT ![r] = n] \in [Requests -> Int]
  BY DEF ScheduleType
<1>2. QED BY <1>1 DEF ScheduleType

LEMMA PreemptedUpdate ==
    ASSUME NEW q \in ScheduleType,
           NEW p \in BOOLEAN
    PROVE  [q EXCEPT !.preempted = p] \in ScheduleType
BY DEF ScheduleType

LEMMA SkippedUpdate ==
    ASSUME NEW q \in ScheduleType,
           NEW l \in Seq(Requests)
    PROVE  [q EXCEPT !.skipped = l] \in ScheduleType
BY DEF ScheduleType

LEMMA AdmittedUpdate ==
    ASSUME NEW q \in ScheduleType,
           NEW r \in Requests, NEW n \in Int, NEW sy \in SUBSET (Nat \ {0})
    PROVE  [q EXCEPT !.num[r] = n, !.sync[r] = sy] \in ScheduleType
<1>1. [q.num EXCEPT ![r] = n] \in [Requests -> Int]
  BY DEF ScheduleType
<1>2. [q.sync EXCEPT ![r] = sy] \in [Requests -> SUBSET (Nat \ {0})]
  BY DEF ScheduleType
<1>3. QED BY <1>1, <1>2 DEF ScheduleType

LEMMA RightUpdate ==
    ASSUME NEW q \in ScheduleType,
           NEW S \in SUBSET Requests
    PROVE  [q EXCEPT !.right = S] \in ScheduleType
BY DEF ScheduleType

LEMMA PendingUpdate ==
    ASSUME NEW q \in ScheduleType,
           NEW S \in SUBSET Requests
    PROVE  [q EXCEPT !.pending = S] \in ScheduleType
BY DEF ScheduleType

LEMMA FailingUpdate ==
    ASSUME NEW q \in ScheduleType,
           NEW S \in SUBSET Requests, NEW T \in SUBSET Requests
    PROVE  [q EXCEPT !.pending = S, !.failing = T] \in ScheduleType
BY DEF ScheduleType

LEMMA TypeOfInit == Init => TypeOK
<1> SUFFICES ASSUME Init PROVE TypeOK
  OBVIOUS
<1>1. BlockSize \in Nat /\ <<>> \in Seq(Requests) /\ <<>> \in Seq(Blocks)
  BY ConstantTypes
<1>2. \A r \in Requests : NewRequest(r) \in RequestType
  BY ConstantTypes DEF NewRequest, RequestType, Statuses, NotScheduledYet
<1>3. sch \in ScheduleType
  BY <1>1 DEF Init, NoSchedule, ScheduleType
<1>4. key \in [Blocks -> (Requests \cup {NoRequest}) \X Nat]
  BY DEF Init, NoKey
<1>5. QED BY <1>1, <1>2, <1>3, <1>4 DEF Init, TypeOK, RequestType, ScheduleType

LEMMA TypeOfAddRequest == \A r \in Requests : TypeOK /\ AddRequest(r) => TypeOK'
<1> SUFFICES ASSUME NEW r \in Requests, TypeOK, AddRequest(r) PROVE TypeOK'
  OBVIOUS
<1>1. waiting' \in Seq(Requests)
  BY DEF TypeOK, AddRequest
<1>2. req' \in [Requests -> RequestType]
  <2>1. req \in [Requests -> RequestType] /\ "WAITING" \in Statuses
    BY DEF TypeOK, RequestType, Statuses
  <2> DEFINE q == [req[r] EXCEPT !.status = "WAITING"]
  <2>2. q \in RequestType
    BY <2>1, StatusUpdate
  <2>3. req' = [req EXCEPT ![r] = q]
    BY DEF AddRequest
  <2> HIDE DEF q
  <2>4. QED BY <2>1, <2>2, <2>3
<1>3. QED BY <1>1, <1>2 DEF TypeOK, RequestType, AddRequest, cacheVars, recvVars, workerVars, Blocks

LEMMA TypeOfBeginSchedule == TypeOK /\ BeginSchedule => TypeOK'
BY DEF TypeOK, BeginSchedule, engineVars, cacheVars, recvVars, workerVars, Blocks

LEMMA NewTokensType ==
    ASSUME TypeOK, NEW r \in Requests, NEW c \in Int
    PROVE  NewTokens(r, c) \in Int
BY StateTypes, ConstantTypes DEF NewTokens, Least

\* What the running loop visits.
LEMMA RunningRequest ==
    ASSUME TypeOK, InRunningLoop
    PROVE  /\ running[sch.index] \in Requests /\ sch.index \in 1 .. Len(running)
           /\ DOMAIN running = 1 .. Len(running)
           /\ Len(running) \in Nat /\ running # <<>>
           /\ Last(running) \in Requests /\ Last(running) = running[Len(running)]
<1>1. sch.index \in Nat \ {0} /\ running \in Seq(Requests)
  BY DEF TypeOK
<1>2. Len(running) \in Nat /\ sch.index \in 1 .. Len(running)
  BY <1>1 DEF InRunningLoop
<1>3. running[sch.index] \in Requests /\ Len(running) \in 1 .. Len(running)
  BY <1>1, <1>2
<1>4. running[Len(running)] \in Requests
  BY <1>1, <1>3
<1>5. QED BY <1>1, <1>2, <1>3, <1>4 DEF Last

LEMMA TypeOfRunningSchedule == TypeOK /\ RunningSchedule => TypeOK'
<1> SUFFICES ASSUME TypeOK, RunningSchedule PROVE TypeOK'
  OBVIOUS
<1> DEFINE r == running[sch.index]
           n == NewTokens(r, req[r].computed)
<1>1. InRunningLoop
  BY DEF RunningSchedule
<1>2. r \in Requests /\ req[r].computed \in Int /\ table[r] \in Seq(Blocks)
  BY <1>1, RunningRequest, StateTypes
<1>3. n \in Int
  BY <1>2, NewTokensType
<1>4. /\ Allocate(r, table[r], req[r].computed + n, req[r].computed + n)
      /\ sch' = [sch EXCEPT !.index = @ + 1, !.num[r] = n]
  BY DEF RunningSchedule
<1> HIDE DEF n
<1> DEFINE total == req[r].computed + n
           hit == table[r]
<1>5. total \in Int /\ hit \in Seq(Blocks) /\ total <= total
  BY <1>2, <1>3
<1>6. Allocate(r, hit, total, total)
  BY <1>4
<1> HIDE DEF r, total, hit
<1>7. PICK new, t : Allocated(r, hit, total, total, new, t)
  BY <1>2, <1>5, <1>6, AllocateFacts
<1>8. table' \in [Requests -> Seq(Blocks)]
  BY <1>2, <1>7 DEF Allocated, TypeOK
<1>9. sch' \in ScheduleType
  <2>1. sch \in ScheduleType /\ sch.index + 1 \in Nat \ {0}
    BY DEF TypeOK, ScheduleType
  <2>2. [sch EXCEPT !.index = sch.index + 1, !.num[r] = n] \in ScheduleType
    BY <1>2, <1>3, <2>1, IndexUpdate
  <2>3. QED BY <1>4, <2>2
<1>10. UNCHANGED <<cfg, engineVars, phase, recvVars, workerVars>> /\ Blocks' = Blocks
  BY DEF RunningSchedule, Blocks
<1>11. /\ filled' \in [Blocks -> 0 .. BlockSize]
       /\ key' \in [Blocks -> (Requests \cup {NoRequest}) \X Nat]
  BY <1>7 DEF Allocated
<1>12. QED
  BY <1>8, <1>9, <1>10, <1>11
  DEF ScheduleType, TypeOK, engineVars, recvVars, workerVars

LEMMA FrontFacts ==
    ASSUME NEW S, NEW s \in Seq(S), s # <<>>
    PROVE  /\ Front(s) = RemoveAt(s, Len(s)) /\ Len(s) \in 1 .. Len(s)
           /\ Last(s) = s[Len(s)] /\ Last(s) \in S
<1>1. Len(s) \in Nat /\ Len(s) \in 1 .. Len(s) /\ s[Len(s)] \in S
  OBVIOUS
<1> DEFINE u == Front(s)
           v == RemoveAt(s, Len(s))
<1>2. u \in Seq(S) /\ Len(u) = Len(s) - 1 /\ \A j \in 1 .. Len(s) - 1 : u[j] = s[j]
  <2> DEFINE m == Len(s) - 1
  <2>1. m \in Nat /\ m \in Int /\ 1 \in Int /\ \A j \in 1 .. m : s[j] \in S
    BY <1>1, ElementOfSeq
  <2>2. u = SubSeq(s, 1, m)
    BY DEF Front
  <2> HIDE DEF m, u
  <2>3. u \in Seq(S) /\ Len(u) = (IF 1 <= m THEN m - 1 + 1 ELSE 0)
        /\ \A j \in 1 .. m - 1 + 1 : u[j] = s[1 + j - 1]
    BY <2>1, <2>2, SubSeqProperties
  <2>4. u \in Seq(S) /\ Len(u) = m /\ \A j \in 1 .. m : u[j] = s[j]
    BY <2>1, <2>3
  <2>5. QED BY <2>4 DEF m
<1>3. v \in Seq(S) /\ Len(v) = Len(s) - 1 /\ \A j \in 1 .. Len(s) - 1 : v[j] = s[j]
  BY <1>1, RemoveAtIsSeq
<1> HIDE DEF u, v
<1>4. u = v
  BY <1>2, <1>3, SeqEqual
<1>5. QED BY <1>1, <1>4 DEF u, v, Last

LEMMA TypeOfRunningPreempt == TypeOK /\ RunningPreempt => TypeOK'
<1> SUFFICES ASSUME TypeOK, RunningPreempt PROVE TypeOK'
  OBVIOUS
<1> DEFINE v == Last(running)
<1>1. InRunningLoop
  BY DEF RunningPreempt
<1>2. v \in Requests /\ running # <<>> /\ running \in Seq(Requests)
  BY <1>1, RunningRequest DEF TypeOK
<1>3. /\ running' = Front(running) /\ waiting' = <<v>> \o waiting
      /\ req' = [req EXCEPT ![v].status = "PREEMPTED", ![v].computed = 0,
                            ![v].preempted = TRUE]
      /\ table' = [table EXCEPT ![v] = <<>>]
      /\ sch' = [sch EXCEPT !.preempted = TRUE]
  BY DEF RunningPreempt
<1>4. running' \in Seq(Requests)
  <2>1. RemoveAt(running, Len(running)) \in Seq(Requests)
    BY <1>2, FrontFacts, RemoveAtIsSeq
  <2>2. QED BY <1>2, <1>3, <2>1, FrontFacts
<1> HIDE DEF v
<1>5. waiting' \in Seq(Requests)
  BY <1>2, <1>3 DEF TypeOK
<1>6. req' \in [Requests -> RequestType]
  <2>1. req \in [Requests -> RequestType] /\ "PREEMPTED" \in Statuses
    BY DEF TypeOK, RequestType, Statuses
  <2> DEFINE o == req[v]
             q == [o EXCEPT !.status = "PREEMPTED", !.computed = 0, !.preempted = TRUE]
  <2>5. req' = [req EXCEPT ![v] = q]
    BY <1>3
  <2>6. o \in RequestType /\ 0 \in Int /\ TRUE \in BOOLEAN
    BY <1>2, <2>1
  <2> HIDE DEF o
  <2>7. q \in RequestType
    BY <2>1, <2>6, PreemptUpdate
  <2> HIDE DEF q
  <2>8. QED BY <2>1, <2>5, <2>7
<1>7. table' \in [Requests -> Seq(Blocks)]
  BY <1>2, <1>3 DEF TypeOK
<1>8. sch' \in ScheduleType
  BY <1>3 DEF TypeOK, ScheduleType
<1>9. QED
  BY <1>4, <1>5, <1>6, <1>7, <1>8
  DEF TypeOK, RequestType, ScheduleType, RunningPreempt, recvVars, workerVars, Blocks

LEMMA TypeOfRunningDone == TypeOK /\ RunningDone => TypeOK'
BY DEF TypeOK, RunningDone, engineVars, cacheVars, recvVars, workerVars, Blocks

\* What the waiting loop looks at.
LEMMA WaitingRequest ==
    ASSUME TypeOK, InWaitingLoop
    PROVE  /\ waiting \in Seq(Requests) /\ waiting # <<>>
           /\ Head(waiting) \in Requests /\ Tail(waiting) \in Seq(Requests)
           /\ Head(waiting) = waiting[1] /\ 1 \in DOMAIN waiting
           /\ Head(waiting) \in ToSet(waiting)
<1>1. waiting \in Seq(Requests) /\ waiting # <<>>
  BY DEF TypeOK, InWaitingLoop
<1>2. Head(waiting) = waiting[1] /\ Head(waiting) \in Requests
      /\ Tail(waiting) \in Seq(Requests)
  BY <1>1, TailMoves
<1>3. 1 \in DOMAIN waiting
  BY <1>1
<1>4. QED BY <1>1, <1>2, <1>3 DEF ToSet

\* cache_blocks enters blocks of r, and no others.
LEMMA CacheUpToFacts ==
    ASSUME TypeOK, NEW r \in Requests, NEW n \in Int, CacheUpTo(r, n)
    PROVE  /\ key' \in [Blocks -> (Requests \cup {NoRequest}) \X Nat]
           /\ \A b \in Blocks : key'[b] # key[b] => b \in Held(r)
<1> DEFINE t == table[r]
           m == Least(n \div BlockSize, Len(t))
           position(b) == CHOOSE i \in DOMAIN t : t[i] = b
<1>1. /\ BlockSize \in Nat /\ BlockSize > 0 /\ Len(t) \in Nat /\ DOMAIN t = 1 .. Len(t)
      /\ \A b \in Blocks : key[b] \in (Requests \cup {NoRequest}) \X Nat
  BY ConstantTypes, StateTypes DEF TypeOK
<1>2. key' = [b \in Blocks |-> IF \E i \in 1 .. m : t[i] = b
                              THEN Key(r, position(b)) ELSE key[b]]
  BY DEF CacheUpTo
<1>3. m \in Int /\ m <= Len(t)
  <2> DEFINE k == n \div BlockSize
  <2>1. k \in Int
    BY <1>1
  <2> HIDE DEF k
  <2>2. QED BY <1>1, <2>1 DEF Least, k
<1> HIDE DEF m
<1>4. \A i \in 1 .. m : i \in DOMAIN t
  BY <1>1, <1>3
<1>5. \A b \in Blocks : (\E i \in 1 .. m : t[i] = b) =>
          position(b) \in DOMAIN t /\ t[position(b)] = b
  BY <1>4
<1> HIDE DEF position
<1>6. \A i \in DOMAIN t : Key(r, i) \in (Requests \cup {NoRequest}) \X Nat
  <2>1. \A i \in DOMAIN t : i \in Nat \ {0}
    BY <1>1
  <2>2. QED BY <2>1, KeyFacts
<1>7. key' \in [Blocks -> (Requests \cup {NoRequest}) \X Nat]
  BY <1>1, <1>2, <1>5, <1>6
<1>8. \A b \in Blocks : key'[b] # key[b] => b \in Held(r)
  BY <1>2, <1>4 DEF Held
<1>9. QED BY <1>7, <1>8

LEMMA LoadedTokensFacts ==
    ASSUME TypeOK, NEW r \in Requests
    PROVE  /\ LoadedTokens(r) \in Int /\ LoadedTokens(r) < req[r].tokens
           /\ LoadedTokens(r) <= Len(table[r]) * BlockSize
<1> DEFINE m == Len(table[r]) * BlockSize
<1>1. m \in Int /\ req[r].tokens \in Nat
  BY ConstantTypes, StateTypes
<1> HIDE DEF m
<1>2. LoadedTokens(r) = LET n == Least(m, req[r].tokens)
                        IN  IF n = req[r].tokens THEN n - 1 ELSE n
  BY DEF LoadedTokens, m
<1>3. LoadedTokens(r) \in Int /\ LoadedTokens(r) < req[r].tokens /\ LoadedTokens(r) <= m
  BY <1>1, <1>2 DEF Least
<1>4. QED BY <1>3 DEF m

LEMMA TypeOfRemoteReady == TypeOK /\ RemoteReady => TypeOK'
<1> SUFFICES ASSUME TypeOK, RemoteReady PROVE TypeOK'
  OBVIOUS
<1> DEFINE r == Head(waiting)
           failed == r \in failed_recving_kv_req_ids
           n == IF failed THEN req[r].computed ELSE LoadedTokens(r)
           st == IF req[r].preempted THEN "PREEMPTED" ELSE "WAITING"
<1>1. r \in Requests
  BY WaitingRequest DEF RemoteReady
<1>2. n \in Int /\ st \in Statuses
  BY <1>1, StateTypes, LoadedTokensFacts DEF Statuses
<1>3. /\ IF failed /\ n = 0
         THEN table' = [table EXCEPT ![r] = <<>>] /\ UNCHANGED key
         ELSE CacheUpTo(r, n) /\ UNCHANGED table
      /\ req' = [req EXCEPT ![r].computed = n, ![r].status = st]
      /\ finished_recving_kv_req_ids' = finished_recving_kv_req_ids \ {r}
      /\ failed_recving_kv_req_ids' = StillFailed(r)
      /\ UNCHANGED <<cfg, waiting, running, filled, phase, sch, workerVars>>
  BY DEF RemoteReady
<1>8. Blocks' = Blocks
  BY <1>3 DEF Blocks
<1> HIDE DEF r, n, st
<1>4. req' \in [Requests -> RequestType]
  <2>1. req \in [Requests -> RequestType]
    BY DEF TypeOK, RequestType
  <2> DEFINE o == req[r]
             q == [o EXCEPT !.computed = n, !.status = st]
  <2>2. req' = [req EXCEPT ![r] = q]
    BY <1>3
  <2>3. o \in RequestType
    BY <1>1, <2>1
  <2> HIDE DEF o
  <2>4. q \in RequestType
    BY <1>2, <2>3, ReadyUpdate
  <2> HIDE DEF q
  <2>5. QED BY <2>1, <2>2, <2>4
<1>5. table' \in [Requests -> Seq(Blocks)]
  <2>1. table \in [Requests -> Seq(Blocks)] /\ <<>> \in Seq(Blocks)
    BY DEF TypeOK
  <2>2. table' = table \/ table' = [table EXCEPT ![r] = <<>>]
    BY <1>3
  <2>3. QED BY <1>1, <2>1, <2>2
<1>6. key' \in [Blocks -> (Requests \cup {NoRequest}) \X Nat]
  <2>1. key \in [Blocks -> (Requests \cup {NoRequest}) \X Nat]
    BY DEF TypeOK
  <2>2. CacheUpTo(r, n) => key' \in [Blocks -> (Requests \cup {NoRequest}) \X Nat]
    BY <1>1, <1>2, CacheUpToFacts
  <2>3. QED BY <1>3, <2>1, <2>2
<1>7. finished_recving_kv_req_ids' \subseteq Requests /\ failed_recving_kv_req_ids' \subseteq Requests
  BY <1>3 DEF TypeOK, StillFailed
<1>9. QED
  BY <1>3, <1>4, <1>5, <1>6, <1>7, <1>8 DEF TypeOK, RequestType, workerVars

\* A head that is put aside.
LEMMA SkipHeadType ==
    ASSUME TypeOK, InWaitingLoop, SkipHead
    PROVE  waiting' \in Seq(Requests) /\ sch' \in ScheduleType
<1>1. Head(waiting) \in Requests /\ Tail(waiting) \in Seq(Requests)
  BY WaitingRequest
<1>2. sch \in ScheduleType /\ sch.skipped \in Seq(Requests)
  BY DEF TypeOK, ScheduleType
<1> DEFINE l == Append(sch.skipped, Head(waiting))
<1>3. l \in Seq(Requests)
  BY <1>1, <1>2, AppendElements
<1>4. sch' = [sch EXCEPT !.skipped = l] /\ waiting' = Tail(waiting)
  BY DEF SkipHead
<1> HIDE DEF l
<1>5. QED BY <1>1, <1>2, <1>3, <1>4, SkippedUpdate

LEMMA TypeOfRemoteSkip == TypeOK /\ RemoteSkip => TypeOK'
<1> SUFFICES ASSUME TypeOK, RemoteSkip PROVE TypeOK'
  OBVIOUS
<1>1. waiting' \in Seq(Requests) /\ sch' \in ScheduleType
  BY SkipHeadType DEF RemoteSkip
<1>2. QED
  BY <1>1 DEF TypeOK, ScheduleType, RemoteSkip, cacheVars, recvVars, workerVars, Blocks

LEMMA TypeOfConnectorUndecided == TypeOK /\ ConnectorUndecided => TypeOK'
<1> SUFFICES ASSUME TypeOK, ConnectorUndecided PROVE TypeOK'
  OBVIOUS
<1>1. waiting' \in Seq(Requests) /\ sch' \in ScheduleType
  BY SkipHeadType DEF ConnectorUndecided
<1>2. QED
  BY <1>1 DEF TypeOK, ScheduleType, ConnectorUndecided, cacheVars, recvVars, workerVars, Blocks

LEMMA LeaveType ==
    ASSUME TypeOK, LeaveWaitingLoop
    PROVE  waiting' \in Seq(Requests) /\ sch' \in ScheduleType /\ phase' = "close"
<1>1. sch \in ScheduleType /\ sch.skipped \in Seq(Requests) /\ waiting \in Seq(Requests)
      /\ <<>> \in Seq(Requests)
  BY DEF TypeOK, ScheduleType
<1>2. sch' = [sch EXCEPT !.skipped = <<>>] /\ waiting' = sch.skipped \o waiting
      /\ phase' = "close"
  BY DEF LeaveWaitingLoop
<1>3. waiting' \in Seq(Requests)
  BY <1>1, <1>2, ConcatElements
<1>4. QED BY <1>1, <1>2, <1>3, SkippedUpdate

LEMMA TypeOfWaitingBlocked == TypeOK /\ WaitingBlocked => TypeOK'
<1> SUFFICES ASSUME TypeOK, WaitingBlocked PROVE TypeOK'
  OBVIOUS
<1>1. waiting' \in Seq(Requests) /\ sch' \in ScheduleType /\ phase' = "close"
  BY LeaveType DEF WaitingBlocked
<1>2. QED
  BY <1>1 DEF TypeOK, ScheduleType, WaitingBlocked, cacheVars, recvVars, workerVars, Blocks

LEMMA TypeOfWaitingDone == TypeOK /\ WaitingDone => TypeOK'
<1> SUFFICES ASSUME TypeOK, WaitingDone PROVE TypeOK'
  OBVIOUS
<1>1. waiting' \in Seq(Requests) /\ sch' \in ScheduleType /\ phase' = "close"
  BY LeaveType DEF WaitingDone
<1>2. QED
  BY <1>1 DEF TypeOK, ScheduleType, WaitingDone, cacheVars, recvVars, workerVars, Blocks

\* What an asynchronous load does: the head's new table, which leaves its last block
\* only where a token is, and the load of the blocks beyond the hit.
Loading(r, hit, n, new, t) ==
    /\ Allocated(r, hit, Len(hit) * BlockSize + n, 0, new, t)
    /\ load' = [load EXCEPT ![r] =
                  [i \in Positions(Len(hit) * BlockSize, Len(hit) * BlockSize + n) |-> t[i]]]

LEMMA WaitingLoadFacts ==
    ASSUME TypeOK, WaitingLoad
    PROVE  LET r == Head(waiting)
               hit == LocalHit(r)
           IN  /\ r \in Requests /\ r \in ToSet(waiting)
               /\ req[r].status \in {"WAITING", "PREEMPTED"}
               /\ \E n, new, t : /\ n \in External(r, Len(hit) * BlockSize)
                                 /\ Loading(r, hit, n, new, t)
                                 /\ AllocatedKeys(r, hit, 0, new, t)
<1> DEFINE r == Head(waiting)
           hit == LocalHit(r)
           local == Len(hit) * BlockSize
<1>1. r \in Requests /\ r \in ToSet(waiting)
  BY WaitingRequest DEF WaitingLoad
<1>2. Admittable(r)
  BY DEF WaitingLoad
<1>3. PICK n \in External(r, local) :
         /\ Allocate(r, hit, local + n, 0)
         /\ load' = [load EXCEPT ![r] = [i \in Positions(local, local + n) |-> table'[r][i]]]
  BY DEF WaitingLoad
<1>4. /\ hit \in Seq(Blocks) /\ local \in Nat /\ req[r].tokens \in Nat
      /\ n \in Int /\ n >= 1 /\ n <= req[r].tokens - local
  <2>1. hit \in Seq(Blocks) /\ Len(hit) \in Nat /\ req[r].tokens \in Nat /\ BlockSize \in Nat
    BY <1>1, LocalHitFacts, StateTypes, ConstantTypes
  <2>2. local \in Nat
    BY <2>1
  <2> HIDE DEF local
  <2>3. n \in 1 .. req[r].tokens - local
    BY DEF External
  <2>4. QED BY <2>1, <2>2, <2>3
<1> DEFINE total == local + n
<1>5. total \in Int /\ 0 <= total /\ 0 \in Int
  BY <1>4
<1>6. \E new, t : Allocated(r, hit, total, 0, new, t) /\ AllocatedKeys(r, hit, 0, new, t)
  <2>1. Allocate(r, hit, total, 0)
    BY <1>3
  <2> HIDE DEF total, hit, r
  <2>2. QED BY <1>1, <1>4, <1>5, <2>1, AllocateFacts
<1>7. PICK new, t : Allocated(r, hit, total, 0, new, t) /\ AllocatedKeys(r, hit, 0, new, t)
  BY <1>6
<1>8. table'[r] = t
  <2>1. table' = [table EXCEPT ![r] = t] /\ table \in [Requests -> Seq(Blocks)]
    BY <1>7 DEF Allocated, TypeOK
  <2> HIDE DEF r
  <2>2. QED BY <1>1, <2>1
<1>9. Loading(r, hit, n, new, t)
  BY <1>3, <1>7, <1>8 DEF Loading
<1>10. QED BY <1>1, <1>2, <1>3, <1>7, <1>9 DEF Admittable

LEMMA TypeOfWaitingLoad == TypeOK /\ WaitingLoad => TypeOK'
<1> SUFFICES ASSUME TypeOK, WaitingLoad PROVE TypeOK'
  OBVIOUS
<1> DEFINE r == Head(waiting)
           hit == LocalHit(r)
<1>1. PICK n, new, t : Loading(r, hit, n, new, t)
  BY WaitingLoadFacts
<1>2. r \in Requests
  BY WaitingLoadFacts
<1>3. waiting' \in Seq(Requests) /\ sch' \in ScheduleType
  BY SkipHeadType DEF WaitingLoad
<1>4. /\ loading' = loading \cup {r}
      /\ req' = [req EXCEPT ![r].status = "WAITING_FOR_REMOTE_KVS"]
      /\ UNCHANGED <<cfg, running, phase, recvVars, held, report, failures>>
  BY DEF WaitingLoad
<1> HIDE DEF r
<1>5. req' \in [Requests -> RequestType]
  <2>1. req \in [Requests -> RequestType] /\ "WAITING_FOR_REMOTE_KVS" \in Statuses
    BY DEF TypeOK, RequestType, Statuses
  <2> DEFINE o == req[r]
             q == [o EXCEPT !.status = "WAITING_FOR_REMOTE_KVS"]
  <2>2. req' = [req EXCEPT ![r] = q]
    BY <1>4
  <2>3. o \in RequestType
    BY <1>2, <2>1
  <2> HIDE DEF o
  <2>4. q \in RequestType
    BY <2>1, <2>3, StatusUpdate
  <2> HIDE DEF q
  <2>5. QED BY <2>1, <2>2, <2>4
<1>6. /\ table' = [table EXCEPT ![r] = t] /\ t \in Seq(Blocks)
      /\ filled' \in [Blocks -> 0 .. BlockSize]
      /\ key' \in [Blocks -> (Requests \cup {NoRequest}) \X Nat]
  BY <1>1 DEF Loading, Allocated
<1>7. table' \in [Requests -> Seq(Blocks)]
  BY <1>2, <1>6 DEF TypeOK
<1>8. load' = [s \in Requests |-> load'[s]]
  <2>1. \E l : load' = [load EXCEPT ![r] = l]
    BY <1>1 DEF Loading
  <2>2. load = [s \in Requests |-> load[s]]
    BY DEF TypeOK
  <2>3. QED BY <2>1, <2>2
<1>9. Blocks' = Blocks /\ loading' \subseteq Requests
  BY <1>2, <1>4 DEF TypeOK, Blocks
<1>10. QED
  BY <1>3, <1>4, <1>5, <1>6, <1>7, <1>8, <1>9
  DEF TypeOK, RequestType, ScheduleType, recvVars

\* The three ways to be admitted: with what a finished load has left, with the cached
\* prefix, or with that and a load inside the step.
AdmittedWith(r, hit, computed, sync) ==
    \/ req[r].computed > 0 /\ hit = table[r] /\ computed = req[r].computed /\ sync = {}
    \/ req[r].computed = 0 /\ hit = LocalHit(r) /\ computed = Len(hit) * BlockSize /\ sync = {}
    \/ /\ req[r].computed = 0 /\ ~cfg.async /\ hit = LocalHit(r)
       /\ \E n \in External(r, Len(hit) * BlockSize) :
             /\ computed = Len(hit) * BlockSize + n
             /\ sync = Positions(Len(hit) * BlockSize, computed)

LEMMA WaitingAdmitFacts ==
    ASSUME TypeOK, WaitingAdmit
    PROVE  LET r == Head(waiting)
           IN  /\ r \in Requests /\ r \in ToSet(waiting)
               /\ req[r].status \in {"WAITING", "PREEMPTED"}
               /\ \E hit, computed, sync, new, t :
                    LET total == computed + NewTokens(r, computed)
                    IN  /\ AdmittedWith(r, hit, computed, sync)
                        /\ Admit(r, hit, computed, sync)
                        /\ hit \in Seq(Blocks) /\ computed \in Int
                        /\ sync \in SUBSET (Nat \ {0})
                        /\ total \in Int
                        /\ Allocated(r, hit, total, total, new, t)
                        /\ AllocatedKeys(r, hit, total, new, t)
<1> DEFINE r == Head(waiting)
           local == Len(LocalHit(r)) * BlockSize
<1>1. r \in Requests /\ r \in ToSet(waiting) /\ Admittable(r)
  BY WaitingRequest DEF WaitingAdmit
<1>2. \E hit, computed, sync : AdmittedWith(r, hit, computed, sync) /\ Admit(r, hit, computed, sync)
  BY DEF WaitingAdmit, AdmittedWith
<1>3. PICK hit, computed, sync :
          AdmittedWith(r, hit, computed, sync) /\ Admit(r, hit, computed, sync)
  BY <1>2
<1>4. /\ LocalHit(r) \in Seq(Blocks) /\ Len(LocalHit(r)) \in Nat /\ local \in Nat
      /\ req[r].tokens \in Nat /\ req[r].computed \in Int /\ table[r] \in Seq(Blocks)
  <2>1. LocalHit(r) \in Seq(Blocks) /\ Len(LocalHit(r)) \in Nat /\ BlockSize \in Nat
    BY <1>1, LocalHitFacts, ConstantTypes
  <2>2. QED BY <1>1, <2>1, StateTypes
<1> HIDE DEF r, local
<1>5. hit \in Seq(Blocks)
  BY <1>3, <1>4 DEF AdmittedWith
<1>6. computed \in Int /\ sync \in SUBSET (Nat \ {0})
  <2>1. CASE sync = {}
    <3>1. CASE \E n \in External(r, local) : computed = local + n
      <4>1. \A n \in External(r, local) : n \in Int
        BY <1>4 DEF External
      <4>2. QED BY <1>4, <2>1, <3>1, <4>1
    <3>2. CASE computed = req[r].computed \/ computed = local
      BY <1>4, <2>1, <3>2
    <3>3. QED BY <1>3, <3>1, <3>2 DEF AdmittedWith, local
  <2>2. CASE \E n \in External(r, local) :
                computed = local + n /\ sync = Positions(local, computed)
    <3>1. PICK n \in External(r, local) : computed = local + n /\ sync = Positions(local, computed)
      BY <2>2
    <3>2. n \in Int /\ BlockSize \in Nat /\ BlockSize > 0
      BY <1>4, ConstantTypes DEF External
    <3>3. computed \in Int /\ local \div BlockSize \in Nat
      BY <1>4, <3>1, <3>2
    <3>4. CeilDiv(computed, BlockSize) \in Int
      BY <3>2, <3>3, CeilDivFacts
    <3>5. QED BY <3>1, <3>3, <3>4 DEF Positions
  <2>3. QED BY <1>3, <2>1, <2>2 DEF AdmittedWith, local
<1> DEFINE total == computed + NewTokens(r, computed)
<1>7. total \in Int /\ total <= total
  BY <1>1, <1>6, NewTokensType
<1>8. Allocate(r, hit, total, total)
  BY <1>3 DEF Admit
<1>9. \E new, t : Allocated(r, hit, total, total, new, t) /\ AllocatedKeys(r, hit, total, new, t)
  <2> HIDE DEF total
  <2>1. QED BY <1>1, <1>5, <1>7, <1>8, AllocateFacts
<1>10. QED BY <1>1, <1>3, <1>5, <1>6, <1>7, <1>9 DEF Admittable, r

LEMMA TypeOfWaitingAdmit == TypeOK /\ WaitingAdmit => TypeOK'
<1> SUFFICES ASSUME TypeOK, WaitingAdmit PROVE TypeOK'
  OBVIOUS
<1> DEFINE r == Head(waiting)
<1>1. PICK hit, computed, sync, new, t :
         /\ Admit(r, hit, computed, sync) /\ computed \in Int /\ sync \in SUBSET (Nat \ {0})
         /\ Allocated(r, hit, computed + NewTokens(r, computed),
                      computed + NewTokens(r, computed), new, t)
  BY WaitingAdmitFacts
<1>2. /\ r \in Requests /\ InWaitingLoop
      /\ UNCHANGED <<cfg, phase, recvVars, workerVars>>
  BY WaitingAdmitFacts DEF WaitingAdmit
<1> DEFINE n == NewTokens(r, computed)
           cached == IF req[r].cached = NotScheduledYet THEN computed ELSE req[r].cached
<1>3. n \in Int /\ cached \in Int
  BY <1>1, <1>2, NewTokensType, StateTypes
<1>4. /\ sch' = [sch EXCEPT !.num[r] = n, !.sync[r] = sync]
      /\ req' = [req EXCEPT ![r].status = "RUNNING", ![r].computed = computed,
                            ![r].cached = cached]
      /\ waiting' = Tail(waiting) /\ running' = Append(running, r)
  BY <1>1 DEF Admit
<1>5. waiting' \in Seq(Requests) /\ running' \in Seq(Requests)
  <2>1. Tail(waiting) \in Seq(Requests) /\ running \in Seq(Requests)
    BY <1>2, WaitingRequest DEF TypeOK
  <2> HIDE DEF r
  <2>2. QED BY <1>2, <1>4, <2>1, AppendElements
<1> HIDE DEF r, n, cached
<1>6. req' \in [Requests -> RequestType]
  <2>1. req \in [Requests -> RequestType] /\ "RUNNING" \in Statuses
    BY DEF TypeOK, RequestType, Statuses
  <2> DEFINE o == req[r]
             q == [o EXCEPT !.status = "RUNNING", !.computed = computed, !.cached = cached]
  <2>2. req' = [req EXCEPT ![r] = q]
    BY <1>4
  <2>3. o \in RequestType
    BY <1>2, <2>1
  <2> HIDE DEF o
  <2>4. q \in RequestType
    BY <1>1, <1>3, <2>1, <2>3, AdmitUpdate
  <2> HIDE DEF q
  <2>5. QED BY <2>1, <2>2, <2>4
<1>7. sch' \in ScheduleType
  <2>1. sch \in ScheduleType
    BY DEF TypeOK, ScheduleType
  <2>2. QED BY <1>1, <1>2, <1>3, <1>4, <2>1, AdmittedUpdate
<1>8. /\ table' = [table EXCEPT ![r] = t] /\ t \in Seq(Blocks)
      /\ filled' \in [Blocks -> 0 .. BlockSize]
      /\ key' \in [Blocks -> (Requests \cup {NoRequest}) \X Nat]
  BY <1>1 DEF Allocated
<1>9. table' \in [Requests -> Seq(Blocks)]
  BY <1>2, <1>8 DEF TypeOK
<1>10. Blocks' = Blocks
  BY <1>2 DEF Blocks
<1>11. QED
  BY <1>2, <1>5, <1>6, <1>7, <1>8, <1>9, <1>10
  DEF TypeOK, RequestType, ScheduleType, recvVars, workerVars

LEMMA TypeOfEndSchedule == TypeOK /\ EndSchedule => TypeOK'
<1> SUFFICES ASSUME TypeOK, EndSchedule PROVE TypeOK'
  OBVIOUS
<1>1. ASSUME NEW r \in Requests
      PROVE  [req[r] EXCEPT !.computed = @ + sch.num[r]] \in RequestType
  <2> DEFINE o == req[r]
             n == o.computed + sch.num[r]
  <2>1. o \in RequestType /\ n \in Int
    BY StateTypes DEF TypeOK, RequestType
  <2> HIDE DEF n
  <2>2. [o EXCEPT !.computed = n] \in RequestType
    BY <2>1, ComputedUpdate
  <2>3. QED BY <2>2 DEF n
<1>2. req' \in [Requests -> RequestType]
  BY <1>1 DEF EndSchedule
<1>3. QED
  BY <1>2 DEF TypeOK, RequestType, EndSchedule, cacheVars, recvVars, workerVars, Blocks

\* A load writes into blocks.
LEMMA LoadBlocks ==
    ASSUME TypeOK, LoadsUnderWay, NEW r \in Requests, NEW i \in DOMAIN load[r]
    PROVE  /\ r \in loading /\ i \in DOMAIN table[r] /\ load[r][i] = table[r][i]
           /\ load[r][i] \in Blocks /\ load[r][i] \in Held(r)
           /\ i \in Int /\ (i - 1) * BlockSize < PromptLen[r]
<1>1. r \in loading
  <2>1. r \notin loading => load[r] = <<>>
    BY DEF LoadsUnderWay
  <2>2. DOMAIN <<>> = {}
    OBVIOUS
  <2>3. QED BY <2>1, <2>2
<1>2. i \in DOMAIN table[r] /\ load[r][i] = table[r][i] /\ (i - 1) * BlockSize < PromptLen[r]
  BY <1>1 DEF LoadsUnderWay
<1>3. i \in 1 .. Len(table[r]) /\ Len(table[r]) \in Nat /\ table[r][i] \in Blocks
  BY <1>2, StateTypes
<1>4. QED BY <1>1, <1>2, <1>3 DEF Held

LEMMA TypeOfLoadFails ==
    \A r \in Requests : TypeOK /\ LoadsUnderWay /\ LoadFails(r) => TypeOK'
<1> SUFFICES ASSUME NEW r \in Requests, TypeOK, LoadsUnderWay, LoadFails(r) PROVE TypeOK'
  OBVIOUS
<1>1. PICK bad \in SUBSET DOMAIN load[r] :
         /\ report' = [report EXCEPT !.invalid = @ \cup {load[r][i] : i \in bad}]
         /\ load' = [load EXCEPT ![r] = Restrict(@, DOMAIN @ \ bad)]
  BY DEF LoadFails
<1>2. {load[r][i] : i \in bad} \subseteq Blocks
  BY LoadBlocks
<1>3. report' \in [invalid : SUBSET Blocks, recving : SUBSET Requests,
                   sending : SUBSET Requests]
  BY <1>1, <1>2 DEF TypeOK
<1>4. load' = [s \in Requests |-> load'[s]]
  <2>1. load = [s \in Requests |-> load[s]] /\ \E l : load' = [load EXCEPT ![r] = l]
    BY <1>1 DEF TypeOK
  <2>2. QED BY <2>1
<1>5. failures' \in Nat
  BY DEF TypeOK, LoadFails
<1>6. QED
  BY <1>3, <1>4, <1>5 DEF TypeOK, LoadFails, engineVars, cacheVars, recvVars, Blocks

LEMMA TypeOfLoadEnds ==
    \A r \in Requests : TypeOK /\ LoadsUnderWay /\ LoadEnds(r) => TypeOK'
<1> SUFFICES ASSUME NEW r \in Requests, TypeOK, LoadsUnderWay, LoadEnds(r) PROVE TypeOK'
  OBVIOUS
<1>1. BlockSize \in Nat /\ BlockSize > 0 /\ PromptLen[r] \in Nat
  BY ConstantTypes
<1> DEFINE end(i) == Least(BlockSize, PromptLen[r] - (i - 1) * BlockSize)
           pos(b) == CHOOSE i \in DOMAIN load[r] : load[r][i] = b
<1>2. \A i \in DOMAIN load[r] : end(i) \in 0 .. BlockSize
  <2> TAKE i \in DOMAIN load[r]
  <2>1. i \in Int /\ (i - 1) * BlockSize < PromptLen[r]
    BY LoadBlocks
  <2>2. (i - 1) * BlockSize \in Int
    BY <1>1, <2>1
  <2>3. QED BY <1>1, <2>1, <2>2 DEF Least
<1>3. filled' = [b \in Blocks |-> IF \E i \in DOMAIN load[r] : load[r][i] = b
                                 THEN end(pos(b)) ELSE filled[b]]
  BY DEF LoadEnds
<1>4. \A b \in Blocks : (\E i \in DOMAIN load[r] : load[r][i] = b) => pos(b) \in DOMAIN load[r]
  OBVIOUS
<1> HIDE DEF end, pos
<1>5. filled' \in [Blocks -> 0 .. BlockSize]
  <2>1. \A b \in Blocks : filled[b] \in 0 .. BlockSize
    BY DEF TypeOK
  <2>2. QED BY <1>2, <1>3, <1>4, <2>1
<1>6. load' = [s \in Requests |-> load'[s]]
  BY DEF TypeOK, LoadEnds
<1>7. /\ loading' \subseteq Requests
      /\ report' \in [invalid : SUBSET Blocks, recving : SUBSET Requests,
                      sending : SUBSET Requests]
  BY DEF TypeOK, LoadEnds
<1>8. QED
  BY <1>5, <1>6, <1>7 DEF TypeOK, LoadEnds, engineVars, recvVars, Blocks

LEMMA TypeOfSendEnds == \A r \in Requests : TypeOK /\ SendEnds(r) => TypeOK'
<1> SUFFICES ASSUME NEW r \in Requests, TypeOK, SendEnds(r) PROVE TypeOK'
  OBVIOUS
<1>1. report' \in [invalid : SUBSET Blocks, recving : SUBSET Requests,
                   sending : SUBSET Requests]
  BY DEF TypeOK, SendEnds
<1>2. QED
  BY <1>1 DEF TypeOK, SendEnds, engineVars, cacheVars, recvVars, Blocks

\* What a step writes of a block is at most the block.
\* The tokens of a block among the first n, bounded, and growing with n.
LEMMA WithinType ==
    ASSUME NEW n \in Int, NEW i \in Int
    PROVE  Within(n, i) \in 0 .. BlockSize
<1> DEFINE m == n - (i - 1) * BlockSize
<1>1. m \in Int /\ BlockSize \in Nat
  BY ConstantTypes
<1> HIDE DEF m
<1>2. Least(BlockSize, Most(0, m)) \in 0 .. BlockSize
  BY <1>1 DEF Least, Most
<1>3. QED BY <1>2 DEF Within, m

LEMMA WithinFacts ==
    ASSUME NEW n \in Int, NEW i \in Int
    PROVE  /\ Within(n, i) = BlockSize <=> i * BlockSize <= n
           /\ n <= (i - 1) * BlockSize => Within(n, i) = 0
           /\ \A m \in Int : m <= n => Within(m, i) <= Within(n, i)
<1> DEFINE p == (i - 1) * BlockSize
<1>1. p \in Int /\ BlockSize \in Nat /\ BlockSize > 0 /\ i * BlockSize = p + BlockSize
  BY ConstantTypes
<1> HIDE DEF p
<1>2. \A m \in Int : Within(m, i) = Least(BlockSize, Most(0, m - p))
  BY DEF Within, p
<1>3. Within(n, i) = BlockSize <=> p + BlockSize <= n
  BY <1>1, <1>2 DEF Least, Most
<1>4. n <= p => Within(n, i) = 0
  BY <1>1, <1>2 DEF Least, Most
<1>5. \A m \in Int : m <= n => Within(m, i) <= Within(n, i)
  BY <1>1, <1>2 DEF Least, Most
<1>6. QED BY <1>1, <1>3, <1>4, <1>5 DEF p

LEMMA WrittenToType ==
    ASSUME TypeOK, NEW b, NEW some \in SUBSET Requests
    PROVE  WrittenTo(b, some) \in 0 .. BlockSize
<1>1. BlockSize \in Nat /\ BlockSize > 0 /\ cfg.blocks \in Nat
  BY ConstantTypes, StateTypes
<1> DEFINE places(r) == {i \in DOMAIN table[r] :
                          /\ table[r][i] = b
                          /\ Within(Start(r), i) < Within(req[r].computed, i)}
           W == {0} \cup UNION {{Within(req[r].computed, i) : i \in places(r)} : r \in some}
<1>2. \A r \in some : \A i \in places(r) : Within(req[r].computed, i) \in 0 .. BlockSize
  <2> TAKE r \in some
  <2> TAKE i \in places(r)
  <2>1. req[r].computed \in Int /\ i \in Int
    BY StateTypes
  <2>2. QED BY <2>1, WithinType
<1> HIDE DEF places
<1>3. W \in SUBSET (0 .. BlockSize) /\ W # {}
  BY <1>1, <1>2
<1>5. WrittenTo(b, some) = Max(W)
  BY DEF WrittenTo, places
<1> HIDE DEF W
<1>4. Max(W) \in W
  BY <1>1, <1>3, MaxIsGreatest
<1>6. QED BY <1>3, <1>4, <1>5

\* The blocks a load inside the step writes.
Synced == UNION {{table[r][i] : i \in sch.sync[r]} : r \in {r \in Requests : sch.num[r] > 0}}

LEMMA ExecuteFacts ==
    ASSUME TypeOK, ScheduleStages, Execute
    PROVE  \E bad, right :
             /\ bad \subseteq Synced /\ bad \subseteq Blocks /\ right \subseteq Requests
             /\ report' = [report EXCEPT !.invalid = @ \cup bad]
             /\ sch' = [sch EXCEPT !.right = right]
             /\ filled' \in [Blocks -> 0 .. BlockSize]
             /\ failures' \in Nat
<1> DEFINE scheduled == {r \in Requests : sch.num[r] > 0}
<1>1. PICK bad \in SUBSET Synced :
             LET f == [b \in Blocks |-> IF b \in Synced \ bad THEN BlockSize ELSE filled[b]]
                 right == UNION {some \in SUBSET scheduled :
                                   \A r \in some : ReadsRight(r, f, some)}
             IN  /\ failures' = failures + (IF bad = {} THEN 0 ELSE 1)
                 /\ report' = [report EXCEPT !.invalid = @ \cup bad]
                 /\ sch' = [sch EXCEPT !.right = right]
                 /\ filled' = [b \in Blocks |-> Most(f[b], WrittenTo(b, right))]
  BY DEF Execute, Synced
<1> DEFINE f == [b \in Blocks |-> IF b \in Synced \ bad THEN BlockSize ELSE filled[b]]
           right == UNION {some \in SUBSET scheduled : \A r \in some : ReadsRight(r, f, some)}
<1>2. Synced \subseteq Blocks
  <2>1. ASSUME NEW r \in Requests, NEW i \in sch.sync[r] PROVE table[r][i] \in Blocks
    <3>1. i \in DOMAIN table[r]
      BY DEF ScheduleStages, Execute
    <3>2. QED BY <3>1, StateTypes
  <2>2. QED BY <2>1 DEF Synced
<1>3. right \subseteq Requests
  OBVIOUS
<1>4. \A b \in Blocks : f[b] \in 0 .. BlockSize
  BY ConstantTypes DEF TypeOK
<1> HIDE DEF f, right
<1>5. filled' = [b \in Blocks |-> Most(f[b], WrittenTo(b, right))]
  BY <1>1 DEF f, right
<1>6. \A b \in Blocks : Most(f[b], WrittenTo(b, right)) \in 0 .. BlockSize
  BY <1>3, <1>4, WrittenToType DEF Most
<1>7. filled' \in [Blocks -> 0 .. BlockSize]
  BY <1>5, <1>6
<1>8. failures' \in Nat
  BY <1>1 DEF TypeOK
<1>9. sch' = [sch EXCEPT !.right = right]
  BY <1>1 DEF f, right
<1>10. QED BY <1>1, <1>2, <1>3, <1>7, <1>8, <1>9

LEMMA TypeOfExecute == TypeOK /\ ScheduleStages /\ Execute => TypeOK'
<1> SUFFICES ASSUME TypeOK, ScheduleStages, Execute PROVE TypeOK'
  OBVIOUS
<1>1. PICK bad, right :
             /\ bad \subseteq Blocks /\ right \subseteq Requests
             /\ report' = [report EXCEPT !.invalid = @ \cup bad]
             /\ sch' = [sch EXCEPT !.right = right]
             /\ filled' \in [Blocks -> 0 .. BlockSize]
             /\ failures' \in Nat
  BY ExecuteFacts
<1>2. sch' \in ScheduleType
  <2>1. sch \in ScheduleType
    BY DEF TypeOK, ScheduleType
  <2>2. QED BY <1>1, <2>1, RightUpdate
<1>3. report' \in [invalid : SUBSET Blocks, recving : SUBSET Requests,
                   sending : SUBSET Requests]
  BY <1>1 DEF TypeOK
<1>4. QED
  BY <1>1, <1>2, <1>3 DEF TypeOK, ScheduleType, Execute, engineVars, recvVars, Blocks

--------------------------------------------------------------------------------
(* Invalid blocks *)

Truncation ==
    [affected : SUBSET Requests, marked : SUBSET Blocks, evict : SUBSET Blocks,
     computed : [Requests -> Int]]

Untruncated ==
    [affected |-> {}, marked |-> {}, evict |-> {},
     computed |-> [r \in Requests |-> req[r].computed]]

\* Invalid positions are positions of the table.
LEMMA InvalidPositionsFacts ==
    ASSUME TypeOK, NEW r \in Requests, NEW async
    PROVE  \A i \in InvalidPositions(r, async) :
              /\ i \in Nat /\ i \in 1 .. Len(table[r]) /\ table[r][i] \in Blocks
              /\ table[r][i] \in Held(r) /\ table[r][i] \in report.invalid
<1> DEFINE n == IF ~async THEN req[r].cached
                ELSE IF r \in failed_recving_kv_req_ids THEN req[r].computed
                ELSE Len(table[r]) * BlockSize
           m == CeilDiv(n, BlockSize)
<1>1. BlockSize \in Nat /\ BlockSize > 0 /\ Len(table[r]) \in Nat
      /\ req[r].cached \in Int /\ req[r].computed \in Int
  BY ConstantTypes, StateTypes
<1>2. n \in Int
  <2>1. Len(table[r]) * BlockSize \in Int
    BY <1>1
  <2>2. QED BY <1>1, <2>1
<1> HIDE DEF n
<1>3. m \in Int
  BY <1>1, <1>2, CeilDivFacts
<1> HIDE DEF m
<1>4. Least(m, Len(table[r])) \in Int /\ Least(m, Len(table[r])) <= Len(table[r])
  BY <1>1, <1>3 DEF Least
<1> TAKE i \in InvalidPositions(r, async)
<1>5. i \in 1 .. Least(m, Len(table[r])) /\ table[r][i] \in report.invalid
  BY DEF InvalidPositions, m, n
<1>6. i \in 1 .. Len(table[r])
  BY <1>1, <1>4, <1>5
<1>7. QED BY <1>5, <1>6, StateTypes DEF Held

\* A step of the fold: r is affected if it has invalid blocks, and then its count ends
\* before one of them, unless requests before it have marked them all.
LEMMA TruncateFacts ==
    ASSUME TypeOK, NEW acc \in Truncation, NEW r \in Requests, NEW async
    PROVE  LET z == Truncate(acc, r, async)
               bad == InvalidPositions(r, async)
           IN  /\ z \in Truncation
               /\ z.marked \subseteq acc.marked \cup Held(r)
               /\ z.affected = IF bad = {} THEN acc.affected ELSE acc.affected \cup {r}
               /\ \A s \in Requests : s # r \/ bad = {} => z.computed[s] = acc.computed[s]
               /\ bad # {} =>
                     \/ \E i \in bad : z.computed[r] = (i - 1) * BlockSize
                     \/ z.computed[r] = req[r].cached /\ \A i \in bad : table[r][i] \in acc.marked
<1> DEFINE z == Truncate(acc, r, async)
           bad == InvalidPositions(r, async)
           unmarked == {i \in bad : table[r][i] \notin acc.marked}
           least == Min(unmarked)
           count == (least - 1) * BlockSize
           marks == {table[r][i] : i \in unmarked}
           evicts == {table[r][i] : i \in least .. Len(table[r])}
<1>1. \A i \in bad : i \in Nat /\ i \in 1 .. Len(table[r]) /\ table[r][i] \in Blocks
                     /\ table[r][i] \in Held(r)
  BY InvalidPositionsFacts
<1>2. BlockSize \in Nat /\ req[r].cached \in Int /\ Len(table[r]) \in Nat
      /\ \A i \in 1 .. Len(table[r]) : table[r][i] \in Blocks
  BY ConstantTypes, StateTypes
<1> HIDE DEF bad
<1>3. z = IF bad = {} THEN acc
          ELSE IF unmarked = {}
          THEN [acc EXCEPT !.affected = @ \cup {r}, !.computed[r] = req[r].cached]
          ELSE [acc EXCEPT !.affected = @ \cup {r}, !.computed[r] = count,
                           !.marked = @ \cup marks, !.evict = @ \cup evicts]
  BY DEF Truncate, bad
<1>4. unmarked # {} => least \in unmarked
  <2>1. unmarked \in SUBSET Nat
    BY <1>1
  <2> HIDE DEF unmarked
  <2>2. QED BY <2>1, MinIsLeast
<1>5. marks \subseteq Held(r) /\ marks \subseteq Blocks
  BY <1>1
<1>6. unmarked # {} => count \in Int /\ evicts \subseteq Blocks /\ least \in bad
  <2> SUFFICES ASSUME unmarked # {} PROVE count \in Int /\ evicts \subseteq Blocks /\ least \in bad
    OBVIOUS
  <2>1. least \in bad
    BY <1>4
  <2>2. least \in Nat /\ least \in 1 .. Len(table[r])
    BY <1>1, <2>1
  <2> HIDE DEF least
  <2>3. \A i \in least .. Len(table[r]) : i \in 1 .. Len(table[r])
    BY <1>2, <2>2
  <2>4. QED BY <1>2, <2>1, <2>2, <2>3
<1>7. CASE bad = {}
  BY <1>3, <1>7 DEF bad
<1>8. CASE bad # {} /\ unmarked = {}
  <2>1. z = [acc EXCEPT !.affected = @ \cup {r}, !.computed[r] = req[r].cached]
    BY <1>3, <1>8
  <2>2. \A i \in bad : table[r][i] \in acc.marked
    BY <1>8
  <2> HIDE DEF z
  <2>3. /\ z.affected = acc.affected \cup {r} /\ z.marked = acc.marked
        /\ z.evict = acc.evict /\ z.computed = [acc.computed EXCEPT ![r] = req[r].cached]
        /\ z \in Truncation
    BY <1>2, <2>1 DEF Truncation
  <2>4. acc.computed \in [Requests -> Int]
    BY DEF Truncation
  <2>5. z.computed[r] = req[r].cached /\ \A s \in Requests : s # r => z.computed[s] = acc.computed[s]
    BY <2>3, <2>4
  <2>6. QED BY <1>8, <2>2, <2>3, <2>5 DEF bad, z
<1>9. CASE bad # {} /\ unmarked # {}
  <2>1. z = [acc EXCEPT !.affected = @ \cup {r}, !.computed[r] = count,
                        !.marked = @ \cup marks, !.evict = @ \cup evicts]
    BY <1>3, <1>9
  <2>2. count \in Int /\ evicts \subseteq Blocks /\ least \in bad
    BY <1>6, <1>9
  <2>7. \E i \in bad : count = (i - 1) * BlockSize
    BY <2>2
  <2> HIDE DEF z, count, marks, evicts, least, unmarked
  <2>3. /\ z.affected = acc.affected \cup {r} /\ z.marked = acc.marked \cup marks
        /\ z.computed = [acc.computed EXCEPT ![r] = count]
        /\ z \in Truncation
    BY <1>5, <2>1, <2>2 DEF Truncation
  <2>4. acc.computed \in [Requests -> Int]
    BY DEF Truncation
  <2>5. z.computed[r] = count /\ \A s \in Requests : s # r => z.computed[s] = acc.computed[s]
    BY <2>3, <2>4
  <2>6. QED BY <1>5, <1>9, <2>3, <2>5, <2>7 DEF bad, z
<1>10. QED BY <1>7, <1>8, <1>9

\* TruncateAll takes the requests from the head of the list on.
LEMMA TruncateSteps ==
    ASSUME TypeOK, NEW q \in Seq(Requests), NEW async
    PROVE  \E a : /\ a[0] = Untruncated
                  /\ \A k \in 1 .. Len(q) :
                       a[k] = Truncate(a[k - 1], q[k], async)
                  /\ TruncateAll(q, async) = a[Len(q)]
<1> DEFINE n == Len(q)
           A == Truncation
           base == Untruncated
           step == [i \in 1 .. n |-> [acc \in A |-> Truncate(acc, q[i], async)]]
           Body(f) == [t \in SUBSET (1 .. n) |->
                         IF t = {} THEN base
                         ELSE Truncate(f[t \ {Max(t)}], q[Max(t)], async)]
           iter == CHOOSE f : f = Body(f)
<1>1. n \in Nat /\ DOMAIN q = 1 .. n /\ \A i \in 1 .. n : q[i] \in Requests
  OBVIOUS
<1>2. TruncateAll(q, async) = iter[1 .. n]
  BY <1>1 DEF TruncateAll, Untruncated, FoldLeft, MapThenFoldSet, Max
<1>3. base \in A
  BY StateTypes DEF Untruncated, Truncation
<1>4. step \in [1 .. n -> [A -> A]]
  <2>1. ASSUME NEW i \in 1 .. n, NEW acc \in A PROVE Truncate(acc, q[i], async) \in A
    <3> DEFINE r == q[i]
    <3>1. r \in Requests
      BY <1>1
    <3> HIDE DEF r
    <3>2. Truncate(acc, r, async) \in Truncation
      BY <3>1, TruncateFacts
    <3>3. QED BY <3>2 DEF r
  <2> HIDE DEF A
  <2>2. QED BY <2>1
<1> HIDE DEF A, base, n
<1>5. PICK f \in [SUBSET (1 .. n) -> A] : IsFold(f, base, step, n)
  <2> HIDE DEF step
  <2>1. QED BY <1>1, <1>3, <1>4, FoldExists
<1>6. ASSUME NEW t \in SUBSET (1 .. n), t # {} PROVE Max(t) \in 1 .. n
  <2>1. t \in SUBSET (0 .. n)
    BY <1>1
  <2>2. Max(t) \in t
    BY <1>1, <1>6, <2>1, MaxIsGreatest
  <2>3. QED BY <2>2
<1>7. f = Body(f)
  <2>1. ASSUME NEW t \in SUBSET (1 .. n), t # {}
        PROVE  f[t] = Truncate(f[t \ {Max(t)}], q[Max(t)], async)
    <3>1. f[t \ {Max(t)}] \in A /\ f[t] = step[Max(t)][f[t \ {Max(t)}]]
      BY <1>5, <2>1 DEF IsFold
    <3>2. Max(t) \in 1 .. n
      BY <1>6, <2>1
    <3> DEFINE m == Max(t)
               acc == f[t \ {Max(t)}]
    <3>3. m \in 1 .. n /\ acc \in A /\ f[t] = step[m][acc]
      BY <3>1, <3>2
    <3> HIDE DEF m, acc
    <3>4. f[t] = Truncate(acc, q[m], async)
      BY <3>3
    <3>5. QED BY <3>4 DEF m, acc
  <2>2. f[{}] = base
    BY <1>5 DEF IsFold
  <2>3. QED BY <2>1, <2>2
<1>8. iter = Body(iter)
  BY <1>7
<1> HIDE DEF iter
<1>9. ASSUME NEW t \in SUBSET (1 .. n)
      PROVE  iter[t] = IF t = {} THEN base
                       ELSE Truncate(iter[t \ {Max(t)}], q[Max(t)], async)
  BY <1>8
<1> DEFINE a == [k \in 0 .. n |-> iter[1 .. k]]
<1>10. a[0] = base
  <2>1. 1 .. 0 = {} /\ 0 \in 0 .. n
    BY <1>1
  <2>2. QED BY <1>9, <2>1
<1>11. ASSUME NEW k \in 1 .. n PROVE a[k] = Truncate(a[k - 1], q[k], async)
  <2>1. /\ 1 .. k \in SUBSET (1 .. n) /\ 1 .. k \in SUBSET (0 .. n) /\ k \in 1 .. k
        /\ (1 .. k) \ {k} = 1 .. k - 1
    BY <1>1
  <2>2. Max(1 .. k) = k
    <3>1. Max(1 .. k) \in 1 .. k /\ \A y \in 1 .. k : Max(1 .. k) >= y
      BY <1>1, <2>1, MaxIsGreatest
    <3>2. QED BY <3>1
  <2>3. a[k] = iter[1 .. k] /\ a[k - 1] = iter[1 .. k - 1]
    BY <1>1
  <2>4. QED BY <1>9, <2>1, <2>2, <2>3
<1>12. TruncateAll(q, async) = a[n]
  BY <1>1, <1>2
<1> HIDE DEF a
<1>13. QED BY <1>10, <1>11, <1>12 DEF base, n

\* Only listed requests with invalid blocks are affected.  The count of an affected one
\* ends before one of its invalid blocks, or others on the list hold all of them.
LEMMA TruncateAllFacts ==
    ASSUME TypeOK, NEW q \in Seq(Requests), NoDuplicates(q), NEW async
    PROVE  LET z == TruncateAll(q, async)
           IN  /\ z \in Truncation /\ z.affected \subseteq ToSet(q)
               /\ \A r \in Requests : r \notin z.affected => z.computed[r] = req[r].computed
               /\ \A r \in z.affected :
                     /\ InvalidPositions(r, async) # {}
                     /\ \/ \E i \in InvalidPositions(r, async) :
                              z.computed[r] = (i - 1) * BlockSize
                        \/ \A i \in InvalidPositions(r, async) :
                              \E s \in Requests \ {r} : table[r][i] \in Held(s)
<1> DEFINE n == Len(q)
<1>1. n \in Nat /\ DOMAIN q = 1 .. n /\ \A i \in 1 .. n : q[i] \in Requests
  OBVIOUS
<1>2. PICK a : /\ a[0] = Untruncated
               /\ \A k \in 1 .. n : a[k] = Truncate(a[k - 1], q[k], async)
               /\ TruncateAll(q, async) = a[n]
  BY TruncateSteps
<1> HIDE DEF n
<1> DEFINE Upto(k) == {q[j] : j \in 1 .. k}
           Marked(z, k) == \A b \in z.marked : \E s \in Upto(k) : b \in Held(s)
           Right(z) ==
             /\ \A r \in Requests : r \notin z.affected => z.computed[r] = req[r].computed
             /\ \A r \in z.affected :
                   /\ InvalidPositions(r, async) # {}
                   /\ \/ \E i \in InvalidPositions(r, async) :
                            z.computed[r] = (i - 1) * BlockSize
                      \/ \A i \in InvalidPositions(r, async) :
                            \E s \in Requests \ {r} : table[r][i] \in Held(s)
           Good(k) == /\ a[k] \in Truncation /\ a[k].affected \subseteq Upto(k)
                      /\ Marked(a[k], k) /\ Right(a[k])
           Bad == {k \in 0 .. n : ~Good(k)}
<1>3. Good(0)
  <2>1. Untruncated \in Truncation /\ Untruncated.affected = {} /\ Untruncated.marked = {}
        /\ \A r \in Requests : Untruncated.computed[r] = req[r].computed
    BY StateTypes DEF Untruncated, Truncation
  <2>2. QED BY <1>2, <2>1
<1>4. ASSUME NEW k \in 1 .. n, Good(k - 1) PROVE Good(k)
  <2> DEFINE r == q[k]
             acc == a[k - 1]
             z == a[k]
             bad == InvalidPositions(r, async)
  <2>1. r \in Requests /\ Upto(k) = Upto(k - 1) \cup {r} /\ Upto(k - 1) \subseteq Requests
    <3>1. 1 .. k = (1 .. k - 1) \cup {k}
      BY <1>1
    <3>2. \A j \in 1 .. k - 1 : q[j] \in Requests
      BY <1>1
    <3>3. QED BY <1>1, <3>1, <3>2
  <2>2. r \notin Upto(k - 1)
    BY <1>1 DEF NoDuplicates
  <2>3. acc \in Truncation /\ acc.affected \subseteq Upto(k - 1) /\ Marked(acc, k - 1) /\ Right(acc)
    BY <1>4
  <2>4. z = Truncate(acc, r, async)
    BY <1>2
  <2> HIDE DEF Upto, acc, z, r
  <2>5. /\ z \in Truncation
        /\ z.marked \subseteq acc.marked \cup Held(r)
        /\ z.affected = IF bad = {} THEN acc.affected ELSE acc.affected \cup {r}
        /\ \A s \in Requests : s # r \/ bad = {} => z.computed[s] = acc.computed[s]
        /\ bad # {} =>
              \/ \E i \in bad : z.computed[r] = (i - 1) * BlockSize
              \/ z.computed[r] = req[r].cached /\ \A i \in bad : table[r][i] \in acc.marked
    <3>1. acc \in Truncation /\ r \in Requests
      BY <2>1, <2>3
    <3> HIDE DEF bad
    <3>2. /\ Truncate(acc, r, async) \in Truncation
          /\ Truncate(acc, r, async).marked \subseteq acc.marked \cup Held(r)
          /\ Truncate(acc, r, async).affected =
                IF bad = {} THEN acc.affected ELSE acc.affected \cup {r}
          /\ \A s \in Requests : s # r \/ bad = {} =>
                Truncate(acc, r, async).computed[s] = acc.computed[s]
          /\ bad # {} =>
              \/ \E i \in bad : Truncate(acc, r, async).computed[r] = (i - 1) * BlockSize
              \/ /\ Truncate(acc, r, async).computed[r] = req[r].cached
                 /\ \A i \in bad : table[r][i] \in acc.marked
      BY <3>1, TruncateFacts DEF bad
    <3>3. QED BY <2>4, <3>2
  <2>6. z.affected \subseteq Upto(k)
    BY <2>1, <2>3, <2>5
  <2>7. Marked(z, k)
    BY <2>1, <2>3, <2>5
  <2>8. ASSUME NEW s \in Requests, s \notin z.affected PROVE z.computed[s] = req[s].computed
    BY <2>3, <2>5, <2>8
  <2>9. ASSUME NEW s \in z.affected
        PROVE  /\ InvalidPositions(s, async) # {}
               /\ \/ \E i \in InvalidPositions(s, async) :
                        z.computed[s] = (i - 1) * BlockSize
                  \/ \A i \in InvalidPositions(s, async) :
                        \E u \in Requests \ {s} : table[s][i] \in Held(u)
    <3>1. CASE s = r
      <4>1. bad # {}
        BY <2>2, <2>3, <2>5, <2>9, <3>1
      <4>2. CASE \E i \in bad : z.computed[r] = (i - 1) * BlockSize
        BY <3>1, <4>1, <4>2
      <4>3. CASE \A i \in bad : table[r][i] \in acc.marked
        <5>1. \A i \in bad : \E u \in Requests \ {r} : table[r][i] \in Held(u)
          BY <2>1, <2>2, <2>3, <4>3
        <5>2. QED BY <3>1, <4>1, <5>1
      <4>4. QED BY <2>5, <4>1, <4>2, <4>3
    <3>2. CASE s # r
      <4>1. s \in acc.affected /\ s \in Requests
        BY <2>1, <2>3, <2>5, <2>9, <3>2
      <4>2. z.computed[s] = acc.computed[s]
        BY <2>5, <3>2, <4>1
      <4>3. QED BY <2>3, <4>1, <4>2
    <3>3. QED BY <3>1, <3>2
  <2>10. Right(z)
    BY <2>8, <2>9
  <2>11. QED BY <2>5, <2>6, <2>7, <2>10 DEF z
<1>13. ToSet(q) = Upto(n)
  BY <1>1 DEF ToSet
<1> HIDE DEF Good, Upto
<1>5. Bad = {}
  <2> SUFFICES ASSUME Bad # {} PROVE FALSE
    OBVIOUS
  <2>1. PICK m \in Bad : \A k \in Bad : m <= k
    <3>1. Bad \in SUBSET Nat
      OBVIOUS
    <3> HIDE DEF Bad
    <3>2. QED BY <3>1, LeastNat
  <2>2. m # 0
    BY <1>3, <2>1
  <2>3. m \in 1 .. n /\ m - 1 \in 0 .. n /\ ~(m <= m - 1)
    BY <1>1, <2>1, <2>2
  <2>4. m - 1 \notin Bad
    BY <2>1, <2>3
  <2>5. Good(m)
    BY <1>4, <2>3, <2>4
  <2>6. QED BY <2>1, <2>5
<1>6. Good(n)
  <2>1. n \in 0 .. n /\ n \notin Bad
    BY <1>1, <1>5
  <2>2. QED BY <2>1
<1>7. QED BY <1>2, <1>6, <1>13 DEF Good

\* Who is in which queue, from QueuesAgree.
LEMMA QueueFacts ==
    ASSUME TypeOK, QueuesAgree
    PROVE  /\ NoDuplicates(running) /\ NoDuplicates(waiting) /\ NoDuplicates(sch.skipped)
           /\ ToSet(sch.skipped) \cap ToSet(waiting) = {}
           /\ ToSet(running) \subseteq Requests /\ ToSet(waiting) \subseteq Requests
           /\ ToSet(sch.skipped) \subseteq Requests
           /\ \A r \in ToSet(running) : r \notin ToSet(waiting)
<1>1. running \in Seq(Requests) /\ waiting \in Seq(Requests) /\ sch.skipped \in Seq(Requests)
  BY DEF TypeOK
<1>2. NoDuplicates(waiting) /\ NoDuplicates(sch.skipped)
      /\ ToSet(sch.skipped) \cap ToSet(waiting) = {}
  <2> DEFINE l == sch.skipped
  <2>1. l \in Seq(Requests) /\ NoDuplicates(l \o waiting)
    BY <1>1 DEF QueuesAgree
  <2> HIDE DEF l
  <2>2. NoDuplicates(waiting) /\ NoDuplicates(l) /\ ToSet(l) \cap ToSet(waiting) = {}
    BY <1>1, <2>1, ConcatElements
  <2>3. QED BY <2>2 DEF l
<1>3. /\ ToSet(running) \subseteq Requests /\ ToSet(waiting) \subseteq Requests
      /\ ToSet(sch.skipped) \subseteq Requests
  BY <1>1 DEF ToSet
<1>4. QED BY <1>2, <1>3 DEF QueuesAgree

\* What becomes of the counts: only running requests and those that wait for a load
\* lose tokens, the latter only behind a block that is invalid.
LEMMA HandleFacts ==
    ASSUME TypeOK, QueuesAgree, HandleInvalidBlocks
    PROVE  \E count \in [Requests -> Int], pending, failing \in SUBSET Requests :
             /\ req' = [r \in Requests |-> [req[r] EXCEPT !.computed = count[r]]]
             /\ sch' = [sch EXCEPT !.pending = pending, !.failing = failing]
             /\ \A r \in Requests :
                  \/ count[r] = req[r].computed
                  \/ req[r].status = "RUNNING"
                  \/ /\ req[r].status = "WAITING_FOR_REMOTE_KVS"
                     /\ \E i \in 1 .. Len(table[r]) :
                          /\ table[r][i] \in report.invalid
                          /\ \/ count[r] = (i - 1) * BlockSize
                             \/ \E s \in Requests \ {r} : table[r][i] \in Held(s)
             /\ failed_recving_kv_req_ids' \subseteq Requests
<1> DEFINE some == {r \in Requests : req[r].status = "WAITING_FOR_REMOTE_KVS"}
           remote == Only(waiting, some)
           async == TruncateAll(remote, TRUE)
           sync == TruncateAll(running, FALSE)
           affected == async.affected \cup sync.affected
           count == [r \in Requests |-> IF r \in async.affected THEN async.computed[r]
                                        ELSE sync.computed[r]]
           pending == {r \in Requests : sch.num[r] > 0} \ affected
           failing == IF cfg.recompute THEN {} ELSE affected
<1>1. /\ req' = [r \in Requests |->
                 IF r \in async.affected THEN [req[r] EXCEPT !.computed = async.computed[r]]
                 ELSE [req[r] EXCEPT !.computed = sync.computed[r]]]
      /\ failed_recving_kv_req_ids' =
                 IF cfg.recompute THEN failed_recving_kv_req_ids \cup async.affected
                 ELSE failed_recving_kv_req_ids
      /\ sch' = [sch EXCEPT !.pending = pending, !.failing = failing]
  BY DEF HandleInvalidBlocks
<1>2. /\ running \in Seq(Requests) /\ NoDuplicates(running)
      /\ waiting \in Seq(Requests) /\ NoDuplicates(waiting)
  BY QueueFacts DEF TypeOK
<1> HIDE DEF some
<1>3. remote \in Seq(Requests) /\ ToSet(remote) = ToSet(waiting) \cap some /\ NoDuplicates(remote)
  BY <1>2, OnlyElements
<1> HIDE DEF remote
<1>4. /\ async \in Truncation /\ async.affected \subseteq ToSet(remote)
      /\ \A r \in async.affected :
            /\ InvalidPositions(r, TRUE) # {}
            /\ \/ \E i \in InvalidPositions(r, TRUE) : async.computed[r] = (i - 1) * BlockSize
               \/ \A i \in InvalidPositions(r, TRUE) :
                     \E s \in Requests \ {r} : table[r][i] \in Held(s)
  BY <1>3, TruncateAllFacts
<1>5. /\ sync \in Truncation /\ sync.affected \subseteq ToSet(running)
      /\ \A r \in Requests : r \notin sync.affected => sync.computed[r] = req[r].computed
  BY <1>2, TruncateAllFacts
<1> HIDE DEF async, sync
<1>6. count \in [Requests -> Int] /\ pending \in SUBSET Requests /\ failing \in SUBSET Requests
  BY <1>4, <1>5 DEF Truncation
<1>7. req' = [r \in Requests |-> [req[r] EXCEPT !.computed = count[r]]]
  BY <1>1
<1>8. ASSUME NEW r \in Requests
      PROVE  \/ count[r] = req[r].computed
             \/ req[r].status = "RUNNING"
             \/ /\ req[r].status = "WAITING_FOR_REMOTE_KVS"
                /\ \E i \in 1 .. Len(table[r]) :
                     /\ table[r][i] \in report.invalid
                     /\ \/ count[r] = (i - 1) * BlockSize
                        \/ \E s \in Requests \ {r} : table[r][i] \in Held(s)
  <2>1. CASE r \in async.affected
    <3>1. req[r].status = "WAITING_FOR_REMOTE_KVS"
      BY <1>3, <1>4, <2>1 DEF some
    <3>2. count[r] = async.computed[r]
      BY <2>1
    <3>3. PICK i \in InvalidPositions(r, TRUE) :
              \/ async.computed[r] = (i - 1) * BlockSize
              \/ \E s \in Requests \ {r} : table[r][i] \in Held(s)
      BY <1>4, <2>1
    <3>4. i \in 1 .. Len(table[r]) /\ table[r][i] \in report.invalid
      BY InvalidPositionsFacts
    <3>5. QED BY <3>1, <3>2, <3>3, <3>4
  <2>2. CASE r \in sync.affected
    BY <1>5, <2>2 DEF QueuesAgree
  <2>3. CASE r \notin async.affected /\ r \notin sync.affected
    BY <1>5, <2>3
  <2>4. QED BY <2>1, <2>2, <2>3
<1>9. failed_recving_kv_req_ids' \subseteq Requests
  BY <1>1, <1>4 DEF Truncation, TypeOK
<1> HIDE DEF count, pending, failing
<1>10. QED BY <1>1, <1>6, <1>7, <1>8, <1>9

LEMMA TypeOfHandleInvalidBlocks == TypeOK /\ QueuesAgree /\ HandleInvalidBlocks => TypeOK'
<1> SUFFICES ASSUME TypeOK, QueuesAgree, HandleInvalidBlocks PROVE TypeOK'
  OBVIOUS
<1>1. PICK count \in [Requests -> Int], pending, failing \in SUBSET Requests :
             /\ req' = [r \in Requests |-> [req[r] EXCEPT !.computed = count[r]]]
             /\ sch' = [sch EXCEPT !.pending = pending, !.failing = failing]
             /\ failed_recving_kv_req_ids' \subseteq Requests
  BY HandleFacts
<1>2. req' \in [Requests -> RequestType]
  <2>1. \A r \in Requests : [req[r] EXCEPT !.computed = count[r]] \in RequestType
    BY ComputedUpdate DEF TypeOK, RequestType
  <2>2. QED BY <1>1, <2>1
<1>3. sch' \in ScheduleType
  <2>1. sch \in ScheduleType
    BY DEF TypeOK, ScheduleType
  <2>2. QED BY <1>1, <2>1, FailingUpdate
<1>4. key' \in [Blocks -> (Requests \cup {NoRequest}) \X Nat]
  <2>1. /\ NoKey \in (Requests \cup {NoRequest}) \X Nat
        /\ \A b \in Blocks : key[b] \in (Requests \cup {NoRequest}) \X Nat
    BY DEF NoKey, TypeOK
  <2>2. \E E : key' = [b \in Blocks |-> IF ~cfg.recompute /\ b \in E THEN NoKey ELSE key[b]]
    BY DEF HandleInvalidBlocks
  <2>3. QED BY <2>1, <2>2
<1>5. phase' = "answers" /\ Blocks' = Blocks
      /\ UNCHANGED <<cfg, waiting, running, table, filled, finished_recving_kv_req_ids,
                     workerVars>>
  BY DEF HandleInvalidBlocks, Blocks
<1>6. QED
  BY <1>1, <1>2, <1>3, <1>4, <1>5 DEF TypeOK, RequestType, ScheduleType, workerVars

\* Freed requests lose their blocks, but for those the connector keeps, which are all
\* that a load is under way for.
LEMMA FreeFacts ==
    ASSUME TypeOK, NEW some \in SUBSET Requests, FreeRequests(some)
    PROVE  /\ table' \in [Requests -> Seq(Blocks)] /\ held' \subseteq Requests
           /\ \E keeps \in SUBSET some :
                 /\ held' = held \cup keeps /\ some \cap loading \subseteq keeps
                 /\ \A r \in Requests :
                       table'[r] = IF r \in some \ keeps THEN <<>> ELSE table[r]
<1>1. PICK keeps \in SUBSET some :
      /\ \A r \in some : (r \in keeps) \in MayDelay(r)
      /\ held' = held \cup keeps
      /\ table' = [r \in Requests |-> IF r \in some \ keeps THEN <<>> ELSE table[r]]
  BY DEF FreeRequests
<1>2. \A r \in some \cap loading : r \in keeps
  BY <1>1 DEF MayDelay
<1>3. table' \in [Requests -> Seq(Blocks)] /\ held' \subseteq Requests
  <2>1. <<>> \in Seq(Blocks) /\ \A r \in Requests : table[r] \in Seq(Blocks)
    BY DEF TypeOK
  <2>2. QED BY <1>1, <2>1 DEF TypeOK
<1>4. QED BY <1>1, <1>2, <1>3

\* An answer: the request grows by a token if all it has is computed, and may end.
LEMMA AnswerFacts ==
    ASSUME TypeOK, NEW r \in Requests, Answer(r)
    PROVE  LET samples == req[r].computed = req[r].tokens
               ends == samples /\ req[r].tokens + 1 - PromptLen[r] = MaxTokens[r]
           IN  /\ \E p \in BOOLEAN :
                     req' = [req EXCEPT
                       ![r] = [req[r] EXCEPT
                         !.tokens = IF samples THEN req[r].tokens + 1 ELSE req[r].tokens,
                         !.wrong = p,
                         !.status = IF ends THEN "FINISHED" ELSE req[r].status]]
               /\ req' \in [Requests -> RequestType]
               /\ running' = IF ends THEN Without(running, r) ELSE running
               /\ FreeRequests(IF ends THEN {r} ELSE {})
<1> DEFINE samples == req[r].computed = req[r].tokens
           ends == samples /\ req[r].tokens + 1 - PromptLen[r] = MaxTokens[r]
           o == req[r]
           tokens == IF samples THEN o.tokens + 1 ELSE o.tokens
           wrong == o.wrong \/ (samples /\ r \notin sch.right)
           status == IF ends THEN "FINISHED" ELSE o.status
           q == [o EXCEPT !.tokens = tokens, !.wrong = wrong, !.status = status]
<1>1. /\ req' = [req EXCEPT ![r].tokens = tokens, ![r].wrong = wrong, ![r].status = status]
      /\ running' = IF ends THEN Without(running, r) ELSE running
      /\ FreeRequests(IF ends THEN {r} ELSE {})
  BY DEF Answer
<1>2. /\ tokens \in Nat \ {0} /\ status \in Statuses /\ o \in RequestType
      /\ o.wrong \in BOOLEAN
  <2>1. o \in RequestType /\ "FINISHED" \in Statuses
    BY DEF TypeOK, RequestType, Statuses
  <2>2. o.tokens \in Nat /\ o.tokens > 0 /\ o.status \in Statuses /\ o.wrong \in BOOLEAN
    BY StateTypes
  <2> HIDE DEF o
  <2>3. QED BY <2>1, <2>2
<1>3. wrong \in BOOLEAN
  BY <1>2, Zenon
<1> HIDE DEF samples, ends, tokens, wrong, status
<1>4. req' = [req EXCEPT ![r] = q]
  BY <1>1
<1>5. q \in RequestType
  BY <1>2, <1>3, AnswerUpdate
<1>6. req \in [Requests -> RequestType]
  BY DEF TypeOK, RequestType
<1>7. req' \in [Requests -> RequestType]
  <2> HIDE DEF q
  <2>1. QED BY <1>4, <1>5, <1>6
<1>8. QED BY <1>1, <1>3, <1>4, <1>7 DEF samples, ends, tokens, status

LEMMA TypeOfAnswer == \A r \in Requests : TypeOK /\ Answer(r) => TypeOK'
<1> SUFFICES ASSUME NEW r \in Requests, TypeOK, Answer(r) PROVE TypeOK'
  OBVIOUS
<1>1. req' \in [Requests -> RequestType]
  BY AnswerFacts
<1>2. running' \in Seq(Requests)
  <2>1. running' = running \/ running' = Without(running, r)
    BY AnswerFacts
  <2>2. running \in Seq(Requests)
    BY DEF TypeOK
  <2>3. QED BY <2>1, <2>2, WithoutElements
<1>3. table' \in [Requests -> Seq(Blocks)] /\ held' \subseteq Requests
  <2>1. \E some \in SUBSET {r} : FreeRequests(some)
    BY AnswerFacts
  <2>2. QED BY <2>1, FreeFacts
<1>4. sch' \in ScheduleType
  <2>1. sch \in ScheduleType /\ sch.pending \ {r} \subseteq Requests
    BY DEF TypeOK, ScheduleType
  <2>2. sch' = [sch EXCEPT !.pending = sch.pending \ {r}]
    BY DEF Answer
  <2>3. QED BY <2>1, <2>2, PendingUpdate
<1>5. QED
  BY <1>1, <1>2, <1>3, <1>4 DEF TypeOK, RequestType, ScheduleType, Answer, recvVars, Blocks

LEMMA NoScheduleType == NoSchedule \in ScheduleType
<1>1. <<>> \in Seq(Requests)
  OBVIOUS
<1>2. QED BY <1>1 DEF NoSchedule, ScheduleType

LEMMA TypeOfEndUpdate == TypeOK /\ EndUpdate => TypeOK'
<1> SUFFICES ASSUME TypeOK, EndUpdate PROVE TypeOK'
  OBVIOUS
<1>1. req' \in [Requests -> RequestType]
  <2>1. \A r \in Requests : req[r] \in RequestType /\ "FINISHED" \in Statuses
    BY DEF TypeOK, RequestType, Statuses
  <2>2. \A r \in Requests : [req[r] EXCEPT !.status = "FINISHED"] \in RequestType
    BY <2>1, StatusUpdate
  <2>3. QED BY <2>1, <2>2 DEF EndUpdate
<1>2. running' \in Seq(Requests) /\ waiting' \in Seq(Requests)
  <2>1. running \in Seq(Requests) /\ waiting \in Seq(Requests)
    BY DEF TypeOK
  <2>2. QED BY <2>1, OnlyElements DEF EndUpdate
<1>3. table' \in [Requests -> Seq(Blocks)] /\ held' \subseteq Requests
  <2>1. <<>> \in Seq(Blocks) /\ \A r \in Requests : table[r] \in Seq(Blocks)
    BY DEF TypeOK
  <2>2. \E E : table' = [r \in Requests |-> IF r \in E THEN <<>> ELSE table[r]]
    BY DEF EndUpdate
  <2>3. QED BY <2>1, <2>2 DEF EndUpdate, TypeOK
<1>4. sch' \in ScheduleType
  BY NoScheduleType DEF EndUpdate
<1>5. QED
  BY <1>1, <1>2, <1>3, <1>4 DEF TypeOK, RequestType, ScheduleType, EndUpdate, Blocks

LEMMA TypeOfAbort == \A r \in Requests : TypeOK /\ Abort(r) => TypeOK'
<1> SUFFICES ASSUME NEW r \in Requests, TypeOK, Abort(r) PROVE TypeOK'
  OBVIOUS
<1>1. req' \in [Requests -> RequestType]
  <2>1. req \in [Requests -> RequestType] /\ "FINISHED" \in Statuses
    BY DEF TypeOK, RequestType, Statuses
  <2> DEFINE q == [req[r] EXCEPT !.status = "FINISHED"]
  <2>2. q \in RequestType
    BY <2>1, StatusUpdate
  <2>3. req' = [req EXCEPT ![r] = q]
    BY DEF Abort
  <2> HIDE DEF q
  <2>4. QED BY <2>1, <2>2, <2>3
<1>2. running' \in Seq(Requests) /\ waiting' \in Seq(Requests)
  <2>1. running \in Seq(Requests) /\ waiting \in Seq(Requests)
    BY DEF TypeOK
  <2>2. QED BY <2>1, WithoutElements DEF Abort
<1>3. table' \in [Requests -> Seq(Blocks)] /\ held' \subseteq Requests
  BY FreeFacts DEF Abort
<1>4. QED
  BY <1>1, <1>2, <1>3 DEF TypeOK, RequestType, Abort, recvVars, Blocks

--------------------------------------------------------------------------------
(* The invariant, action by action *)

\* What the parts of the invariant depend on.
LEMMA LoadsFrame ==
    ASSUME LoadsUnderWay, LoadsWriteOwnBlocks,
           UNCHANGED <<cfg, req, table, key, loading, load, held, report,
                       finished_recving_kv_req_ids>>
    PROVE  LoadsUnderWay' /\ LoadsWriteOwnBlocks'
BY DEF LoadsUnderWay, LoadsWriteOwnBlocks, Held

LEMMA SharingFrame ==
    ASSUME InvalidBlocksUnshared, UNCHANGED <<cfg, table>>, report'.invalid = report.invalid,
           \A r \in Requests : sch'.sync[r] = sch.sync[r]
    PROVE  InvalidBlocksUnshared'
BY DEF InvalidBlocksUnshared, Held

LEMMA WorkFrame ==
    ASSUME RemoteHasWork, WaitingHasWork, UNCHANGED <<req, table>>
    PROVE  RemoteHasWork' /\ WaitingHasWork'
BY DEF RemoteHasWork, WaitingHasWork

LEMMA QueuesFrame ==
    ASSUME QueuesAgree, UNCHANGED <<req, running, waiting>>, sch'.skipped = sch.skipped
    PROVE  QueuesAgree'
BY DEF QueuesAgree

LEMMA InvOfInit == Init => TransferInv
<1> SUFFICES ASSUME Init PROVE TransferInv
  OBVIOUS
<1>1. TypeOK
  BY TypeOfInit
<1>2. QueuesAgree
  <2>1. running = <<>> /\ sch.skipped = <<>> /\ waiting = <<>> /\ ToSet(<<>>) = {}
        /\ NoDuplicates(<<>>) /\ <<>> \o <<>> = <<>>
    BY DEF Init, NoSchedule, ToSet, NoDuplicates
  <2>2. QED BY <2>1 DEF QueuesAgree
<1>3. ScheduleStages
  BY DEF Init, NoSchedule, ScheduleStages
<1>4. LoadsUnderWay /\ LoadsWriteOwnBlocks
  BY DEF Init, LoadsUnderWay, LoadsWriteOwnBlocks, NewRequest
<1>5. InvalidBlocksUnshared
  BY DEF Init, NoSchedule, InvalidBlocksUnshared
<1>6. RemoteHasWork /\ WaitingHasWork
  BY DEF Init, RemoteHasWork, WaitingHasWork, NewRequest
<1>7. QED BY <1>1, <1>2, <1>3, <1>4, <1>5, <1>6 DEF TransferInv

\* A new request waits with its whole prompt.
LEMMA InvOfAddRequest == \A r \in Requests : TransferInv /\ AddRequest(r) => TransferInv'
<1> SUFFICES ASSUME NEW r \in Requests, TransferInv, AddRequest(r) PROVE TransferInv'
  OBVIOUS
<1> USE DEF TransferInv
<1>1. /\ phase = "engine" /\ req[r].status = "NONE" /\ waiting' = Append(waiting, r)
      /\ UNCHANGED <<cfg, running, cacheVars, phase, sch, recvVars, workerVars>>
  BY DEF AddRequest
<1>2. /\ \A s \in Requests : s # r => req'[s] = req[s]
      /\ req'[r].status = "WAITING" /\ req'[r].computed = req[r].computed
      /\ req'[r].tokens = req[r].tokens
  BY DEF TypeOK, AddRequest
<1>3. TypeOK'
  BY TypeOfAddRequest
<1>4. QueuesAgree'
  <2>1. sch = NoSchedule /\ sch.skipped = <<>> /\ waiting \in Seq(Requests)
    BY <1>1 DEF ScheduleStages, TypeOK
  <2>2. r \notin ToSet(waiting) /\ r \notin ToSet(running) /\ NoDuplicates(waiting)
    BY <1>1, QueueFacts DEF QueuesAgree
  <2>3. /\ waiting' \in Seq(Requests) /\ ToSet(waiting') = ToSet(waiting) \cup {r}
        /\ NoDuplicates(waiting')
    BY <1>1, <2>1, <2>2, AppendElements
  <2>4. <<>> \o waiting' = waiting' /\ ToSet(<<>>) = {}
    BY <2>3 DEF ToSet
  <2>5. ToSet(waiting) \subseteq Requests /\ ToSet(running) \subseteq Requests
    BY QueueFacts
  <2>6. QED BY <1>1, <1>2, <2>1, <2>2, <2>3, <2>4, <2>5 DEF QueuesAgree
<1>5. ScheduleStages'
  BY <1>1, <1>2 DEF ScheduleStages, workerVars, cacheVars, NoSchedule
<1>6. LoadsUnderWay' /\ LoadsWriteOwnBlocks'
  <2>1. UNCHANGED <<cfg, table, key, loading, load, held, report, finished_recving_kv_req_ids>>
    BY <1>1 DEF cacheVars, recvVars, workerVars
  <2>2. LoadsWriteOwnBlocks'
    BY <2>1 DEF LoadsWriteOwnBlocks, Held
  <2>3. r \notin loading /\ r \notin held /\ r \notin finished_recving_kv_req_ids \cup report.recving
    BY <1>1 DEF LoadsUnderWay, TypeOK
  <2>4. /\ loading \subseteq Requests /\ held \subseteq Requests
        /\ finished_recving_kv_req_ids \cup report.recving \subseteq Requests
    BY DEF TypeOK
  <2>6. \A s \in Requests : s # r => req'[s].status = req[s].status
    BY <1>2
  <2>7. LoadsUnderWay'
    BY <1>2, <2>1, <2>3, <2>4, <2>6 DEF LoadsUnderWay
  <2>5. QED BY <2>2, <2>7
<1>7. InvalidBlocksUnshared'
  BY <1>1, SharingFrame DEF cacheVars, workerVars
<1>8. RemoteHasWork' /\ WaitingHasWork'
  <2>1. req[r].computed = 0 /\ req[r].tokens > 0 /\ Len(table[r]) * BlockSize >= 0
    BY <1>1, StateTypes, ConstantTypes DEF RemoteHasWork
  <2>2. table' = table
    BY <1>1 DEF cacheVars
  <2>3. \A s \in Requests : s # r =>
          /\ req'[s].status = req[s].status /\ req'[s].computed = req[s].computed
          /\ req'[s].tokens = req[s].tokens
    BY <1>2
  <2>4. RemoteHasWork'
    BY <1>2, <2>2, <2>3 DEF RemoteHasWork
  <2>5. WaitingHasWork'
    <3> SUFFICES ASSUME NEW s \in Requests, req'[s].status \in {"WAITING", "PREEMPTED"}
                 PROVE  req'[s].computed < req'[s].tokens
                        /\ req'[s].computed <= Len(table'[s]) * BlockSize
      BY DEF WaitingHasWork
    <3>1. CASE s = r
      BY <1>2, <2>1, <2>2, <3>1
    <3>2. CASE s # r
      BY <2>2, <2>3, <3>2 DEF WaitingHasWork
    <3>3. QED BY <3>1, <3>2
  <2>6. QED BY <2>4, <2>5
<1>9. QED BY <1>3, <1>4, <1>5, <1>6, <1>7, <1>8

LEMMA InvOfBeginSchedule == TransferInv /\ BeginSchedule => TransferInv'
<1> SUFFICES ASSUME TransferInv, BeginSchedule PROVE TransferInv'
  OBVIOUS
<1> USE DEF TransferInv
<1>1. /\ phase = "engine" /\ phase' = "running"
      /\ UNCHANGED <<cfg, engineVars, cacheVars, sch, recvVars, workerVars>>
  BY DEF BeginSchedule
<1>2. TypeOK'
  BY TypeOfBeginSchedule
<1>3. ScheduleStages'
  BY <1>1 DEF ScheduleStages, workerVars, NoSchedule
<1>4. QED
  BY <1>1, <1>2, <1>3, QueuesFrame, LoadsFrame, SharingFrame, WorkFrame
  DEF engineVars, cacheVars, recvVars, workerVars

LEMMA InvOfRunningDone == TransferInv /\ RunningDone => TransferInv'
<1> SUFFICES ASSUME TransferInv, RunningDone PROVE TransferInv'
  OBVIOUS
<1> USE DEF TransferInv
<1>1. /\ phase = "running" /\ phase' \in {"close", "waiting"}
      /\ UNCHANGED <<cfg, engineVars, cacheVars, sch, recvVars, workerVars>>
  BY DEF RunningDone
<1>2. TypeOK'
  BY TypeOfRunningDone
<1>3. ScheduleStages'
  BY <1>1 DEF ScheduleStages, workerVars, engineVars, cacheVars
<1>4. QED
  BY <1>1, <1>2, <1>3, QueuesFrame, LoadsFrame, SharingFrame, WorkFrame
  DEF engineVars, cacheVars, recvVars, workerVars

\* A head put aside is still queued.
LEMMA SkipHeadKeeps ==
    ASSUME TypeOK, InWaitingLoop, SkipHead
    PROVE  /\ sch'.skipped \o waiting' = sch.skipped \o waiting
           /\ ToSet(sch'.skipped) \cup ToSet(waiting') = ToSet(sch.skipped) \cup ToSet(waiting)
           /\ sch'.num = sch.num /\ sch'.sync = sch.sync /\ sch'.index = sch.index
<1> DEFINE l == sch.skipped
           m == Append(l, Head(waiting))
<1>1. l \in Seq(Requests) /\ waiting \in Seq(Requests) /\ waiting # <<>>
  BY WaitingRequest DEF TypeOK
<1>2. /\ sch' = [sch EXCEPT !.skipped = m] /\ waiting' = Tail(waiting)
  BY DEF SkipHead
<1>3. sch'.skipped = m /\ sch'.num = sch.num /\ sch'.sync = sch.sync /\ sch'.index = sch.index
  BY <1>2 DEF TypeOK
<1> HIDE DEF l
<1>4. m \o Tail(waiting) = l \o waiting /\ Head(waiting) \in Requests
      /\ Tail(waiting) \in Seq(Requests)
  BY <1>1, TailMoves
<1>5. m \in Seq(Requests)
  BY <1>1, <1>4, AppendElements
<1>6. ToSet(m) \cup ToSet(Tail(waiting)) = ToSet(l) \cup ToSet(waiting)
  <2> DEFINE u == Tail(waiting)
  <2>1. ToSet(m \o u) = ToSet(m) \cup ToSet(u)
    <3>1. m \in Seq(Requests) /\ u \in Seq(Requests)
      BY <1>4, <1>5
    <3> HIDE DEF m, u
    <3>2. QED BY <3>1, ConcatElements
  <2>2. ToSet(l \o waiting) = ToSet(l) \cup ToSet(waiting)
    BY <1>1, ConcatElements
  <2>3. QED BY <1>4, <2>1, <2>2
<1>7. QED BY <1>2, <1>3, <1>4, <1>6 DEF l

LEMMA SkippingKeeps ==
    ASSUME TransferInv, TypeOK', InWaitingLoop, SkipHead,
           UNCHANGED <<cfg, req, running, cacheVars, phase, recvVars, workerVars>>
    PROVE  TransferInv'
<1> USE DEF TransferInv
<1>1. /\ sch'.skipped \o waiting' = sch.skipped \o waiting
      /\ ToSet(sch'.skipped) \cup ToSet(waiting') = ToSet(sch.skipped) \cup ToSet(waiting)
      /\ sch'.num = sch.num /\ sch'.sync = sch.sync /\ sch'.index = sch.index
  BY SkipHeadKeeps
<1>2. QueuesAgree'
  BY <1>1 DEF QueuesAgree
<1>3. ScheduleStages'
  BY <1>1 DEF ScheduleStages, InWaitingLoop, workerVars, cacheVars
<1>4. QED
  BY <1>1, <1>2, <1>3, LoadsFrame, SharingFrame, WorkFrame DEF cacheVars, recvVars, workerVars

LEMMA InvOfRemoteSkip == TransferInv /\ RemoteSkip => TransferInv'
BY TypeOfRemoteSkip, SkippingKeeps DEF RemoteSkip, TransferInv

LEMMA InvOfConnectorUndecided == TransferInv /\ ConnectorUndecided => TransferInv'
BY TypeOfConnectorUndecided, SkippingKeeps DEF ConnectorUndecided, TransferInv

\* The waiting loop ends: who was put aside is queued again.
LEMMA LeavingKeeps ==
    ASSUME TransferInv, TypeOK', phase = "waiting", LeaveWaitingLoop,
           UNCHANGED <<cfg, req, running, cacheVars, recvVars, workerVars>>
    PROVE  TransferInv'
<1> USE DEF TransferInv
<1>1. /\ waiting' = sch.skipped \o waiting /\ phase' = "close" /\ sch'.skipped = <<>>
      /\ sch'.num = sch.num /\ sch'.sync = sch.sync
  BY DEF LeaveWaitingLoop, TypeOK
<1>2. waiting' \in Seq(Requests) /\ ToSet(waiting') = ToSet(sch.skipped) \cup ToSet(waiting)
  <2> DEFINE l == sch.skipped
  <2>1. l \in Seq(Requests) /\ waiting \in Seq(Requests)
    BY DEF TypeOK
  <2> HIDE DEF l
  <2>2. l \o waiting \in Seq(Requests) /\ ToSet(l \o waiting) = ToSet(l) \cup ToSet(waiting)
    BY <2>1, ConcatElements
  <2>3. QED BY <1>1, <2>2 DEF l
<1>3. QueuesAgree'
  <2>1. sch'.skipped \o waiting' = waiting' /\ ToSet(sch'.skipped) = {}
    BY <1>1, <1>2 DEF ToSet
  <2>2. QED BY <1>1, <1>2, <2>1 DEF QueuesAgree
<1>4. ScheduleStages'
  BY <1>1 DEF ScheduleStages, workerVars, cacheVars
<1>5. QED
  BY <1>1, <1>3, <1>4, LoadsFrame, SharingFrame, WorkFrame DEF cacheVars, recvVars, workerVars

LEMMA InvOfWaitingBlocked == TransferInv /\ WaitingBlocked => TransferInv'
BY TypeOfWaitingBlocked, LeavingKeeps DEF WaitingBlocked, InWaitingLoop, TransferInv

LEMMA InvOfWaitingDone == TransferInv /\ WaitingDone => TransferInv'
BY TypeOfWaitingDone, LeavingKeeps DEF WaitingDone, TransferInv

\* Blocks a load writes are neither taken nor cached by what another request allocates.
LEMMA AllocatedApart ==
    ASSUME TypeOK, LoadsUnderWay, LoadsWriteOwnBlocks, NEW r \in Requests, r \notin loading,
           NEW hit \in Seq(Blocks), NEW total, NEW cached, NEW new, NEW t,
           Allocated(r, hit, total, cached, new, t),
           \A i \in 1 .. Len(hit) : hit[i] \in Held(r) \/ key[hit[i]] # NoKey
    PROVE  /\ \A s \in Requests : s # r => table'[s] = table[s] /\ Held(s)' = Held(s)
           /\ table'[r] = t /\ DOMAIN t = 1 .. Len(t) /\ Len(t) \in Nat
           /\ \A b \in new : \A s \in Requests : b \notin Held(s)
           /\ \A b \in Held(r)' : b \in Held(r) \/ b \in new \/ key[b] # NoKey
           /\ \A s \in loading : \A i \in DOMAIN load[s] :
                 /\ load[s][i] \in Held(s)' /\ key'[load[s][i]] = NoKey
                 /\ \A u \in Requests \ {s} : load[s][i] \notin Held(u)'
<1>1. /\ new \subseteq FreeBlocks /\ t \in Seq(Blocks)
      /\ \A i \in 1 .. Len(hit) : i \in 1 .. Len(t) /\ t[i] = hit[i]
      /\ \A i \in 1 .. Len(t) : i > Len(hit) => t[i] \in new
      /\ table' = [table EXCEPT ![r] = t]
      /\ \A b \in Blocks : key'[b] # key[b] => b \in new \/ \E i \in 1 .. Len(t) : t[i] = b
  BY DEF Allocated
<1>2. table \in [Requests -> Seq(Blocks)] /\ loading \subseteq Requests
  BY DEF TypeOK
<1>3. table'[r] = t /\ \A s \in Requests : s # r => table'[s] = table[s]
  BY <1>1, <1>2
<1>4. \A s \in Requests : s # r => Held(s)' = Held(s)
  BY <1>3 DEF Held
<1>5. \A b \in new : \A s \in Requests : b \notin Held(s)
  BY <1>1 DEF FreeBlocks
<1>6. DOMAIN t = 1 .. Len(t) /\ Len(t) \in Nat /\ Len(hit) \in Nat
  BY <1>1
<1>7. \A i \in 1 .. Len(t) : t[i] \in Held(r) \/ t[i] \in new \/ key[t[i]] # NoKey
  <2> TAKE i \in 1 .. Len(t)
  <2>1. CASE i > Len(hit)
    BY <1>1, <2>1
  <2>2. CASE i <= Len(hit)
    <3>1. i \in 1 .. Len(hit)
      BY <1>6, <2>2
    <3>2. QED BY <1>1, <3>1
  <2>3. QED BY <1>6, <2>1, <2>2
<1>8. \A b \in Held(r)' : \E i \in 1 .. Len(t) : t[i] = b
  BY <1>3, <1>6 DEF Held
<1>9. ASSUME NEW s \in loading, NEW i \in DOMAIN load[s]
      PROVE  /\ load[s][i] \in Held(s)' /\ key'[load[s][i]] = NoKey
             /\ \A u \in Requests \ {s} : load[s][i] \notin Held(u)'
  <2> DEFINE b == load[s][i]
  <2>1. s \in Requests /\ s # r
    BY <1>2
  <2>2. b \in Blocks
    BY <2>1, LoadBlocks
  <2>3. b \in Held(s) /\ key[b] = NoKey /\ \A u \in Requests \ {s} : b \notin Held(u)
    BY DEF LoadsWriteOwnBlocks
  <2> HIDE DEF b
  <2>4. b \notin new /\ ~(\E j \in 1 .. Len(t) : t[j] = b)
    BY <1>5, <1>7, <2>1, <2>3
  <2>5. key'[b] = NoKey
    BY <1>1, <2>2, <2>3, <2>4
  <2>6. b \notin Held(r)'
    BY <1>8, <2>4
  <2>7. QED BY <1>4, <2>1, <2>3, <2>5, <2>6 DEF b
<1>10. QED BY <1>3, <1>4, <1>5, <1>6, <1>7, <1>8, <1>9

LEMMA InvOfRunningSchedule == TransferInv /\ RunningSchedule => TransferInv'
<1> SUFFICES ASSUME TransferInv, RunningSchedule PROVE TransferInv'
  OBVIOUS
<1> USE DEF TransferInv
<1> DEFINE r == running[sch.index]
           n == NewTokens(r, req[r].computed)
           total == req[r].computed + n
           hit == table[r]
<1>1. /\ phase = "running" /\ r \in Requests /\ sch.index \in DOMAIN running /\ r \in ToSet(running)
      /\ UNCHANGED <<cfg, engineVars, phase, recvVars, workerVars>>
      /\ sch' = [sch EXCEPT !.index = sch.index + 1, !.num[r] = n]
      /\ Allocate(r, hit, total, total)
  BY RunningRequest DEF RunningSchedule, InRunningLoop, ToSet
<1>2. total \in Int /\ hit \in Seq(Blocks) /\ req[r].status = "RUNNING"
  BY <1>1, NewTokensType, StateTypes DEF QueuesAgree
<1>9. \A i \in 1 .. Len(hit) : hit[i] \in Held(r)
  BY <1>1, StateTypes DEF Held
<1>10. InRunningLoop
  BY DEF RunningSchedule
<1> HIDE DEF n, total, hit
<1>3. PICK new, t : Allocated(r, hit, total, total, new, t)
  <2> HIDE DEF r
  <2>1. total <= total
    BY <1>2
  <2>2. QED BY <1>1, <1>2, <2>1, AllocateFacts
<1>4. TypeOK'
  BY TypeOfRunningSchedule
<1>5. /\ sch'.num = [sch.num EXCEPT ![r] = n] /\ sch'.index = sch.index + 1
      /\ sch'.skipped = sch.skipped /\ sch'.sync = sch.sync
      /\ \A s \in Requests : s # r => sch'.num[s] = sch.num[s]
  BY <1>1 DEF TypeOK
<1>6. QueuesAgree'
  BY <1>1, <1>5, QueuesFrame DEF engineVars
<1>7. ScheduleStages'
  <2>1. ASSUME NEW s \in Requests, sch'.num[s] # 0
        PROVE  /\ \E i \in DOMAIN running : i < sch.index + 1 /\ running[i] = s
               /\ req[s].status = "RUNNING"
    <3>1. CASE s = r
      <4>1. sch.index < sch.index + 1
        BY <1>1, RunningRequest, <1>10
      <4>2. QED BY <1>1, <1>2, <3>1, <4>1
    <3>2. CASE s # r
      <4>1. PICK i \in DOMAIN running : i < sch.index /\ running[i] = s
        BY <1>1, <1>5, <2>1, <3>2 DEF ScheduleStages
      <4>2. i < sch.index + 1
        BY <4>1, RunningRequest, <1>10
      <4>3. req[s].status = "RUNNING"
        BY <1>1, <1>5, <2>1, <3>2 DEF ScheduleStages
      <4>4. QED BY <4>1, <4>2, <4>3
    <3>3. QED BY <3>1, <3>2
  <2>2. report'.invalid = {} /\ report'.recving = {} /\ report'.sending = {}
    BY <1>1 DEF ScheduleStages, workerVars
  <2>3. sch'.skipped = <<>> /\ \A s \in Requests : sch'.sync[s] = {}
    BY <1>1, <1>5 DEF ScheduleStages
  <2>4. QED BY <1>1, <1>5, <2>1, <2>2, <2>3 DEF ScheduleStages, engineVars
<1> HIDE DEF r
<1>8. r \notin loading
  BY <1>2 DEF LoadsUnderWay
<1>11. /\ \A s \in Requests : s # r => table'[s] = table[s] /\ Held(s)' = Held(s)
       /\ \A s \in loading : \A i \in DOMAIN load[s] :
                 /\ load[s][i] \in Held(s)' /\ key'[load[s][i]] = NoKey
                 /\ \A u \in Requests \ {s} : load[s][i] \notin Held(u)'
  BY <1>1, <1>2, <1>3, <1>8, <1>9, AllocatedApart
<1>12. LoadsWriteOwnBlocks'
  BY <1>1, <1>11 DEF LoadsWriteOwnBlocks, workerVars
<1>13. LoadsUnderWay'
  <2>1. \A s \in loading : table'[s] = table[s]
    BY <1>8, <1>11 DEF TypeOK
  <2>2. UNCHANGED <<cfg, req, loading, load, held, report, finished_recving_kv_req_ids>>
    BY <1>1 DEF engineVars, recvVars, workerVars
  <2>3. QED BY <2>1, <2>2 DEF LoadsUnderWay
<1>14. InvalidBlocksUnshared'
  BY <1>1, <1>5 DEF InvalidBlocksUnshared, ScheduleStages, workerVars
<1>15. RemoteHasWork' /\ WaitingHasWork'
  <2>1. req' = req
    BY <1>1 DEF engineVars
  <2>2. QED BY <1>2, <1>11, <2>1 DEF RemoteHasWork, WaitingHasWork
<1>16. QED BY <1>4, <1>6, <1>7, <1>12, <1>13, <1>14, <1>15

\* The last running request, which the loop has not reached, starts anew.
LEMMA InvOfRunningPreempt == TransferInv /\ RunningPreempt => TransferInv'
<1> SUFFICES ASSUME TransferInv, RunningPreempt PROVE TransferInv'
  OBVIOUS
<1> USE DEF TransferInv
<1> DEFINE v == Last(running)
           m == Len(running)
<1>0. InRunningLoop
  BY DEF RunningPreempt
<1>1. /\ phase = "running" /\ v \in Requests /\ v = running[m] /\ m \in 1 .. m /\ m \in Nat
      /\ DOMAIN running = 1 .. m /\ sch.index <= m /\ sch.index \in Nat /\ v \in ToSet(running)
      /\ running \in Seq(Requests) /\ running # <<>>
  <2>1. /\ sch.index \in 1 .. m /\ DOMAIN running = 1 .. m /\ m \in Nat
        /\ running # <<>> /\ v \in Requests /\ v = running[m]
    BY <1>0, RunningRequest
  <2>2. phase = "running" /\ running \in Seq(Requests)
    BY <1>0 DEF InRunningLoop, TypeOK
  <2> HIDE DEF m, v
  <2>3. m \in 1 .. m /\ sch.index <= m /\ sch.index \in Nat
    BY <2>1
  <2>4. QED BY <2>1, <2>2, <2>3 DEF ToSet
<1>2. /\ running' = Front(running) /\ waiting' = <<v>> \o waiting
      /\ req' = [req EXCEPT ![v].status = "PREEMPTED", ![v].computed = 0,
                            ![v].preempted = TRUE]
      /\ table' = [table EXCEPT ![v] = <<>>]
      /\ sch' = [sch EXCEPT !.preempted = TRUE]
      /\ UNCHANGED <<cfg, key, filled, phase, recvVars, workerVars>>
  BY DEF RunningPreempt
<1> HIDE DEF v
<1>3. /\ \A s \in Requests : s # v => req'[s] = req[s] /\ table'[s] = table[s]
      /\ req'[v].status = "PREEMPTED" /\ req'[v].computed = 0 /\ req'[v].tokens = req[v].tokens
      /\ table'[v] = <<>>
  BY <1>1, <1>2 DEF TypeOK
<1>4. /\ sch'.num = sch.num /\ sch'.index = sch.index /\ sch'.skipped = sch.skipped
      /\ sch'.sync = sch.sync
  BY <1>2 DEF TypeOK
<1>5. req[v].status = "RUNNING"
  BY <1>1 DEF QueuesAgree
<1>6. TypeOK'
  BY TypeOfRunningPreempt
<1>7. running' = RemoveAt(running, m) /\ m \in 1 .. Len(running)
  BY <1>1, <1>2, FrontFacts
<1>8. QueuesAgree'
  <2>1. ToSet(running') = ToSet(running) \ {v} /\ NoDuplicates(running')
    <3>1. NoDuplicates(running)
      BY DEF QueuesAgree
    <3> HIDE DEF m
    <3>2. QED BY <1>1, <1>7, <3>1, RemoveAtElements
  <2>2. sch.skipped = <<>> /\ waiting \in Seq(Requests) /\ waiting' \in Seq(Requests)
    BY <1>1, <1>6 DEF ScheduleStages, TypeOK
  <2>3. NoDuplicates(waiting) /\ v \notin ToSet(waiting)
        /\ ToSet(waiting) \subseteq Requests /\ ToSet(running) \subseteq Requests
    BY <1>1, QueueFacts
  <2>4. /\ ToSet(waiting') = ToSet(waiting) \cup {v} /\ NoDuplicates(waiting')
    <3> DEFINE o == <<v>>
    <3>1. o \in Seq(Requests) /\ ToSet(o) = {v} /\ NoDuplicates(o)
      BY <1>1 DEF ToSet, NoDuplicates
    <3>2. waiting' = o \o waiting
      BY <1>2
    <3> HIDE DEF o
    <3>3. /\ ToSet(o \o waiting) = ToSet(o) \cup ToSet(waiting)
          /\ NoDuplicates(o \o waiting) <=>
               NoDuplicates(o) /\ NoDuplicates(waiting) /\ ToSet(o) \cap ToSet(waiting) = {}
      BY <2>2, <3>1, ConcatElements
    <3>4. QED BY <2>3, <3>1, <3>2, <3>3
  <2>5. <<>> \o waiting' = waiting' /\ ToSet(<<>>) = {}
    BY <2>2 DEF ToSet
  <2>6. \A s \in ToSet(running') : req'[s].status = "RUNNING"
    BY <1>3, <2>1, <2>3 DEF QueuesAgree
  <2>7. \A s \in ToSet(waiting') : req'[s].status \in {"WAITING", "WAITING_FOR_REMOTE_KVS", "PREEMPTED"}
    BY <1>3, <2>3, <2>4 DEF QueuesAgree
  <2>8. QED BY <1>4, <2>1, <2>2, <2>4, <2>5, <2>6, <2>7 DEF QueuesAgree
<1>9. ScheduleStages'
  <2>1. ASSUME NEW s \in Requests, sch.num[s] # 0
        PROVE  /\ \E i \in DOMAIN running' : i < sch.index /\ running'[i] = s
               /\ req'[s].status = "RUNNING"
    <3>1. PICK i \in DOMAIN running : i < sch.index /\ running[i] = s
      BY <1>1, <2>1 DEF ScheduleStages
    <3>2. req[s].status = "RUNNING"
      BY <1>1, <2>1 DEF ScheduleStages
    <3>3. i \in 1 .. m - 1 /\ i < m
      BY <1>1, <3>1
    <3>4. i \in DOMAIN running' /\ running'[i] = running[i]
      <4>1. /\ RemoveAt(running, m) \in Seq(Requests) /\ Len(RemoveAt(running, m)) = Len(running) - 1
            /\ \A j \in 1 .. Len(running) - 1 :
                 RemoveAt(running, m)[j] = IF j < m THEN running[j] ELSE running[j + 1]
        <5> HIDE DEF m
        <5>1. QED BY <1>1, <1>7, RemoveAtIsSeq
      <4>2. DOMAIN running' = 1 .. m - 1
        BY <1>7, <4>1
      <4>3. QED BY <1>7, <3>3, <4>1, <4>2
    <3>5. s # v
      BY <1>1, <3>1, <3>3 DEF QueuesAgree, NoDuplicates
    <3>6. QED BY <1>3, <3>1, <3>2, <3>4, <3>5
  <2>2. report'.invalid = {} /\ report'.recving = {} /\ report'.sending = {}
    BY <1>1, <1>2 DEF ScheduleStages, workerVars
  <2>3. sch'.skipped = <<>> /\ \A s \in Requests : sch'.sync[s] = {}
    BY <1>1, <1>4 DEF ScheduleStages
  <2>4. phase' = "running"
    BY <1>1, <1>2
  <2>5. QED BY <1>4, <2>1, <2>2, <2>3, <2>4 DEF ScheduleStages
<1> HIDE DEF m
<1>10. UNCHANGED <<cfg, key, loading, load, held, report, finished_recving_kv_req_ids>>
       /\ loading \subseteq Requests /\ held \subseteq Requests
       /\ finished_recving_kv_req_ids \cup report.recving \subseteq Requests
  BY <1>2 DEF recvVars, workerVars, TypeOK
<1>11. v \notin loading /\ v \notin finished_recving_kv_req_ids \cup report.recving /\ v \notin held
  BY <1>5 DEF LoadsUnderWay
<1>12. \A s \in Requests : s # v => Held(s)' = Held(s)
  BY <1>3 DEF Held
<1>13. \A s \in Requests : s = v => Held(s)' = {}
  <2>1. DOMAIN <<>> = {}
    OBVIOUS
  <2>2. QED BY <1>3, <2>1 DEF Held
<1>14. LoadsWriteOwnBlocks'
  <2> SUFFICES ASSUME NEW s \in loading, NEW i \in DOMAIN load[s]
               PROVE  /\ load[s][i] \in Held(s)' /\ key[load[s][i]] = NoKey
                      /\ \A u \in Requests \ {s} : load[s][i] \notin Held(u)'
    BY <1>10 DEF LoadsWriteOwnBlocks
  <2>1. s \in Requests /\ s # v
    BY <1>10, <1>11
  <2>2. load[s][i] \in Held(s) /\ key[load[s][i]] = NoKey
        /\ \A u \in Requests \ {s} : load[s][i] \notin Held(u)
    BY DEF LoadsWriteOwnBlocks
  <2>3. QED BY <1>12, <1>13, <2>1, <2>2
<1>15. LoadsUnderWay'
  <2>1. \A s \in Requests : s # v => req'[s].status = req[s].status /\ table'[s] = table[s]
    BY <1>3
  <2>2. QED BY <1>3, <1>10, <1>11, <2>1 DEF LoadsUnderWay
<1>16. InvalidBlocksUnshared'
  BY <1>1, <1>4, <1>10 DEF InvalidBlocksUnshared, ScheduleStages
<1>17. RemoteHasWork' /\ WaitingHasWork'
  <2>1. req[v].tokens > 0 /\ Len(<<>>) * BlockSize = 0
    BY <1>1, StateTypes, ConstantTypes
  <2>2. QED BY <1>3, <2>1 DEF RemoteHasWork, WaitingHasWork
<1>18. QED BY <1>6, <1>8, <1>9, <1>14, <1>15, <1>16, <1>17

\* A finished load: its request waits for its turn, with what the load has brought.
LEMMA InvOfRemoteReady == TransferInv /\ RemoteReady => TransferInv'
<1> SUFFICES ASSUME TransferInv, RemoteReady PROVE TransferInv'
  OBVIOUS
<1> USE DEF TransferInv
<1> DEFINE r == Head(waiting)
           failed == r \in failed_recving_kv_req_ids
           n == IF failed THEN req[r].computed ELSE LoadedTokens(r)
           st == IF req[r].preempted THEN "PREEMPTED" ELSE "WAITING"
<1>1. /\ r \in Requests /\ phase = "waiting"
      /\ req[r].status = "WAITING_FOR_REMOTE_KVS" /\ r \in finished_recving_kv_req_ids
      /\ IF failed /\ n = 0
         THEN table' = [table EXCEPT ![r] = <<>>] /\ UNCHANGED key
         ELSE CacheUpTo(r, n) /\ UNCHANGED table
      /\ req' = [req EXCEPT ![r].computed = n, ![r].status = st]
      /\ finished_recving_kv_req_ids' = finished_recving_kv_req_ids \ {r}
      /\ UNCHANGED <<cfg, waiting, running, filled, phase, sch, workerVars>>
  BY WaitingRequest DEF RemoteReady, InWaitingLoop
<1>2. /\ n \in Int /\ n < req[r].tokens /\ n <= Len(table[r]) * BlockSize
  BY <1>1, LoadedTokensFacts, StateTypes DEF RemoteHasWork
<1>3. st \in {"WAITING", "PREEMPTED"}
  OBVIOUS
<1>4. TypeOK'
  BY TypeOfRemoteReady
<1> HIDE DEF r, st
<1>5. /\ \A s \in Requests : s # r => req'[s] = req[s] /\ table'[s] = table[s]
      /\ req'[r].status = st /\ req'[r].computed = n /\ req'[r].tokens = req[r].tokens
      /\ table'[r] = table[r] \/ (table'[r] = <<>> /\ n = 0)
  <2> HIDE DEF n
  <2>1. /\ table \in [Requests -> Seq(Blocks)]
        /\ req \in [Requests -> RequestType]
    BY DEF TypeOK, RequestType
  <2>2. /\ \A s \in Requests : s # r => req'[s] = req[s]
        /\ req'[r].status = st /\ req'[r].computed = n /\ req'[r].tokens = req[r].tokens
    BY <1>1, <2>1 DEF RequestType
  <2>3. table' = table \/ (table' = [table EXCEPT ![r] = <<>>] /\ n = 0)
    BY <1>1
  <2>4. QED BY <1>1, <2>1, <2>2, <2>3
<1>6. \A b \in Blocks : key'[b] # key[b] => b \in Held(r)
  <2> HIDE DEF n
  <2>1. CASE UNCHANGED key
    BY <2>1
  <2>2. CASE CacheUpTo(r, n)
    BY <1>1, <1>2, <2>2, CacheUpToFacts
  <2>3. QED BY <1>1, <2>1, <2>2
<1> HIDE DEF n
<1>7. QueuesAgree'
  <2>1. \A s \in ToSet(sch.skipped) \cup ToSet(waiting) :
           req'[s].status \in {"WAITING", "WAITING_FOR_REMOTE_KVS", "PREEMPTED"}
    BY <1>3, <1>5, QueueFacts DEF QueuesAgree
  <2>2. \A s \in ToSet(running) : req'[s].status = "RUNNING"
    BY <1>1, <1>5, QueueFacts DEF QueuesAgree
  <2>3. QED BY <1>1, <2>1, <2>2 DEF QueuesAgree
<1>8. cfg.async
  BY <1>1 DEF LoadsUnderWay
<1>9. ScheduleStages'
  <2>1. report'.invalid = {} /\ report'.recving = {} /\ report'.sending = {}
    BY <1>1 DEF ScheduleStages, workerVars
  <2>2. \A s \in Requests : sch.sync[s] = {}
    BY <1>8 DEF InvalidBlocksUnshared
  <2>3. \A s \in Requests : sch.num[s] # 0 => req'[s].status = "RUNNING"
    BY <1>1, <1>5 DEF ScheduleStages
  <2>4. phase' = "waiting" /\ sch' = sch
    BY <1>1
  <2>5. QED BY <2>1, <2>2, <2>3, <2>4 DEF ScheduleStages
<1>10. UNCHANGED <<cfg, loading, load, held, report>> /\ loading \subseteq Requests
       /\ finished_recving_kv_req_ids' = finished_recving_kv_req_ids \ {r}
       /\ report.recving = {} /\ held \subseteq Requests
       /\ finished_recving_kv_req_ids \subseteq Requests
  BY <1>1 DEF workerVars, TypeOK, ScheduleStages
<1>11. r \notin loading /\ r \notin held
  BY <1>1 DEF LoadsUnderWay
<1>12. \A s \in Requests : Held(s)' \subseteq Held(s) /\ (s # r => Held(s)' = Held(s))
  BY <1>5 DEF Held
<1>13. LoadsWriteOwnBlocks'
  <2> SUFFICES ASSUME NEW s \in loading, NEW i \in DOMAIN load[s]
               PROVE  /\ load[s][i] \in Held(s)' /\ key'[load[s][i]] = NoKey
                      /\ \A u \in Requests \ {s} : load[s][i] \notin Held(u)'
    BY <1>10 DEF LoadsWriteOwnBlocks
  <2>1. s \in Requests /\ s # r /\ load[s][i] \in Blocks
    BY <1>10, <1>11, LoadBlocks
  <2>2. load[s][i] \in Held(s) /\ key[load[s][i]] = NoKey
        /\ \A u \in Requests \ {s} : load[s][i] \notin Held(u)
    BY DEF LoadsWriteOwnBlocks
  <2>3. QED BY <1>1, <1>6, <1>12, <2>1, <2>2
<1>14. LoadsUnderWay'
  <2>1. \A s \in Requests : s # r => req'[s].status = req[s].status /\ table'[s] = table[s]
    BY <1>5
  <2>2. req'[r].status # "WAITING_FOR_REMOTE_KVS"
    BY <1>3, <1>5
  <2>3. QED BY <1>10, <1>11, <2>1, <2>2 DEF LoadsUnderWay
<1>15. InvalidBlocksUnshared'
  BY <1>1, <1>8 DEF InvalidBlocksUnshared, ScheduleStages, workerVars
<1>16. RemoteHasWork' /\ WaitingHasWork'
  <2>1. Len(<<>>) * BlockSize = 0
    BY ConstantTypes
  <2>2. RemoteHasWork'
    BY <1>3, <1>5 DEF RemoteHasWork
  <2>3. WaitingHasWork'
    <3> SUFFICES ASSUME NEW s \in Requests, req'[s].status \in {"WAITING", "PREEMPTED"}
                 PROVE  req'[s].computed < req'[s].tokens
                        /\ req'[s].computed <= Len(table'[s]) * BlockSize
      BY DEF WaitingHasWork
    <3>1. CASE s = r
      BY <1>2, <1>5, <2>1, <3>1
    <3>2. CASE s # r
      BY <1>5, <3>2 DEF WaitingHasWork
    <3>3. QED BY <3>1, <3>2
  <2>4. QED BY <2>2, <2>3
<1>17. QED BY <1>4, <1>7, <1>9, <1>13, <1>14, <1>15, <1>16

\* How many blocks a table has that covers `total` tokens.
LEMMA AllocatedLength ==
    ASSUME TypeOK, NEW r \in Requests, NEW hit \in Seq(Blocks), NEW total \in Int,
           NEW cached, NEW new, NEW t, Allocated(r, hit, total, cached, new, t)
    PROVE  /\ Len(t) \in Nat /\ Len(hit) \in Nat /\ CeilDiv(total, BlockSize) \in Int
           /\ Len(hit) <= Len(t) /\ CeilDiv(total, BlockSize) <= Len(t)
           /\ Len(t) = Len(hit) \/ Len(t) = CeilDiv(total, BlockSize)
           /\ (CeilDiv(total, BlockSize) - 1) * BlockSize < total
<1> DEFINE c == CeilDiv(total, BlockSize)
<1>1. t \in Seq(Blocks) /\ Len(t) = Len(hit) + Most(0, c - Len(hit))
  BY DEF Allocated
<1>2. BlockSize \in Nat /\ BlockSize > 0 /\ Len(t) \in Nat /\ Len(hit) \in Nat
  BY <1>1, ConstantTypes
<1>3. c \in Int /\ (c - 1) * BlockSize < total
  BY <1>2, CeilDivFacts
<1> HIDE DEF c
<1>4. Len(hit) <= Len(t) /\ c <= Len(t) /\ (Len(t) = Len(hit) \/ Len(t) = c)
  BY <1>1, <1>2, <1>3 DEF Most
<1>5. QED BY <1>2, <1>3, <1>4 DEF c

\* The positions a load of n tokens beyond `hit` blocks writes.
LEMMA LoadedPositions ==
    ASSUME NEW h \in Nat, NEW n \in Int, n >= 1, NEW l \in Int, NEW p \in Int,
           CeilDiv(h * BlockSize + n, BlockSize) <= l, h * BlockSize + n <= p
    PROVE  \A i \in Positions(h * BlockSize, h * BlockSize + n) :
              i \in 1 .. l /\ i > h /\ (i - 1) * BlockSize < p
<1> DEFINE total == h * BlockSize + n
           c == CeilDiv(total, BlockSize)
<1>1. BlockSize \in Nat /\ BlockSize > 0 /\ h * BlockSize \in Int
  BY ConstantTypes
<1>2. (h * BlockSize) \div BlockSize = h
  <2> DEFINE x == h * BlockSize
             q == x \div BlockSize
  <2>1. x \in Int
    BY <1>1
  <2>2. q \in Int /\ q * BlockSize <= x /\ x < (q + 1) * BlockSize
    BY <1>1, <2>1
  <2> HIDE DEF q
  <2>3. ~(h < q) /\ h < q + 1
    <3>1. ~(x < q * BlockSize)
      BY <1>1, <2>1, <2>2
    <3>2. h < q <=> h * BlockSize < q * BlockSize
      BY <1>1, <2>2, Monotone
    <3>3. h < q + 1 <=> h * BlockSize < (q + 1) * BlockSize
      <4> DEFINE k == q + 1
      <4>1. k \in Int
        BY <2>2
      <4> HIDE DEF k
      <4>2. h < k <=> h * BlockSize < k * BlockSize
        BY <1>1, <4>1, Monotone
      <4>3. QED BY <4>2 DEF k
    <3>4. QED BY <2>2, <3>1, <3>2, <3>3
  <2>4. q = h
    BY <2>2, <2>3
  <2>5. QED BY <2>4 DEF q
<1>3. total \in Int
  BY <1>1
<1>4. c \in Int /\ (c - 1) * BlockSize < total
  BY <1>1, <1>3, CeilDivFacts
<1>5. Positions(h * BlockSize, total) = h + 1 .. c
  BY <1>2 DEF Positions
<1> HIDE DEF c
<1>6. ASSUME NEW i \in h + 1 .. c PROVE i \in 1 .. l /\ i > h /\ (i - 1) * BlockSize < p
  <2>1. i \in Int /\ i <= c /\ i > h /\ c <= l
    BY <1>4, <1>6 DEF c
  <2> DEFINE a == i - 1
             b == c - 1
  <2>2. a \in Int /\ b \in Int /\ ~(b < a)
    BY <1>4, <2>1
  <2> HIDE DEF a, b
  <2>3. ~(b * BlockSize < a * BlockSize) /\ a * BlockSize \in Int /\ b * BlockSize \in Int
    BY <1>1, <2>2, Monotone
  <2>4. b * BlockSize < total /\ total <= p
    BY <1>4 DEF b
  <2>5. a * BlockSize < p
    BY <1>3, <2>3, <2>4
  <2>6. QED BY <1>4, <2>1, <2>5 DEF a
<1>7. QED BY <1>5, <1>6

\* A load begins: into blocks nobody else has.
LEMMA InvOfWaitingLoad == TransferInv /\ WaitingLoad => TransferInv'
<1> SUFFICES ASSUME TransferInv, WaitingLoad PROVE TransferInv'
  OBVIOUS
<1> USE DEF TransferInv
<1>1. PICK r \in Requests : r = Head(waiting)
  BY WaitingLoadFacts
<1>2. PICK hit, n, new, t :
         /\ hit \in Seq(Blocks) /\ hit = LocalHit(r) /\ n \in External(r, Len(hit) * BlockSize)
         /\ Loading(r, hit, n, new, t)
  BY <1>1, WaitingLoadFacts, LocalHitFacts
<1>3. /\ r \in ToSet(waiting) /\ req[r].status \in {"WAITING", "PREEMPTED"}
      /\ InWaitingLoop /\ cfg.async /\ SkipHead /\ req[r].computed = 0
      /\ loading' = loading \cup {r}
      /\ req' = [req EXCEPT ![r].status = "WAITING_FOR_REMOTE_KVS"]
      /\ UNCHANGED <<cfg, running, phase, recvVars, held, report, failures>>
  BY <1>1, WaitingLoadFacts DEF WaitingLoad
<1> DEFINE local == Len(hit) * BlockSize
           total == local + n
<1>4. /\ Allocated(r, hit, total, 0, new, t)
      /\ load' = [load EXCEPT ![r] = [i \in Positions(local, total) |-> t[i]]]
      /\ hit \in Seq(Blocks)
  BY <1>2 DEF Loading
<1>5. /\ local \in Nat /\ n \in Int /\ n >= 1 /\ total \in Int /\ total <= PromptLen[r]
      /\ total <= req[r].tokens /\ Len(hit) \in Nat /\ local < req[r].tokens
  <2>1. BlockSize \in Nat /\ Len(hit) \in Nat /\ local < req[r].tokens /\ req[r].tokens \in Nat
    BY <1>2, LocalHitFacts, ConstantTypes, StateTypes
  <2>2. local \in Nat
    BY <2>1
  <2> HIDE DEF local
  <2>3. n \in 1 .. req[r].tokens - local /\ local + n <= PromptLen[r]
    BY <1>2 DEF External, local
  <2>4. QED BY <2>1, <2>2, <2>3
<1>6. /\ Len(t) \in Nat /\ Len(hit) <= Len(t) /\ CeilDiv(total, BlockSize) <= Len(t)
      /\ Len(t) = Len(hit) \/ Len(t) = CeilDiv(total, BlockSize)
      /\ (CeilDiv(total, BlockSize) - 1) * BlockSize < total
      /\ CeilDiv(total, BlockSize) \in Int
  <2> HIDE DEF total
  <2>1. QED BY <1>4, <1>5, AllocatedLength
<1>7. \A i \in Positions(local, total) :
         i \in 1 .. Len(t) /\ i > Len(hit) /\ (i - 1) * BlockSize < PromptLen[r]
  <2> DEFINE h == Len(hit)
             l == Len(t)
             p == PromptLen[r]
  <2>1. h \in Nat /\ l \in Int /\ p \in Int /\ CeilDiv(h * BlockSize + n, BlockSize) <= l
        /\ h * BlockSize + n <= p
    BY <1>5, <1>6, ConstantTypes
  <2> HIDE DEF h, l, p
  <2>2. \A i \in Positions(h * BlockSize, h * BlockSize + n) :
              i \in 1 .. l /\ i > h /\ (i - 1) * BlockSize < p
    BY <1>5, <2>1, LoadedPositions
  <2>3. QED BY <2>2 DEF h, l, p
<1> HIDE DEF total
<1>8. TypeOK'
  BY TypeOfWaitingLoad
<1>9. /\ \A s \in Requests : s # r => req'[s] = req[s]
      /\ req'[r].status = "WAITING_FOR_REMOTE_KVS" /\ req'[r].computed = 0
      /\ req'[r].tokens = req[r].tokens
  <2>1. req \in [Requests -> RequestType]
    BY DEF TypeOK, RequestType
  <2>2. QED BY <1>3, <2>1 DEF RequestType
<1>10. /\ sch'.skipped \o waiting' = sch.skipped \o waiting
       /\ ToSet(sch'.skipped) \cup ToSet(waiting') = ToSet(sch.skipped) \cup ToSet(waiting)
       /\ sch'.num = sch.num /\ sch'.sync = sch.sync /\ sch'.index = sch.index
  BY <1>3, SkipHeadKeeps
<1>11. /\ phase = "waiting" /\ phase' = "waiting" /\ report.recving = {}
       /\ report.invalid = {} /\ report.sending = {}
       /\ UNCHANGED <<cfg, held, report, finished_recving_kv_req_ids>>
       /\ loading \subseteq Requests /\ held \subseteq Requests
       /\ finished_recving_kv_req_ids \subseteq Requests
  BY <1>3 DEF InWaitingLoop, ScheduleStages, recvVars, TypeOK
<1>12. r \notin loading /\ r \notin held /\ r \notin finished_recving_kv_req_ids
  BY <1>3 DEF LoadsUnderWay
<1>13. QueuesAgree'
  <2>1. \A s \in ToSet(sch'.skipped) \cup ToSet(waiting') :
           req'[s].status \in {"WAITING", "WAITING_FOR_REMOTE_KVS", "PREEMPTED"}
    BY <1>9, <1>10, QueueFacts DEF QueuesAgree
  <2>2. \A s \in ToSet(running) : req'[s].status = "RUNNING"
    BY <1>3, <1>9, QueueFacts DEF QueuesAgree
  <2>3. QED BY <1>3, <1>10, <2>1, <2>2 DEF QueuesAgree
<1>14. ScheduleStages'
  <2>1. \A s \in Requests : sch'.sync[s] = {}
    BY <1>3, <1>10 DEF InvalidBlocksUnshared
  <2>2. \A s \in Requests : sch'.num[s] # 0 => req'[s].status = "RUNNING"
    BY <1>3, <1>9, <1>10, <1>11 DEF ScheduleStages
  <2>3. QED BY <1>11, <2>1, <2>2 DEF ScheduleStages
<1>15. \A i \in 1 .. Len(hit) : hit[i] \in Held(r) \/ key[hit[i]] # NoKey
  BY <1>2, LocalHitFacts
<1>16. /\ \A s \in Requests : s # r => table'[s] = table[s] /\ Held(s)' = Held(s)
       /\ table'[r] = t /\ DOMAIN t = 1 .. Len(t)
       /\ \A b \in new : \A s \in Requests : b \notin Held(s)
       /\ \A s \in loading : \A i \in DOMAIN load[s] :
                 /\ load[s][i] \in Held(s)' /\ key'[load[s][i]] = NoKey
                 /\ \A u \in Requests \ {s} : load[s][i] \notin Held(u)'
  BY <1>4, <1>12, <1>15, AllocatedApart
<1>17. /\ \A s \in Requests : s # r => load'[s] = load[s]
       /\ load'[r] = [i \in Positions(local, total) |-> t[i]]
  <2> DEFINE l == [i \in Positions(local, total) |-> t[i]]
  <2>1. load' = [load EXCEPT ![r] = l] /\ load = [s \in Requests |-> load[s]]
    BY <1>4 DEF TypeOK
  <2> HIDE DEF l
  <2>2. load'[r] = l /\ \A s \in Requests : s # r => load'[s] = load[s]
    BY <2>1
  <2>3. QED BY <2>2 DEF l
<1>18. \A i \in DOMAIN load'[r] : /\ i \in Positions(local, total) /\ load'[r][i] = t[i]
                                 /\ i \in 1 .. Len(t) /\ i > Len(hit)
                                 /\ (i - 1) * BlockSize < PromptLen[r]
  BY <1>7, <1>17
<1>19. LoadsWriteOwnBlocks'
  <2> SUFFICES ASSUME NEW s \in loading', NEW i \in DOMAIN load'[s]
               PROVE  /\ load'[s][i] \in Held(s)' /\ key'[load'[s][i]] = NoKey
                      /\ \A u \in Requests \ {s} : load'[s][i] \notin Held(u)'
    BY DEF LoadsWriteOwnBlocks
  <2>1. CASE s = r
    <3> DEFINE b == t[i]
    <3>1. load'[s][i] = b /\ i \in 1 .. Len(t) /\ i > Len(hit)
      BY <1>18, <2>1
    <3>2. b \in new /\ b \in Blocks /\ key'[b] = NoKey
      <4>1. /\ new \subseteq FreeBlocks /\ b \in new
            /\ \A c \in Blocks : key'[c] = IF c \in new THEN NoKey ELSE key[c]
        BY <1>4, <3>1 DEF Allocated
      <4>2. QED BY <4>1, StateTypes
    <3>3. b \in Held(s)'
      BY <1>16, <2>1, <3>1 DEF Held
    <3> HIDE DEF b
    <3>4. QED BY <1>16, <2>1, <3>1, <3>2, <3>3
  <2>2. CASE s # r
    <3>1. s \in loading /\ s \in Requests /\ load'[s] = load[s]
      BY <1>3, <1>11, <1>17, <2>2
    <3>2. QED BY <1>16, <3>1
  <2>3. QED BY <2>1, <2>2
<1>20. LoadsUnderWay'
  <2>1. \A s \in Requests : s # r => /\ req'[s].status = req[s].status
                                     /\ table'[s] = table[s] /\ load'[s] = load[s]
    BY <1>9, <1>16, <1>17
  <2>2. \A i \in DOMAIN load'[r] :
           /\ i \in DOMAIN table'[r] /\ load'[r][i] = table'[r][i]
           /\ (i - 1) * BlockSize < PromptLen[r]
    BY <1>16, <1>18
  <2>3. \A s \in Requests : req'[s].status = "WAITING_FOR_REMOTE_KVS" => cfg'.async
    BY <1>3, <1>11
  <2>4. \A s \in Requests \ loading' : load'[s] = <<>>
    BY <1>3, <2>1 DEF LoadsUnderWay
  <2>5. ASSUME NEW s \in loading'
        PROVE  /\ cfg'.async
               /\ \/ req'[s].status = "WAITING_FOR_REMOTE_KVS"
                  \/ req'[s].status = "FINISHED" /\ s \in held'
               /\ s \notin finished_recving_kv_req_ids' \cup report'.recving \cup report'.sending
               /\ \A i \in DOMAIN load'[s] :
                     /\ i \in DOMAIN table'[s] /\ load'[s][i] = table'[s][i]
                     /\ (i - 1) * BlockSize < PromptLen[s]
    <3>1. CASE s = r
      BY <1>3, <1>9, <1>11, <1>12, <2>2, <3>1
    <3>2. CASE s # r
      <4>1. s \in loading /\ s \in Requests
        BY <1>3, <1>11, <3>2
      <4>2. QED BY <1>3, <1>11, <2>1, <3>2, <4>1 DEF LoadsUnderWay
    <3>3. QED BY <3>1, <3>2
  <2>6. \A s \in finished_recving_kv_req_ids' \cup report'.recving :
          req'[s].status \in {"WAITING_FOR_REMOTE_KVS", "FINISHED"}
    BY <1>11, <1>12, <2>1 DEF LoadsUnderWay
  <2>7. report'.sending \subseteq held' /\ \A s \in held' : req'[s].status = "FINISHED"
    BY <1>11, <1>12, <2>1 DEF LoadsUnderWay
  <2>8. QED BY <2>3, <2>4, <2>5, <2>6, <2>7 DEF LoadsUnderWay
<1>21. InvalidBlocksUnshared'
  BY <1>10, <1>11 DEF InvalidBlocksUnshared
<1>22. RemoteHasWork' /\ WaitingHasWork'
  <2>1. (Len(t) - 1) * BlockSize < req[r].tokens
    <3>1. BlockSize \in Nat /\ BlockSize > 0 /\ req[r].tokens \in Nat
      BY ConstantTypes, StateTypes
    <3>2. CASE Len(t) = Len(hit)
      <4>1. (Len(hit) - 1) * BlockSize = local - BlockSize
        BY <1>5, <3>1
      <4> HIDE DEF local
      <4>2. QED BY <1>5, <3>1, <3>2, <4>1
    <3>3. CASE Len(t) = CeilDiv(total, BlockSize)
      <4> DEFINE x == (Len(t) - 1) * BlockSize
      <4>1. x \in Int /\ x < total
        BY <1>6, <3>1, <3>3
      <4> HIDE DEF x
      <4>2. x < req[r].tokens
        BY <1>5, <3>1, <4>1
      <4>3. QED BY <4>2 DEF x
    <3>4. QED BY <1>6, <3>2, <3>3
  <2>2. 0 < req[r].tokens /\ 0 <= Len(t) * BlockSize
    BY <1>6, ConstantTypes, StateTypes
  <2>3. \A s \in Requests : s # r =>
          /\ req'[s].status = req[s].status /\ req'[s].computed = req[s].computed
          /\ req'[s].tokens = req[s].tokens /\ table'[s] = table[s]
    BY <1>9, <1>16
  <2>4. RemoteHasWork'
    <3> SUFFICES ASSUME NEW s \in Requests
                 PROVE  /\ req'[s].status = "NONE" => req'[s].computed = 0
                        /\ req'[s].status = "WAITING_FOR_REMOTE_KVS" =>
                              /\ req'[s].computed < req'[s].tokens
                              /\ req'[s].computed <= Len(table'[s]) * BlockSize
                              /\ (Len(table'[s]) - 1) * BlockSize < req'[s].tokens
      BY DEF RemoteHasWork
    <3>1. CASE s = r
      BY <1>9, <1>16, <2>1, <2>2, <3>1
    <3>2. CASE s # r
      BY <2>3, <3>2 DEF RemoteHasWork
    <3>3. QED BY <3>1, <3>2
  <2>5. WaitingHasWork'
    BY <1>9, <2>3 DEF WaitingHasWork
  <2>6. QED BY <2>4, <2>5
<1>23. QED BY <1>8, <1>13, <1>14, <1>19, <1>20, <1>21, <1>22

\* The head leaves the queues of those that wait.
LEMMA HeadLeaves ==
    ASSUME TypeOK, QueuesAgree, InWaitingLoop
    PROVE  /\ NoDuplicates(sch.skipped \o Tail(waiting))
           /\ ToSet(sch.skipped) \cup ToSet(Tail(waiting))
                = (ToSet(sch.skipped) \cup ToSet(waiting)) \ {Head(waiting)}
<1> DEFINE l == sch.skipped
           k == Len(l) + 1
           c == l \o waiting
<1>1. /\ l \in Seq(Requests) /\ waiting \in Seq(Requests) /\ waiting # <<>>
      /\ NoDuplicates(c) /\ Head(waiting) = waiting[1] /\ 1 \in 1 .. Len(waiting)
  BY WaitingRequest DEF QueuesAgree, TypeOK
<1> HIDE DEF l
<1>2. Tail(waiting) = RemoveAt(waiting, 1) /\ Tail(waiting) \in Seq(Requests)
  BY <1>1, TailMoves
<1>3. k \in 1 .. Len(c) /\ c[k] = waiting[1] /\ l \o RemoveAt(waiting, 1) = RemoveAt(c, k)
  BY <1>1, RemoveAtConcat
<1>4. c \in Seq(Requests) /\ ToSet(c) = ToSet(l) \cup ToSet(waiting)
  BY <1>1, ConcatElements
<1> HIDE DEF c, k
<1>5. ToSet(RemoveAt(c, k)) = ToSet(c) \ {c[k]} /\ NoDuplicates(RemoveAt(c, k))
  BY <1>1, <1>3, <1>4, RemoveAtElements
<1>6. ToSet(l \o Tail(waiting)) = ToSet(l) \cup ToSet(Tail(waiting))
  <2> DEFINE u == Tail(waiting)
  <2>1. u \in Seq(Requests)
    BY <1>2
  <2> HIDE DEF u
  <2>2. ToSet(l \o u) = ToSet(l) \cup ToSet(u)
    BY <1>1, <2>1, ConcatElements
  <2>3. QED BY <2>2 DEF u
<1>7. QED BY <1>1, <1>2, <1>3, <1>4, <1>5, <1>6 DEF l

\* What an admitted request gets covers the load inside the step.
LEMMA AdmittedSync ==
    ASSUME TypeOK, InvalidBlocksUnshared, NEW r \in Requests, NEW hit \in Seq(Blocks),
           NEW computed \in Int, NEW sync, NEW new, NEW t,
           AdmittedWith(r, hit, computed, sync),
           Allocated(r, hit, computed + NewTokens(r, computed),
                     computed + NewTokens(r, computed), new, t)
    PROVE  /\ sync \subseteq 1 .. Len(t) /\ (cfg.async => sync = {})
           /\ \A i \in 1 .. Len(hit) : hit[i] \in Held(r) \/ key[hit[i]] # NoKey
<1>1. hit = table[r] \/ hit = LocalHit(r)
  BY DEF AdmittedWith
<1>2. \A i \in 1 .. Len(hit) : hit[i] \in Held(r) \/ key[hit[i]] # NoKey
  BY <1>1, LocalHitFacts, StateTypes DEF Held
<1>3. cfg.async => sync = {}
  BY DEF AdmittedWith
<1>4. sync \subseteq 1 .. Len(t)
  <2>1. CASE sync = {}
    BY <2>1
  <2>2. CASE \E n \in External(r, Len(hit) * BlockSize) :
                /\ hit = LocalHit(r) /\ computed = Len(hit) * BlockSize + n
                /\ sync = Positions(Len(hit) * BlockSize, computed)
    <3>1. PICK n \in External(r, Len(hit) * BlockSize) :
                /\ computed = Len(hit) * BlockSize + n
                /\ sync = Positions(Len(hit) * BlockSize, computed)
      BY <2>2
    <3> DEFINE h == Len(hit)
               l == Len(t)
               local == h * BlockSize
               k == NewTokens(r, computed)
               total == computed + k
    <3>2. BlockSize \in Nat /\ BlockSize > 0 /\ h \in Nat /\ req[r].tokens \in Nat /\ Chunk \in Nat
      BY ConstantTypes, StateTypes
    <3>3. local \in Nat
      BY <3>2
    <3>4. n \in Int /\ n >= 1 /\ computed = local + n /\ computed <= req[r].tokens
      <4> HIDE DEF local
      <4>1. n \in 1 .. req[r].tokens - local
        BY DEF External, local
      <4>2. QED BY <3>1, <3>2, <3>3, <4>1 DEF local
    <3>5. k \in Int /\ k >= 0 /\ total \in Int /\ computed <= total
      <4> HIDE DEF local, h
      <4> DEFINE x == req[r].tokens - computed
      <4>1. x \in Int /\ x >= 0
        BY <3>2, <3>4
      <4> HIDE DEF x
      <4>2. k = Least(x, Chunk)
        BY DEF NewTokens, x
      <4> HIDE DEF k
      <4>3. k \in Int /\ k >= 0
        BY <3>2, <4>1, <4>2 DEF Least
      <4>4. QED BY <4>3
    <3> HIDE DEF k
    <3>6. l \in Nat /\ CeilDiv(total, BlockSize) <= l /\ CeilDiv(total, BlockSize) \in Int
      <4>1. Allocated(r, hit, total, total, new, t)
        BY DEF k
      <4> HIDE DEF total
      <4>2. QED BY <3>5, <4>1, AllocatedLength
    <3> HIDE DEF total
    <3>7. CeilDiv(computed, BlockSize) <= CeilDiv(total, BlockSize)
      <4> DEFINE a == computed + BlockSize - 1
                 b == total + BlockSize - 1
                 x == a \div BlockSize
                 y == b \div BlockSize
      <4>1. a \in Int /\ b \in Int /\ a <= b
        BY <3>2, <3>4, <3>5
      <4> HIDE DEF a, b
      <4>2. x \in Int /\ y \in Int /\ x * BlockSize <= a /\ b < (y + 1) * BlockSize
        BY <3>2, <4>1
      <4> HIDE DEF x, y
      <4> DEFINE z == y + 1
      <4>3. z \in Int /\ x * BlockSize \in Int /\ z * BlockSize \in Int
        BY <3>2, <4>2
      <4>4. x * BlockSize < z * BlockSize
        BY <4>1, <4>2, <4>3
      <4>5. x < z
        <5> HIDE DEF z
        <5>1. QED BY <3>2, <4>2, <4>3, <4>4, Monotone
      <4>6. QED BY <4>2, <4>5 DEF CeilDiv, x, y, a, b
    <3>8. CeilDiv(local + n, BlockSize) <= l
      <4>1. CeilDiv(computed, BlockSize) \in Int
        BY <3>2, CeilDivFacts
      <4>2. QED BY <3>4, <3>6, <3>7, <4>1
    <3>9. \A i \in Positions(local, local + n) : i \in 1 .. l
      <4> HIDE DEF h, l
      <4>1. /\ h \in Nat /\ n \in Int /\ n >= 1 /\ l \in Int /\ computed \in Int
            /\ CeilDiv(h * BlockSize + n, BlockSize) <= l /\ h * BlockSize + n <= computed
        BY <3>2, <3>3, <3>4, <3>6, <3>8
      <4>2. \A i \in Positions(h * BlockSize, h * BlockSize + n) :
              i \in 1 .. l /\ i > h /\ (i - 1) * BlockSize < computed
        BY <4>1, LoadedPositions
      <4>3. QED BY <4>2
    <3>10. QED BY <3>1, <3>4, <3>9
  <2>3. QED BY <2>1, <2>2 DEF AdmittedWith
<1>5. QED BY <1>2, <1>3, <1>4

LEMMA InvOfWaitingAdmit == TransferInv /\ WaitingAdmit => TransferInv'
<1> SUFFICES ASSUME TransferInv, WaitingAdmit PROVE TransferInv'
  OBVIOUS
<1> USE DEF TransferInv
<1>1. PICK r \in Requests : r = Head(waiting)
  BY WaitingAdmitFacts
<1>2. PICK hit, computed, sync, new, t :
         /\ AdmittedWith(r, hit, computed, sync)
         /\ Admit(r, hit, computed, sync)
         /\ hit \in Seq(Blocks) /\ computed \in Int
         /\ Allocated(r, hit, computed + NewTokens(r, computed),
                      computed + NewTokens(r, computed), new, t)
  BY <1>1, WaitingAdmitFacts
<1>3. /\ r \in ToSet(waiting) /\ req[r].status \in {"WAITING", "PREEMPTED"} /\ InWaitingLoop
      /\ UNCHANGED <<cfg, phase, recvVars, workerVars>>
  BY <1>1, WaitingAdmitFacts DEF WaitingAdmit
<1> DEFINE n == NewTokens(r, computed)
<1>4. /\ sch' = [sch EXCEPT !.num[r] = n, !.sync[r] = sync]
      /\ req' = [req EXCEPT ![r].status = "RUNNING", ![r].computed = computed,
                    ![r].cached = IF @ = NotScheduledYet THEN computed ELSE @]
      /\ waiting' = Tail(waiting) /\ running' = Append(running, r)
  BY <1>2 DEF Admit
<1>5. /\ sync \subseteq 1 .. Len(t) /\ (cfg.async => sync = {})
      /\ \A i \in 1 .. Len(hit) : hit[i] \in Held(r) \/ key[hit[i]] # NoKey
  BY <1>2, AdmittedSync
<1> HIDE DEF n
<1>6. TypeOK'
  BY TypeOfWaitingAdmit
<1>7. /\ \A s \in Requests : s # r => req'[s] = req[s]
      /\ req'[r].status = "RUNNING"
  <2>1. req \in [Requests -> RequestType]
    BY DEF TypeOK, RequestType
  <2>2. QED BY <1>4, <2>1 DEF RequestType
<1>8. /\ sch'.skipped = sch.skipped
      /\ \A s \in Requests : s # r => sch'.num[s] = sch.num[s] /\ sch'.sync[s] = sch.sync[s]
      /\ sch'.sync[r] = sync
  <2>1. sch \in ScheduleType
    BY DEF TypeOK, ScheduleType
  <2>2. QED BY <1>4, <2>1 DEF ScheduleType
<1>9. /\ phase = "waiting" /\ phase' = "waiting" /\ report.recving = {}
      /\ report.invalid = {} /\ report.sending = {}
      /\ UNCHANGED <<cfg, held, report, finished_recving_kv_req_ids, loading, load>>
      /\ loading \subseteq Requests /\ held \subseteq Requests
      /\ finished_recving_kv_req_ids \subseteq Requests
  BY <1>3 DEF InWaitingLoop, ScheduleStages, recvVars, workerVars, TypeOK
<1>10. r \notin loading /\ r \notin held /\ r \notin finished_recving_kv_req_ids
  BY <1>3 DEF LoadsUnderWay
<1>11. QueuesAgree'
  <2>1. /\ NoDuplicates(sch'.skipped \o waiting')
        /\ ToSet(sch'.skipped) \cup ToSet(waiting')
             = (ToSet(sch.skipped) \cup ToSet(waiting)) \ {r}
    BY <1>1, <1>3, <1>4, <1>8, HeadLeaves
  <2>2. r \notin ToSet(running) /\ NoDuplicates(running) /\ running \in Seq(Requests)
    BY <1>3 DEF QueuesAgree, TypeOK
  <2>3. ToSet(running') = ToSet(running) \cup {r} /\ NoDuplicates(running')
    BY <1>4, <2>2, AppendElements
  <2>4. \A s \in ToSet(sch'.skipped) \cup ToSet(waiting') :
           req'[s].status \in {"WAITING", "WAITING_FOR_REMOTE_KVS", "PREEMPTED"}
    BY <1>7, <2>1, QueueFacts DEF QueuesAgree
  <2>5. \A s \in ToSet(running') : req'[s].status = "RUNNING"
    BY <1>7, <2>2, <2>3, QueueFacts DEF QueuesAgree
  <2>6. QED BY <2>1, <2>3, <2>4, <2>5 DEF QueuesAgree
<1>12. /\ \A s \in Requests : s # r => table'[s] = table[s] /\ Held(s)' = Held(s)
       /\ table'[r] = t /\ DOMAIN t = 1 .. Len(t)
       /\ \A s \in loading : \A i \in DOMAIN load[s] :
                 /\ load[s][i] \in Held(s)' /\ key'[load[s][i]] = NoKey
                 /\ \A u \in Requests \ {s} : load[s][i] \notin Held(u)'
  BY <1>2, <1>5, <1>10, AllocatedApart
<1>13. ScheduleStages'
  <2>1. \A s \in Requests : sch'.num[s] # 0 => req'[s].status = "RUNNING"
    BY <1>7, <1>8, <1>9 DEF ScheduleStages
  <2>2. \A s \in Requests : sch'.sync[s] \subseteq DOMAIN table'[s]
    BY <1>5, <1>8, <1>9, <1>12 DEF ScheduleStages
  <2>3. QED BY <1>9, <2>1, <2>2 DEF ScheduleStages
<1>14. LoadsWriteOwnBlocks'
  BY <1>9, <1>12 DEF LoadsWriteOwnBlocks
<1>15. LoadsUnderWay'
  <2>1. \A s \in Requests : s # r => /\ req'[s].status = req[s].status
                                     /\ table'[s] = table[s]
    BY <1>7, <1>12
  <2>2. QED BY <1>7, <1>9, <1>10, <2>1 DEF LoadsUnderWay
<1>16. InvalidBlocksUnshared'
  BY <1>5, <1>8, <1>9 DEF InvalidBlocksUnshared
<1>17. RemoteHasWork' /\ WaitingHasWork'
  <2>1. \A s \in Requests : s # r => req'[s] = req[s] /\ table'[s] = table[s]
    BY <1>7, <1>12
  <2>2. QED BY <1>7, <2>1 DEF RemoteHasWork, WaitingHasWork
<1>18. QED BY <1>6, <1>11, <1>13, <1>14, <1>15, <1>16, <1>17

\* _update_after_schedule adds to the counts of running requests only.
LEMMA InvOfEndSchedule == TransferInv /\ EndSchedule => TransferInv'
<1> SUFFICES ASSUME TransferInv, EndSchedule PROVE TransferInv'
  OBVIOUS
<1> USE DEF TransferInv
<1>1. /\ phase = "close" /\ phase' = "execute"
      /\ req' = [r \in Requests |-> [req[r] EXCEPT !.computed = @ + sch.num[r]]]
      /\ UNCHANGED <<cfg, waiting, running, cacheVars, sch, recvVars, workerVars>>
  BY DEF EndSchedule
<1>2. TypeOK'
  BY TypeOfEndSchedule
<1>3. \A r \in Requests :
         /\ req'[r].status = req[r].status /\ req'[r].tokens = req[r].tokens
         /\ req'[r].computed = req[r].computed + sch.num[r]
  <2>1. \A r \in Requests : req[r] \in RequestType
    BY DEF TypeOK, RequestType
  <2>2. QED BY <1>1, <2>1 DEF RequestType
<1>4. \A r \in Requests : req[r].status # "RUNNING" => req'[r].computed = req[r].computed
  <2> TAKE r \in Requests
  <2>1. req[r].status # "RUNNING" => sch.num[r] = 0
    BY <1>1 DEF ScheduleStages
  <2>2. req[r].computed \in Int
    BY StateTypes
  <2>3. QED BY <1>3, <2>1, <2>2
<1>5. QueuesAgree'
  BY <1>1, <1>3, QueueFacts DEF QueuesAgree
<1>6. ScheduleStages'
  BY <1>1 DEF ScheduleStages, cacheVars
<1>7. UNCHANGED <<cfg, table, key, loading, load, held, report, finished_recving_kv_req_ids>>
      /\ loading \subseteq Requests /\ held \subseteq Requests
      /\ finished_recving_kv_req_ids \cup report.recving \subseteq Requests
  BY <1>1 DEF cacheVars, recvVars, workerVars, TypeOK
<1>8. LoadsWriteOwnBlocks'
  BY <1>7 DEF LoadsWriteOwnBlocks, Held
<1>9. LoadsUnderWay'
  BY <1>3, <1>7 DEF LoadsUnderWay
<1>10. InvalidBlocksUnshared'
  BY <1>1, <1>7, SharingFrame
<1>11. RemoteHasWork' /\ WaitingHasWork'
  BY <1>3, <1>4, <1>7 DEF RemoteHasWork, WaitingHasWork
<1>12. QED BY <1>2, <1>5, <1>6, <1>8, <1>9, <1>10, <1>11

\* A step of the model: loads inside it may fail, in deployments that have none beside it.
LEMMA InvOfExecute == TransferInv /\ Execute => TransferInv'
<1> SUFFICES ASSUME TransferInv, Execute PROVE TransferInv'
  OBVIOUS
<1> USE DEF TransferInv
<1>1. PICK bad, right :
             /\ bad \subseteq Synced
             /\ report' = [report EXCEPT !.invalid = @ \cup bad]
             /\ sch' = [sch EXCEPT !.right = right]
  BY ExecuteFacts
<1>2. /\ phase = "execute" /\ phase' = "invalid"
      /\ UNCHANGED <<cfg, engineVars, table, key, recvVars, loading, load, held>>
  BY DEF Execute
<1>3. /\ report'.invalid = report.invalid \cup bad /\ report'.recving = report.recving
      /\ report'.sending = report.sending
      /\ sch'.skipped = sch.skipped /\ sch'.sync = sch.sync
  BY <1>1 DEF TypeOK
<1>4. TypeOK'
  BY TypeOfExecute
<1>5. QueuesAgree'
  BY <1>2, <1>3, QueuesFrame DEF engineVars
<1>6. ScheduleStages'
  BY <1>2, <1>3 DEF ScheduleStages
<1>7. LoadsUnderWay' /\ LoadsWriteOwnBlocks'
  BY <1>2, <1>3 DEF LoadsUnderWay, LoadsWriteOwnBlocks, Held, engineVars, recvVars
<1>8. InvalidBlocksUnshared'
  <2>1. cfg.async => bad = {}
    <3>1. cfg.async => Synced = {}
      BY DEF InvalidBlocksUnshared, Synced
    <3>2. QED BY <1>1, <3>1
  <2>2. cfg.async => report'.invalid = report.invalid
    BY <1>3, <2>1
  <2>3. QED BY <1>2, <1>3, <2>2 DEF InvalidBlocksUnshared, Held
<1>9. QED
  BY <1>2, <1>4, <1>5, <1>6, <1>7, <1>8, WorkFrame DEF engineVars

\* A block a load could not write is in the table of its request only.
LEMMA InvOfLoadFails == \A r \in Requests : TransferInv /\ LoadFails(r) => TransferInv'
<1> SUFFICES ASSUME NEW r \in Requests, TransferInv, LoadFails(r) PROVE TransferInv'
  OBVIOUS
<1> USE DEF TransferInv
<1>1. PICK bad \in SUBSET DOMAIN load[r] :
         /\ bad # {}
         /\ report' = [report EXCEPT !.invalid = @ \cup {load[r][i] : i \in bad}]
         /\ load' = [load EXCEPT ![r] = Restrict(@, DOMAIN @ \ bad)]
  BY DEF LoadFails
<1>2. /\ phase = "execute"
      /\ UNCHANGED <<cfg, engineVars, cacheVars, phase, sch, recvVars, loading, held>>
  BY DEF LoadFails
<1>3. r \in loading /\ \A i \in bad : load[r][i] \in Held(r)
  BY <1>1, LoadBlocks
<1>4. TypeOK'
  BY TypeOfLoadFails
<1>5. /\ report'.invalid = report.invalid \cup {load[r][i] : i \in bad}
      /\ report'.recving = report.recving /\ report'.sending = report.sending
  BY <1>1 DEF TypeOK
<1>6. /\ \A s \in Requests : s # r => load'[s] = load[s]
      /\ \A i \in DOMAIN load'[r] : i \in DOMAIN load[r] /\ load'[r][i] = load[r][i]
  <2> DEFINE l == Restrict(load[r], DOMAIN load[r] \ bad)
  <2>1. \A i \in DOMAIN l : i \in DOMAIN load[r] /\ l[i] = load[r][i]
    BY DEF Restrict
  <2>2. load' = [load EXCEPT ![r] = l] /\ load = [s \in Requests |-> load[s]]
    BY <1>1 DEF TypeOK
  <2> HIDE DEF l
  <2>3. load'[r] = l /\ \A s \in Requests : s # r => load'[s] = load[s]
    BY <2>2
  <2>4. QED BY <2>1, <2>3
<1>7. QueuesAgree'
  BY <1>2, QueuesFrame DEF engineVars
<1>8. ScheduleStages'
  BY <1>2 DEF ScheduleStages, cacheVars
<1>9. UNCHANGED <<cfg, req, table, key, loading, held, finished_recving_kv_req_ids>>
      /\ loading \subseteq Requests
  BY <1>2 DEF engineVars, cacheVars, recvVars, TypeOK
<1>10. ASSUME NEW s \in loading, NEW i \in DOMAIN load'[s]
       PROVE  i \in DOMAIN load[s] /\ load'[s][i] = load[s][i]
  BY <1>6, <1>9
<1>11. LoadsWriteOwnBlocks'
  <2>1. ASSUME NEW s \in Requests PROVE Held(s)' = Held(s)
    BY <1>9 DEF Held
  <2>2. QED BY <1>9, <1>10, <2>1 DEF LoadsWriteOwnBlocks
<1>12. LoadsUnderWay'
  <2>1. \A s \in Requests \ loading' : load'[s] = <<>>
    BY <1>3, <1>6, <1>9 DEF LoadsUnderWay
  <2>2. \A s \in loading : \A i \in DOMAIN load'[s] :
           /\ i \in DOMAIN table[s] /\ load'[s][i] = table[s][i]
           /\ (i - 1) * BlockSize < PromptLen[s]
    BY <1>10 DEF LoadsUnderWay
  <2>3. QED BY <1>5, <1>9, <2>1, <2>2 DEF LoadsUnderWay
<1>13. InvalidBlocksUnshared'
  <2> SUFFICES ASSUME cfg.async
               PROVE  /\ \A s \in Requests : sch'.sync[s] = {}
                      /\ \A b \in report'.invalid : \A s, u \in Requests :
                            b \in Held(s)' /\ b \in Held(u)' => s = u
    BY <1>9 DEF InvalidBlocksUnshared
  <2>1. \A s \in Requests : Held(s)' = Held(s)
    BY <1>9 DEF Held
  <2>2. \A i \in bad : \A s \in Requests : load[r][i] \in Held(s) => s = r
    BY <1>1, <1>3 DEF LoadsWriteOwnBlocks
  <2>3. QED BY <1>2, <1>5, <2>1, <2>2 DEF InvalidBlocksUnshared
<1>14. QED
  BY <1>4, <1>7, <1>8, <1>9, <1>11, <1>12, <1>13, WorkFrame

LEMMA InvOfLoadEnds == \A r \in Requests : TransferInv /\ LoadEnds(r) => TransferInv'
<1> SUFFICES ASSUME NEW r \in Requests, TransferInv, LoadEnds(r) PROVE TransferInv'
  OBVIOUS
<1> USE DEF TransferInv
<1>1. /\ phase = "execute" /\ r \in loading /\ loading' = loading \ {r}
      /\ load' = [load EXCEPT ![r] = <<>>]
      /\ report' = [report EXCEPT !.recving = @ \cup {r}]
      /\ UNCHANGED <<cfg, engineVars, table, key, phase, sch, recvVars, held, failures>>
  BY DEF LoadEnds
<1>2. TypeOK'
  BY TypeOfLoadEnds
<1>3. /\ report'.invalid = report.invalid /\ report'.sending = report.sending
      /\ report'.recving = report.recving \cup {r}
  BY <1>1 DEF TypeOK
<1>4. load'[r] = <<>> /\ \A s \in Requests : s # r => load'[s] = load[s]
  <2>1. load = [s \in Requests |-> load[s]]
    BY DEF TypeOK
  <2>2. QED BY <1>1, <2>1
<1>5. QueuesAgree'
  BY <1>1, QueuesFrame DEF engineVars
<1>6. ScheduleStages'
  BY <1>1 DEF ScheduleStages
<1>7. UNCHANGED <<cfg, req, table, key, held, finished_recving_kv_req_ids>>
      /\ loading \subseteq Requests
  BY <1>1 DEF engineVars, recvVars, TypeOK
<1>8. LoadsWriteOwnBlocks'
  <2>1. \A s \in loading' : s \in loading /\ load'[s] = load[s]
    BY <1>1, <1>4, <1>7
  <2>2. \A s \in Requests : Held(s)' = Held(s)
    BY <1>7 DEF Held
  <2>3. QED BY <1>7, <2>1, <2>2 DEF LoadsWriteOwnBlocks
<1>9. LoadsUnderWay'
  <2>1. req[r].status \in {"WAITING_FOR_REMOTE_KVS", "FINISHED"}
    BY <1>1 DEF LoadsUnderWay
  <2>2. \A s \in loading' : s \in loading /\ s # r /\ load'[s] = load[s]
    BY <1>1, <1>4, <1>7
  <2>3. \A s \in Requests \ loading' : load'[s] = <<>>
    BY <1>1, <1>4 DEF LoadsUnderWay
  <2>4. QED BY <1>3, <1>7, <2>1, <2>2, <2>3 DEF LoadsUnderWay
<1>10. InvalidBlocksUnshared'
  BY <1>1, <1>3, SharingFrame
<1>11. QED
  BY <1>2, <1>5, <1>6, <1>7, <1>8, <1>9, <1>10, WorkFrame

LEMMA InvOfSendEnds == \A r \in Requests : TransferInv /\ SendEnds(r) => TransferInv'
<1> SUFFICES ASSUME NEW r \in Requests, TransferInv, SendEnds(r) PROVE TransferInv'
  OBVIOUS
<1> USE DEF TransferInv
<1>1. /\ phase = "execute" /\ r \in held /\ r \notin loading
      /\ report' = [report EXCEPT !.sending = @ \cup {r}]
      /\ UNCHANGED <<cfg, engineVars, cacheVars, phase, sch, recvVars, loading, load, held,
                     failures>>
  BY DEF SendEnds
<1>2. TypeOK'
  BY TypeOfSendEnds
<1>3. /\ report'.invalid = report.invalid /\ report'.sending = report.sending \cup {r}
      /\ report'.recving = report.recving
  BY <1>1 DEF TypeOK
<1>5. QueuesAgree'
  BY <1>1, QueuesFrame DEF engineVars
<1>6. ScheduleStages'
  BY <1>1 DEF ScheduleStages, cacheVars
<1>7. UNCHANGED <<cfg, req, table, key, held, loading, load, finished_recving_kv_req_ids>>
  BY <1>1 DEF engineVars, recvVars, cacheVars
<1>8. LoadsWriteOwnBlocks'
  BY <1>7 DEF LoadsWriteOwnBlocks, Held
<1>9. LoadsUnderWay'
  BY <1>1, <1>3, <1>7 DEF LoadsUnderWay
<1>10. InvalidBlocksUnshared'
  BY <1>1, <1>3, <1>7, SharingFrame
<1>11. QED
  BY <1>2, <1>5, <1>6, <1>7, <1>8, <1>9, <1>10, WorkFrame

\* Whatever blocks are invalid, a request that waits for its load keeps a token to compute.
LEMMA InvOfHandleInvalidBlocks == TransferInv /\ HandleInvalidBlocks => TransferInv'
<1> SUFFICES ASSUME TransferInv, HandleInvalidBlocks PROVE TransferInv'
  OBVIOUS
<1> USE DEF TransferInv
<1>1. PICK count \in [Requests -> Int], pending, failing \in SUBSET Requests :
             /\ req' = [r \in Requests |-> [req[r] EXCEPT !.computed = count[r]]]
             /\ sch' = [sch EXCEPT !.pending = pending, !.failing = failing]
             /\ \A r \in Requests :
                  \/ count[r] = req[r].computed
                  \/ req[r].status = "RUNNING"
                  \/ /\ req[r].status = "WAITING_FOR_REMOTE_KVS"
                     /\ \E i \in 1 .. Len(table[r]) :
                          /\ table[r][i] \in report.invalid
                          /\ \/ count[r] = (i - 1) * BlockSize
                             \/ \E s \in Requests \ {r} : table[r][i] \in Held(s)
  BY HandleFacts
<1>2. /\ phase = "invalid" /\ phase' = "answers"
      /\ UNCHANGED <<cfg, waiting, running, table, filled, finished_recving_kv_req_ids,
                     workerVars>>
  BY DEF HandleInvalidBlocks
<1>3. TypeOK'
  BY TypeOfHandleInvalidBlocks
<1>4. \A r \in Requests : /\ req'[r].status = req[r].status /\ req'[r].tokens = req[r].tokens
                          /\ req'[r].computed = count[r]
  <2>1. \A r \in Requests : req[r] \in RequestType
    BY DEF TypeOK, RequestType
  <2>2. QED BY <1>1, <2>1 DEF RequestType
<1>5. sch'.skipped = sch.skipped /\ sch'.sync = sch.sync
  BY <1>1 DEF TypeOK
<1>6. QueuesAgree'
  BY <1>2, <1>4, <1>5, QueueFacts DEF QueuesAgree
<1>7. ScheduleStages'
  BY <1>2, <1>5 DEF ScheduleStages
<1>8. /\ UNCHANGED <<cfg, table, loading, load, held, report, finished_recving_kv_req_ids>>
      /\ loading \subseteq Requests /\ held \subseteq Requests
      /\ finished_recving_kv_req_ids \cup report.recving \subseteq Requests
  BY <1>2 DEF workerVars, TypeOK
<1>9. LoadsWriteOwnBlocks'
  <2>1. \A b \in Blocks : key'[b] = NoKey \/ key'[b] = key[b]
    BY DEF HandleInvalidBlocks
  <2>2. \A s \in Requests : Held(s)' = Held(s)
    BY <1>8 DEF Held
  <2> SUFFICES ASSUME NEW s \in loading, NEW i \in DOMAIN load[s]
               PROVE  /\ load[s][i] \in Held(s)' /\ key'[load[s][i]] = NoKey
                      /\ \A u \in Requests \ {s} : load[s][i] \notin Held(u)'
    BY <1>8 DEF LoadsWriteOwnBlocks
  <2>3. s \in Requests /\ load[s][i] \in Blocks
    BY <1>8, LoadBlocks
  <2>4. QED BY <2>1, <2>2, <2>3 DEF LoadsWriteOwnBlocks
<1>10. LoadsUnderWay'
  BY <1>4, <1>8 DEF LoadsUnderWay
<1>11. InvalidBlocksUnshared'
  BY <1>5, <1>8, SharingFrame
<1>12. ASSUME NEW r \in Requests, req[r].status = "WAITING_FOR_REMOTE_KVS"
       PROVE  count[r] < req[r].tokens /\ count[r] <= Len(table[r]) * BlockSize
  <2> DEFINE l == Len(table[r])
  <2>1. /\ req[r].computed < req[r].tokens /\ req[r].computed <= l * BlockSize
        /\ (l - 1) * BlockSize < req[r].tokens
    BY <1>12 DEF RemoteHasWork
  <2>2. CASE count[r] = req[r].computed
    BY <2>1, <2>2
  <2>3. CASE \E i \in 1 .. l : /\ table[r][i] \in report.invalid
                               /\ \/ count[r] = (i - 1) * BlockSize
                                  \/ \E s \in Requests \ {r} : table[r][i] \in Held(s)
    <3>1. PICK i \in 1 .. l : /\ table[r][i] \in report.invalid
                              /\ \/ count[r] = (i - 1) * BlockSize
                                 \/ \E s \in Requests \ {r} : table[r][i] \in Held(s)
      BY <2>3
    <3>2. table[r][i] \in Held(r) /\ cfg.async
      BY <1>12, StateTypes DEF LoadsUnderWay, Held
    <3>3. count[r] = (i - 1) * BlockSize
      BY <3>1, <3>2 DEF InvalidBlocksUnshared
    <3>4. BlockSize \in Nat /\ BlockSize > 0 /\ l \in Nat /\ req[r].tokens \in Nat
      BY ConstantTypes, StateTypes
    <3> HIDE DEF l
    <3> DEFINE a == i - 1
               c == l - 1
    <3>5. a \in Int /\ c \in Int /\ ~(c < a) /\ ~(l < a)
      BY <3>4
    <3> HIDE DEF a, c
    <3>6. ~(c * BlockSize < a * BlockSize) /\ ~(l * BlockSize < a * BlockSize)
      BY <3>4, <3>5, Monotone
    <3>7. a * BlockSize \in Int /\ c * BlockSize \in Int /\ l * BlockSize \in Int
      BY <3>4, <3>5
    <3>8. c * BlockSize < req[r].tokens
      BY <2>1 DEF c
    <3>9. count[r] = a * BlockSize
      BY <3>3 DEF a
    <3> DEFINE x == a * BlockSize
               y == c * BlockSize
               z == l * BlockSize
    <3>10. x \in Int /\ y \in Int /\ z \in Int /\ x <= y /\ x <= z /\ y < req[r].tokens
           /\ count[r] = x
      BY <3>6, <3>7, <3>8, <3>9
    <3> HIDE DEF x, y, z
    <3>11. count[r] < req[r].tokens /\ count[r] <= z
      BY <3>4, <3>10
    <3>12. QED BY <3>11 DEF z, l
  <2>4. req[r].status # "RUNNING"
    BY <1>12
  <2>5. QED BY <1>1, <2>2, <2>3, <2>4
<1>13. RemoteHasWork' /\ WaitingHasWork'
  <2>1. \A r \in Requests : req[r].status \notin {"RUNNING", "WAITING_FOR_REMOTE_KVS"} =>
           count[r] = req[r].computed
    BY <1>1
  <2>2. RemoteHasWork'
    BY <1>4, <1>8, <1>12, <2>1 DEF RemoteHasWork
  <2>3. WaitingHasWork'
    BY <1>4, <1>8, <2>1 DEF WaitingHasWork
  <2>4. QED BY <2>2, <2>3
<1>14. QED BY <1>3, <1>6, <1>7, <1>9, <1>10, <1>11, <1>13

\* Requests that finish and leave the queues take nothing from a load under way: its
\* request keeps its blocks.
LEMMA FinishingKeeps ==
    ASSUME TransferInv, NEW some \in SUBSET Requests, NEW keeps \in SUBSET some,
           some \cap loading \subseteq keeps,
           UNCHANGED <<cfg, key, loading, load>>,
           \A r \in Requests : req'[r].status = IF r \in some THEN "FINISHED" ELSE req[r].status,
           held' = (held \cup keeps) \ report.sending,
           \A r \in Requests : table'[r] = IF r \in (some \ keeps) \cup report.sending THEN <<>>
                                           ELSE table[r],
           finished_recving_kv_req_ids' = finished_recving_kv_req_ids \cup report.recving,
           report'.recving = {}, report'.sending = {}
    PROVE  LoadsUnderWay' /\ LoadsWriteOwnBlocks'
<1> USE DEF TransferInv
<1>1. /\ loading \subseteq Requests /\ held \subseteq Requests
      /\ finished_recving_kv_req_ids \cup report.recving \subseteq Requests
  BY DEF TypeOK
<1>2. ASSUME NEW s \in loading
      PROVE  s \in Requests /\ table'[s] = table[s] /\ (s \in some => s \in held')
  <2>1. s \notin report.sending /\ s \in Requests
    BY <1>1 DEF LoadsUnderWay
  <2>2. QED BY <2>1
<1>3. LoadsWriteOwnBlocks'
  <2>1. \A s \in Requests : Held(s)' \subseteq Held(s)
    <3> TAKE s \in Requests
    <3>1. table'[s] = <<>> \/ table'[s] = table[s]
      OBVIOUS
    <3>2. DOMAIN <<>> = {}
      OBVIOUS
    <3>3. QED BY <3>1, <3>2 DEF Held
  <2>2. \A s \in loading : Held(s)' = Held(s)
    BY <1>2 DEF Held
  <2>3. QED BY <1>1, <2>1, <2>2 DEF LoadsWriteOwnBlocks
<1>4. LoadsUnderWay'
  <2>1. ASSUME NEW s \in loading'
        PROVE  /\ cfg'.async
               /\ \/ req'[s].status = "WAITING_FOR_REMOTE_KVS"
                  \/ req'[s].status = "FINISHED" /\ s \in held'
               /\ s \notin finished_recving_kv_req_ids' \cup report'.recving \cup report'.sending
               /\ \A i \in DOMAIN load'[s] :
                     /\ i \in DOMAIN table'[s] /\ load'[s][i] = table'[s][i]
                     /\ (i - 1) * BlockSize < PromptLen[s]
    <3>1. s \in loading /\ s \in Requests /\ table'[s] = table[s] /\ (s \in some => s \in held')
      BY <1>2
    <3>2. s \notin report.sending
      BY <3>1 DEF LoadsUnderWay
    <3>3. \/ req'[s].status = "WAITING_FOR_REMOTE_KVS"
          \/ req'[s].status = "FINISHED" /\ s \in held'
      <4>1. CASE s \in some
        BY <3>1, <4>1
      <4>2. CASE s \notin some
        BY <3>1, <3>2, <4>2 DEF LoadsUnderWay
      <4>3. QED BY <4>1, <4>2
    <3>4. QED BY <3>1, <3>3 DEF LoadsUnderWay
  <2>2. \A s \in Requests : req'[s].status = "WAITING_FOR_REMOTE_KVS" => cfg'.async
    BY DEF LoadsUnderWay
  <2>3. \A s \in Requests \ loading' : load'[s] = <<>>
    BY DEF LoadsUnderWay
  <2>4. \A s \in finished_recving_kv_req_ids' \cup report'.recving :
          req'[s].status \in {"WAITING_FOR_REMOTE_KVS", "FINISHED"}
    BY <1>1 DEF LoadsUnderWay
  <2>5. report'.sending \subseteq held' /\ \A s \in held' : req'[s].status = "FINISHED"
    BY <1>1 DEF LoadsUnderWay
  <2>6. QED BY <2>1, <2>2, <2>3, <2>4, <2>5 DEF LoadsUnderWay
<1>5. QED BY <1>3, <1>4

\* The same for requests freed while nothing else is reported.
LEMMA FreeingKeeps ==
    ASSUME TransferInv, NEW some \in SUBSET Requests, FreeRequests(some),
           UNCHANGED <<cfg, key, loading, load, report, finished_recving_kv_req_ids>>,
           \A r \in Requests : req'[r].status = IF r \in some THEN "FINISHED" ELSE req[r].status
    PROVE  LoadsUnderWay' /\ LoadsWriteOwnBlocks'
<1> USE DEF TransferInv
<1>1. PICK keeps \in SUBSET some :
                 /\ held' = held \cup keeps /\ some \cap loading \subseteq keeps
                 /\ \A r \in Requests :
                       table'[r] = IF r \in some \ keeps THEN <<>> ELSE table[r]
  BY FreeFacts
<1>2. /\ loading \subseteq Requests /\ held \subseteq Requests
      /\ finished_recving_kv_req_ids \cup report.recving \subseteq Requests
  BY DEF TypeOK
<1>3. \A s \in Requests : Held(s)' \subseteq Held(s)
  <2> TAKE s \in Requests
  <2>1. table'[s] = <<>> \/ table'[s] = table[s]
    BY <1>1
  <2>2. DOMAIN <<>> = {}
    OBVIOUS
  <2>3. QED BY <2>1, <2>2 DEF Held
<1>4. \A s \in loading : s \in Requests /\ table'[s] = table[s] /\ (s \in some => s \in held')
  BY <1>1, <1>2
<1>5. LoadsWriteOwnBlocks'
  <2>1. \A s \in loading : Held(s)' = Held(s)
    BY <1>4 DEF Held
  <2>2. QED BY <1>2, <1>3, <2>1 DEF LoadsWriteOwnBlocks
<1>6. LoadsUnderWay'
  <2>1. ASSUME NEW s \in loading
        PROVE  \/ req'[s].status = "WAITING_FOR_REMOTE_KVS"
               \/ req'[s].status = "FINISHED" /\ s \in held'
    <3>1. CASE s \in some
      BY <1>4, <3>1
    <3>2. CASE s \notin some
      BY <1>1, <1>4, <3>2 DEF LoadsUnderWay
    <3>3. QED BY <3>1, <3>2
  <2>2. \A s \in Requests : req'[s].status = "WAITING_FOR_REMOTE_KVS" => cfg'.async
    BY DEF LoadsUnderWay
  <2>3. \A s \in finished_recving_kv_req_ids' \cup report'.recving :
          req'[s].status \in {"WAITING_FOR_REMOTE_KVS", "FINISHED"}
    BY <1>2 DEF LoadsUnderWay
  <2>4. report'.sending \subseteq held' /\ \A s \in held' : req'[s].status = "FINISHED"
    BY <1>1, <1>2 DEF LoadsUnderWay
  <2>5. QED BY <1>4, <2>1, <2>2, <2>3, <2>4 DEF LoadsUnderWay
<1>7. QED BY <1>5, <1>6

\* An answer finishes its request only if all its tokens were computed, so no request
\* that waits.
LEMMA InvOfAnswer == \A r \in Requests : TransferInv /\ Answer(r) => TransferInv'
<1> SUFFICES ASSUME NEW r \in Requests, TransferInv, Answer(r) PROVE TransferInv'
  OBVIOUS
<1> USE DEF TransferInv
<1> DEFINE samples == req[r].computed = req[r].tokens
           ends == samples /\ req[r].tokens + 1 - PromptLen[r] = MaxTokens[r]
           some == IF ends THEN {r} ELSE {}
<1>1. /\ \E p \in BOOLEAN :
              req' = [req EXCEPT
                ![r] = [req[r] EXCEPT
                  !.tokens = IF samples THEN req[r].tokens + 1 ELSE req[r].tokens,
                  !.wrong = p,
                  !.status = IF ends THEN "FINISHED" ELSE req[r].status]]
      /\ running' = IF ends THEN Without(running, r) ELSE running
      /\ FreeRequests(some)
  BY AnswerFacts
<1>2. /\ phase = "answers" /\ sch' = [sch EXCEPT !.pending = @ \ {r}]
      /\ UNCHANGED <<cfg, waiting, key, filled, phase, recvVars, loading, load, report, failures>>
  BY DEF Answer
<1>3. some \in SUBSET Requests /\ (ends => samples)
  OBVIOUS
<1> HIDE DEF ends
<1>4. TypeOK'
  BY TypeOfAnswer
<1>5. /\ \A s \in Requests : s # r => req'[s] = req[s]
      /\ req'[r].status = IF ends THEN "FINISHED" ELSE req[r].status
      /\ req'[r].computed = req[r].computed
      /\ ~samples => req'[r].tokens = req[r].tokens
  <2>1. req \in [Requests -> RequestType]
    BY DEF TypeOK, RequestType
  <2>2. QED BY <1>1, <2>1 DEF RequestType
<1>6. \A s \in Requests : req'[s].status = IF s \in some THEN "FINISHED" ELSE req[s].status
  BY <1>5
<1>7. LoadsUnderWay' /\ LoadsWriteOwnBlocks'
  <2>1. UNCHANGED <<cfg, key, loading, load, report, finished_recving_kv_req_ids>>
    BY <1>2 DEF recvVars
  <2> HIDE DEF some
  <2>2. QED BY <1>1, <1>3, <1>6, <2>1, FreeingKeeps
<1>8. sch'.skipped = sch.skipped /\ sch'.sync = sch.sync
  BY <1>2 DEF TypeOK
<1>9. req[r].status \in {"NONE", "WAITING", "WAITING_FOR_REMOTE_KVS", "PREEMPTED"} => ~samples
  BY StateTypes DEF RemoteHasWork, WaitingHasWork
<1>10. QueuesAgree'
  <2>1. /\ NoDuplicates(running') /\ ToSet(running') = ToSet(running) \ some
    <3>1. running \in Seq(Requests) /\ NoDuplicates(running)
      BY DEF TypeOK, QueuesAgree
    <3>2. QED BY <1>1, <3>1, WithoutElements
  <2>2. \A s \in ToSet(running') : req'[s].status = "RUNNING"
    BY <1>6, <2>1, QueueFacts DEF QueuesAgree
  <2>3. \A s \in ToSet(sch.skipped) \cup ToSet(waiting) :
           req'[s].status \in {"WAITING", "WAITING_FOR_REMOTE_KVS", "PREEMPTED"}
    <3> SUFFICES ASSUME NEW s \in ToSet(sch.skipped) \cup ToSet(waiting)
                 PROVE  req'[s].status \in {"WAITING", "WAITING_FOR_REMOTE_KVS", "PREEMPTED"}
      OBVIOUS
    <3>1. s \in Requests /\ req[s].status \in {"WAITING", "WAITING_FOR_REMOTE_KVS", "PREEMPTED"}
      BY QueueFacts DEF QueuesAgree
    <3>2. s \notin some
      BY <1>3, <1>9, <3>1
    <3>3. QED BY <1>6, <3>1, <3>2
  <2>4. QED BY <1>2, <1>8, <2>1, <2>2, <2>3 DEF QueuesAgree
<1>11. ScheduleStages'
  BY <1>2, <1>8 DEF ScheduleStages
<1>12. PICK keeps \in SUBSET some :
           \A s \in Requests : table'[s] = IF s \in some \ keeps THEN <<>> ELSE table[s]
  <2>1. TypeOK /\ some \in SUBSET Requests /\ FreeRequests(some)
    BY <1>1, <1>3
  <2> HIDE DEF some, TransferInv
  <2>2. \E keeps \in SUBSET some :
           /\ held' = held \cup keeps /\ some \cap loading \subseteq keeps
           /\ \A s \in Requests : table'[s] = IF s \in some \ keeps THEN <<>> ELSE table[s]
    BY ONLY <2>1, FreeFacts
  <2>3. QED BY ONLY <2>2
<1>13. InvalidBlocksUnshared'
  <2>1. \A s \in Requests : Held(s)' \subseteq Held(s)
    <3> TAKE s \in Requests
    <3>1. table'[s] = <<>> \/ table'[s] = table[s]
      BY <1>12
    <3>2. DOMAIN <<>> = {}
      OBVIOUS
    <3>3. QED BY <3>1, <3>2 DEF Held
  <2>2. QED BY <1>2, <1>8, <2>1 DEF InvalidBlocksUnshared
<1>14. RemoteHasWork' /\ WaitingHasWork'
  <2>1. ASSUME NEW s \in Requests, req'[s].status \in {"NONE", "WAITING", "WAITING_FOR_REMOTE_KVS",
                                                       "PREEMPTED"}
        PROVE  /\ req'[s].status = req[s].status /\ req'[s].computed = req[s].computed
               /\ req'[s].tokens = req[s].tokens /\ table'[s] = table[s]
    <3>1. s \notin some
      BY <1>6, <2>1
    <3>2. req'[s].status = req[s].status /\ table'[s] = table[s]
      BY <1>6, <1>12, <3>1
    <3>3. s = r => ~samples
      BY <1>9, <2>1, <3>2
    <3>4. QED BY <1>5, <3>2, <3>3
  <2>2. RemoteHasWork'
    BY <2>1 DEF RemoteHasWork
  <2>3. WaitingHasWork'
    BY <2>1 DEF WaitingHasWork
  <2>4. QED BY <2>2, <2>3
<1>15. QED BY <1>4, <1>7, <1>10, <1>11, <1>13, <1>14

\* The failing requests end, and the queues forget them.
LEMMA InvOfEndUpdate == TransferInv /\ EndUpdate => TransferInv'
<1> SUFFICES ASSUME TransferInv, EndUpdate PROVE TransferInv'
  OBVIOUS
<1> USE DEF TransferInv
<1> DEFINE some == sch.failing
<1>1. /\ phase = "answers" /\ phase' = "engine" /\ sch' = NoSchedule
      /\ req' = [r \in Requests |->
                 IF r \in some THEN [req[r] EXCEPT !.status = "FINISHED"] ELSE req[r]]
      /\ running' = Only(running, Requests \ some)
      /\ waiting' = Only(waiting, Requests \ some)
      /\ finished_recving_kv_req_ids' = finished_recving_kv_req_ids \cup report.recving
      /\ report' = [invalid |-> {}, recving |-> {}, sending |-> {}]
      /\ UNCHANGED <<cfg, key, filled, failed_recving_kv_req_ids, loading, load, failures>>
  BY DEF EndUpdate
<1>2. PICK keeps \in SUBSET some :
         /\ \A r \in some : (r \in keeps) \in MayDelay(r)
         /\ held' = (held \cup keeps) \ report.sending
         /\ table' = [r \in Requests |->
              IF r \in (some \ keeps) \cup report.sending THEN <<>> ELSE table[r]]
  BY DEF EndUpdate
<1>3. some \in SUBSET Requests
  BY DEF TypeOK
<1>4. some \cap loading \subseteq keeps
  BY <1>2 DEF MayDelay
<1> HIDE DEF some
<1>5. TypeOK'
  BY TypeOfEndUpdate
<1>6. /\ \A r \in Requests : req'[r].status = IF r \in some THEN "FINISHED" ELSE req[r].status
      /\ \A r \in Requests : r \notin some => req'[r] = req[r]
  <2>1. \A r \in Requests : req[r] \in RequestType
    BY DEF TypeOK, RequestType
  <2>2. QED BY <1>1, <2>1 DEF RequestType
<1>7. report'.invalid = {} /\ report'.recving = {} /\ report'.sending = {}
  BY <1>1
<1>8. LoadsUnderWay' /\ LoadsWriteOwnBlocks'
  <2>1. \A r \in Requests : table'[r] = IF r \in (some \ keeps) \cup report.sending THEN <<>>
                                        ELSE table[r]
    BY <1>2
  <2>2. QED BY <1>1, <1>2, <1>3, <1>4, <1>6, <1>7, <2>1, FinishingKeeps
<1>9. QueuesAgree'
  <2>1. running \in Seq(Requests) /\ waiting \in Seq(Requests)
    BY DEF TypeOK
  <2>2. /\ ToSet(running') = ToSet(running) \cap (Requests \ some)
        /\ NoDuplicates(running) => NoDuplicates(running')
        /\ ToSet(waiting') = ToSet(waiting) \cap (Requests \ some)
        /\ NoDuplicates(waiting) => NoDuplicates(waiting')
        /\ waiting' \in Seq(Requests)
    BY <1>1, <2>1, OnlyElements
  <2>3. sch'.skipped = <<>> /\ ToSet(<<>>) = {} /\ <<>> \o waiting' = waiting'
    BY <1>1, <2>2 DEF NoSchedule, ToSet
  <2>4. NoDuplicates(running) /\ NoDuplicates(waiting)
    BY QueueFacts
  <2>5. QED BY <1>6, <2>2, <2>3, <2>4 DEF QueuesAgree
<1>10. ScheduleStages'
  BY <1>1, <1>7 DEF ScheduleStages, NoSchedule
<1>11. InvalidBlocksUnshared'
  BY <1>1, <1>7 DEF InvalidBlocksUnshared, NoSchedule
<1>12. RemoteHasWork' /\ WaitingHasWork'
  <2>1. ASSUME NEW s \in Requests, req'[s].status # "FINISHED"
        PROVE  req'[s] = req[s] /\ table'[s] = table[s]
    <3>1. s \notin some /\ req'[s] = req[s]
      BY <1>6, <2>1
    <3>2. s \notin report.sending
      BY <2>1, <3>1 DEF LoadsUnderWay
    <3>3. QED BY <1>2, <3>1, <3>2
  <2>2. RemoteHasWork'
    BY <2>1 DEF RemoteHasWork
  <2>3. WaitingHasWork'
    BY <2>1 DEF WaitingHasWork
  <2>4. QED BY <2>2, <2>3
<1>13. QED BY <1>5, <1>8, <1>9, <1>10, <1>11, <1>12

LEMMA InvOfAbort == \A r \in Requests : TransferInv /\ Abort(r) => TransferInv'
<1> SUFFICES ASSUME NEW r \in Requests, TransferInv, Abort(r) PROVE TransferInv'
  OBVIOUS
<1> USE DEF TransferInv
<1>1. /\ phase = "engine" /\ req' = [req EXCEPT ![r].status = "FINISHED"]
      /\ waiting' = Without(waiting, r) /\ running' = Without(running, r)
      /\ FreeRequests({r})
      /\ UNCHANGED <<cfg, key, filled, phase, sch, recvVars, loading, load, report, failures>>
  BY DEF Abort
<1>2. TypeOK'
  BY TypeOfAbort
<1>3. /\ \A s \in Requests : s # r => req'[s] = req[s]
      /\ req'[r].status = "FINISHED"
  <2>1. req \in [Requests -> RequestType]
    BY DEF TypeOK, RequestType
  <2>2. QED BY <1>1, <2>1 DEF RequestType
<1>4. \A s \in Requests : req'[s].status = IF s \in {r} THEN "FINISHED" ELSE req[s].status
  BY <1>3
<1>5. LoadsUnderWay' /\ LoadsWriteOwnBlocks'
  <2>1. UNCHANGED <<cfg, key, loading, load, report, finished_recving_kv_req_ids>>
    BY <1>1 DEF recvVars
  <2>2. {r} \in SUBSET Requests
    OBVIOUS
  <2>3. QED BY <1>1, <1>4, <2>1, <2>2, FreeingKeeps
<1>6. QueuesAgree'
  <2>1. running \in Seq(Requests) /\ waiting \in Seq(Requests)
    BY DEF TypeOK
  <2>2. NoDuplicates(running) /\ NoDuplicates(waiting)
    BY QueueFacts
  <2>3. /\ ToSet(running') = ToSet(running) \ {r} /\ NoDuplicates(running')
        /\ ToSet(waiting') = ToSet(waiting) \ {r} /\ NoDuplicates(waiting')
        /\ waiting' \in Seq(Requests)
    BY <1>1, <2>1, <2>2, WithoutElements
  <2>4. sch'.skipped = <<>> /\ sch.skipped = <<>> /\ ToSet(<<>>) = {} /\ <<>> \o waiting' = waiting'
    BY <1>1, <2>3 DEF ScheduleStages, ToSet
  <2>5. ToSet(running) \subseteq Requests /\ ToSet(waiting) \subseteq Requests
    BY QueueFacts
  <2>6. QED BY <1>3, <2>3, <2>4, <2>5 DEF QueuesAgree
<1>7. ScheduleStages'
  BY <1>1 DEF ScheduleStages, NoSchedule
<1>8. PICK keeps \in SUBSET {r} :
           \A s \in Requests : table'[s] = IF s \in {r} \ keeps THEN <<>> ELSE table[s]
  <2> DEFINE one == {r}
  <2>1. TypeOK /\ one \in SUBSET Requests /\ FreeRequests(one)
    BY <1>1
  <2> HIDE DEF one, TransferInv
  <2>2. \E keeps \in SUBSET one :
           /\ held' = held \cup keeps /\ one \cap loading \subseteq keeps
           /\ \A s \in Requests : table'[s] = IF s \in one \ keeps THEN <<>> ELSE table[s]
    BY ONLY <2>1, FreeFacts
  <2>3. QED BY ONLY <2>2 DEF one
<1>9. InvalidBlocksUnshared'
  BY <1>1 DEF InvalidBlocksUnshared, ScheduleStages
<1>10. RemoteHasWork' /\ WaitingHasWork'
  <2>1. ASSUME NEW s \in Requests, req'[s].status # "FINISHED"
        PROVE  req'[s] = req[s] /\ table'[s] = table[s]
    BY <1>3, <1>8, <2>1
  <2>2. RemoteHasWork'
    BY <2>1 DEF RemoteHasWork
  <2>3. WaitingHasWork'
    BY <2>1 DEF WaitingHasWork
  <2>4. QED BY <2>2, <2>3
<1>11. QED BY <1>2, <1>5, <1>6, <1>7, <1>9, <1>10

--------------------------------------------------------------------------------
(* The theorems *)

LEMMA InvOfNext == TransferInv /\ [Next]_vars => TransferInv'
<1> SUFFICES ASSUME TransferInv, [Next]_vars PROVE TransferInv'
  OBVIOUS
<1>1. CASE EngineStep
  BY <1>1, InvOfBeginSchedule, InvOfRunningSchedule, InvOfRunningPreempt, InvOfRunningDone,
     InvOfRemoteReady, InvOfRemoteSkip, InvOfConnectorUndecided, InvOfWaitingLoad,
     InvOfWaitingAdmit, InvOfWaitingBlocked, InvOfWaitingDone, InvOfEndSchedule,
     InvOfExecute, InvOfHandleInvalidBlocks, InvOfAnswer, InvOfEndUpdate
  DEF EngineStep
<1>2. CASE WorkerStep
  BY <1>2, InvOfLoadFails, InvOfLoadEnds, InvOfSendEnds DEF WorkerStep
<1>3. CASE ClientStep
  BY <1>3, InvOfAddRequest, InvOfAbort DEF ClientStep
<1>4. CASE UNCHANGED vars
  <2>1. /\ UNCHANGED <<cfg, req, waiting, running, table, key, filled, phase, sch>>
        /\ UNCHANGED <<finished_recving_kv_req_ids, failed_recving_kv_req_ids>>
        /\ UNCHANGED <<loading, load, held, report, failures>>
    BY <1>4 DEF vars, engineVars, cacheVars, recvVars, workerVars
  <2> USE DEF TransferInv
  <2>2. TypeOK'
    BY <2>1 DEF TypeOK, Blocks
  <2>3. QueuesAgree' /\ ScheduleStages'
    BY <2>1 DEF QueuesAgree, ScheduleStages
  <2>4. LoadsUnderWay' /\ LoadsWriteOwnBlocks'
    BY <2>1 DEF LoadsUnderWay, LoadsWriteOwnBlocks, Held
  <2>5. InvalidBlocksUnshared'
    BY <2>1 DEF InvalidBlocksUnshared, Held
  <2>6. RemoteHasWork' /\ WaitingHasWork'
    BY <2>1 DEF RemoteHasWork, WaitingHasWork
  <2>7. QED BY <2>2, <2>3, <2>4, <2>5, <2>6
<1>5. QED BY <1>1, <1>2, <1>3, <1>4 DEF Next

\* The inductive invariant of the KV-transfer side, for every deployment, any number of
\* requests and blocks, and any number of failing loads.
THEOREM TransferInvariant == Spec => []TransferInv
BY InvOfInit, InvOfNext, PTL DEF Spec

\* The blocks a load beside the steps still writes belong to its request alone and are not
\* in the cache, through aborts, failures and preemptions (delay_cache_blocks,
\* _connector_finished).
THEOREM LoadsStayInOwnBlocks == Spec => []LoadsWriteOwnBlocks
<1>1. TransferInv => LoadsWriteOwnBlocks
  BY DEF TransferInv
<1>2. QED BY <1>1, TransferInvariant, PTL

\* The assertion num_new_tokens > 0 of schedule() holds for every waiting request, whatever
\* its load has brought or failed to bring (_update_waiting_for_remote_kv,
\* _update_requests_with_invalid_blocks).
THEOREM WaitingRequestsHaveWork == Spec => []WaitingHasWork
<1>1. TransferInv => WaitingHasWork
  BY DEF TransferInv
<1>2. QED BY <1>1, TransferInvariant, PTL

\* "Async loading does not yet support block sharing": what the comment of
\* _update_requests_with_invalid_blocks assumes is so, a block that a load beside the steps
\* could not write is in one request's table only.
THEOREM AsyncLoadsAreUnshared == Spec => []InvalidBlocksUnshared
<1>1. TransferInv => InvalidBlocksUnshared
  BY DEF TransferInv
<1>2. QED BY <1>1, TransferInvariant, PTL

--------------------------------------------------------------------------------
(* Right entries: the operators *)

\* Different positions have different keys, also those of different requests if no block
\* is common.
LEMMA KeysDiffer ==
    ASSUME NEW r \in Requests, NEW s \in Requests, NEW i \in Nat \ {0}, NEW j \in Nat \ {0},
           cfg \in Configs, Key(r, i) = Key(s, j)
    PROVE  i = j /\ (cfg.shared < BlockSize => r = s)
<1>1. i = j
  BY DEF Key
<1>2. ASSUME cfg.shared < BlockSize, i * BlockSize <= cfg.shared PROVE FALSE
  <2>1. BlockSize \in Nat /\ cfg.shared \in Nat /\ i \in Nat /\ i >= 1
    BY ConstantTypes
  <2>2. ~(i * BlockSize < 1 * BlockSize)
    BY <2>1, ConstantTypes, Monotone
  <2>3. i * BlockSize \in Int /\ 1 * BlockSize = BlockSize
    BY <2>1
  <2>4. QED BY <1>2, <2>1, <2>2, <2>3
<1>3. QED BY <1>1, <1>2 DEF Key

LEMMA LocalHitInjective ==
    ASSUME TypeOK, NEW r \in Requests
    PROVE  IsInjective(LocalHit(r))
<1> DEFINE h == LocalHit(r)
<1>1. /\ h \in Seq(Blocks) /\ Len(h) \in Nat
      /\ \A i \in 1 .. Len(h) : key[h[i]] = Key(r, i)
  BY LocalHitFacts
<1> HIDE DEF h
<1>2. DOMAIN h = 1 .. Len(h)
  BY <1>1
<1>3. ASSUME NEW i \in 1 .. Len(h), NEW j \in 1 .. Len(h), h[i] = h[j] PROVE i = j
  <2>1. Key(r, i) = Key(r, j)
    BY <1>1, <1>3
  <2>2. i \in Nat \ {0} /\ j \in Nat \ {0} /\ cfg \in Configs
    BY <1>1, StateTypes
  <2>3. QED BY <2>1, <2>2, KeysDiffer
<1>4. QED BY <1>2, <1>3 DEF IsInjective, h

\* What an allocation leaves alone, and what it enters in the cache.
LEMMA AllocatedKeep ==
    ASSUME TypeOK, NEW r \in Requests, NEW hit \in Seq(Blocks), NEW total, NEW cached \in Int,
           NEW new, NEW t, Allocated(r, hit, total, cached, new, t),
           AllocatedKeys(r, hit, cached, new, t), IsInjective(hit)
    PROVE  /\ IsInjective(t) /\ DOMAIN t = 1 .. Len(t) /\ Len(t) \in Nat /\ Len(hit) \in Nat
           /\ \A i \in 1 .. Len(t) : t[i] \in Blocks
           /\ table'[r] = t /\ \A s \in Requests : s # r => table'[s] = table[s]
           /\ \A s \in Requests : s # r => Held(s)' = Held(s)
           /\ \A b \in Blocks : b \notin new => filled'[b] = filled[b]
           /\ \A s \in Requests : \A b \in Held(s) : b \notin new
           /\ \A i \in 1 .. Len(hit) : hit[i] \notin new /\ i \in 1 .. Len(t) /\ t[i] = hit[i]
           /\ \A i \in 1 .. Len(t) : i > Len(hit) => t[i] \in new
           /\ \A i \in 1 .. Len(t) : i * BlockSize <= cached => key'[t[i]] = Key(r, i)
           /\ \A i \in 1 .. Len(t) : i * BlockSize > cached =>
                 key'[t[i]] = IF t[i] \in new THEN NoKey ELSE key[t[i]]
           /\ \A b \in Blocks : key'[b] # NoKey =>
                 \/ b \notin new /\ key'[b] = key[b]
                 \/ \E i \in 1 .. Len(t) : t[i] = b /\ i * BlockSize <= cached
           /\ \A b \in Blocks : b \notin new /\ (\A i \in 1 .. Len(t) : t[i] # b) =>
                 key'[b] = key[b]
<1>1. /\ new \subseteq FreeBlocks /\ t \in Seq(Blocks)
      /\ \A i \in 1 .. Len(hit) : i \in 1 .. Len(t) /\ t[i] = hit[i]
      /\ \A i \in 1 .. Len(t) : i > Len(hit) => t[i] \in new
      /\ table' = [table EXCEPT ![r] = t]
      /\ filled' = [b \in Blocks |-> IF b \in new THEN 0 ELSE filled[b]]
      /\ \A b \in Blocks : key'[b] # key[b] => b \in new \/ \E i \in 1 .. Len(t) : t[i] = b
  BY DEF Allocated
<1>2. /\ new \cap Range(hit) = {} /\ IsInjective(t)
      /\ \A b \in Blocks :
          key'[b] = IF \E i \in 1 .. Len(t) : t[i] = b /\ i * BlockSize <= cached
                    THEN Key(r, CHOOSE i \in DOMAIN t : t[i] = b)
                    ELSE IF b \in new THEN NoKey ELSE key[b]
  BY DEF AllocatedKeys
<1>3. table'[r] = t /\ \A s \in Requests : s # r => table'[s] = table[s]
  BY <1>1 DEF TypeOK
<1>4. DOMAIN t = 1 .. Len(t) /\ Len(t) \in Nat /\ Len(hit) \in Nat /\ DOMAIN hit = 1 .. Len(hit)
  BY <1>1
<1>5. \A i \in 1 .. Len(t) : t[i] \in Blocks
  BY <1>1
<1>6. \A i \in 1 .. Len(t) : (CHOOSE j \in DOMAIN t : t[j] = t[i]) = i
  BY <1>2, <1>4 DEF IsInjective
<1>10. \A i \in 1 .. Len(hit) : hit[i] \notin new
  BY <1>2, <1>4 DEF Range
<1>11. \A s \in Requests : \A b \in Held(s) : b \notin new
  BY <1>1 DEF FreeBlocks
<1>12. ASSUME NEW i \in 1 .. Len(t), i * BlockSize <= cached PROVE key'[t[i]] = Key(r, i)
  BY <1>2, <1>5, <1>6, <1>12
<1>13. ASSUME NEW i \in 1 .. Len(t), i * BlockSize > cached
       PROVE  key'[t[i]] = IF t[i] \in new THEN NoKey ELSE key[t[i]]
  <2>1. ~ \E j \in 1 .. Len(t) : t[j] = t[i] /\ j * BlockSize <= cached
    <3>1. i * BlockSize \in Int
      BY <1>4, ConstantTypes
    <3>2. \A j \in 1 .. Len(t) : t[j] = t[i] => j = i
      BY <1>2, <1>4 DEF IsInjective
    <3>3. QED BY <1>13, <3>1, <3>2
  <2>2. QED BY <1>2, <1>5, <2>1
<1>14. ASSUME NEW b \in Blocks, key'[b] # NoKey
       PROVE  \/ b \notin new /\ key'[b] = key[b]
              \/ \E i \in 1 .. Len(t) : t[i] = b /\ i * BlockSize <= cached
  BY <1>2, <1>14
<1>15. ASSUME NEW b \in Blocks, b \notin new, \A i \in 1 .. Len(t) : t[i] # b
       PROVE  key'[b] = key[b]
  BY <1>2, <1>15
<1>16. \A s \in Requests : s # r => Held(s)' = Held(s)
  BY <1>3 DEF Held
<1>17. \A b \in Blocks : b \notin new => filled'[b] = filled[b]
  BY <1>1
<1>18. QED
  BY <1>1, <1>2, <1>3, <1>4, <1>5, <1>10, <1>11, <1>12, <1>13, <1>14, <1>15, <1>16, <1>17

--------------------------------------------------------------------------------
(* Right entries: steps of the scheduler *)

\* Requests outside `some` keep what they have while a step is planned.
LEMMA PlanningEntries ==
    ASSUME TypeOK, RightEntries, NEW some \in SUBSET Requests, cfg' = cfg,
           phase \in Planning \cup {"engine"}, phase' \in Planning \cup {"engine"},
           \A b \in Blocks : Coming(b) => Coming(b)',
           \A s \in Requests \ some :
              /\ table'[s] = table[s] /\ req'[s] = req[s] /\ load'[s] = load[s]
              /\ s \in failed_recving_kv_req_ids => s \in failed_recving_kv_req_ids'
              /\ \A b \in Held(s) : filled'[b] = filled[b],
           \A r \in some : Counted(r)' /\ Loaded(r)' /\ req'[r].wrong = req[r].wrong,
           \A b \in Blocks : Offered(b)'
    PROVE  RightEntries'
<1>1. phase \notin {"execute", "invalid", "answers"} /\ phase' \notin {"execute", "invalid", "answers"}
  BY DEF Planning
<1>2. ASSUME NEW s \in Requests \ some PROVE Counted(s)' /\ Loaded(s)' /\ ~req'[s].wrong
  <2>1. Counted(s) /\ Loaded(s) /\ ~req[s].wrong
    BY DEF RightEntries, NoWrongAnswer
  <2>2. /\ table'[s] = table[s] /\ req'[s] = req[s] /\ load'[s] = load[s]
        /\ s \in failed_recving_kv_req_ids => s \in failed_recving_kv_req_ids'
    OBVIOUS
  <2>3. \A i \in DOMAIN table[s] :
          /\ table[s][i] \in Blocks
          /\ filled'[table[s][i]] = filled[table[s][i]]
          /\ Coming(table[s][i]) => Coming(table[s][i])'
    BY StateTypes DEF Held
  <2>4. Before(s)' = Before(s)
    BY <1>1, <2>2 DEF Before
  <2>5. Counted(s)'
    <3> SUFFICES ASSUME req[s].status \in Counts, NEW i \in DOMAIN table[s]
                 PROVE  Within(Before(s), i) <= filled'[table[s][i]] \/ Coming(table[s][i])'
      BY <2>2, <2>4 DEF Counted, Within
    <3>1. Within(Before(s), i) <= filled[table[s][i]] \/ Coming(table[s][i])
      BY <1>1, <2>1 DEF Counted
    <3>2. QED BY <2>3, <3>1
  <2>6. Loaded(s)'
    <3> SUFFICES ASSUME req[s].status = "WAITING_FOR_REMOTE_KVS"
                 PROVE  Loaded(s)'
      BY <2>2 DEF Loaded
    <3>1. Least(Len(table[s]) * BlockSize, req[s].tokens) <= PromptLen[s]
      BY <2>1 DEF Loaded
    <3>2. ASSUME NEW i \in DOMAIN table[s]
          PROVE  \/ Within(PromptLen[s], i) <= filled'[table[s][i]]
                 \/ Coming(table[s][i])'
                 \/ i \in DOMAIN load[s]
                 \/ s \in failed_recving_kv_req_ids' /\ req[s].computed <= (i - 1) * BlockSize
      <4>1. \/ Within(PromptLen[s], i) <= filled[table[s][i]]
            \/ Coming(table[s][i])
            \/ i \in DOMAIN load[s]
            \/ s \in failed_recving_kv_req_ids /\ req[s].computed <= (i - 1) * BlockSize
        BY <1>1, <2>1 DEF Loaded
      <4>2. QED BY <2>2, <2>3, <4>1
    <3>3. QED BY <2>2, <3>1, <3>2 DEF Loaded, Within
  <2>7. QED BY <2>1, <2>2, <2>5, <2>6
<1>3. \A r \in some : ~req'[r].wrong
  BY DEF RightEntries, NoWrongAnswer
<1>4. (\A r \in Requests : Counted(r) /\ Loaded(r))'
  BY <1>2
<1>5. NoWrongAnswer'
  BY <1>2, <1>3 DEF NoWrongAnswer
<1>6. RightAnswers'
  BY <1>1 DEF RightAnswers
<1>7. (\A b \in Blocks : Offered(b))'
  BY DEF Blocks
<1>8. QED BY <1>4, <1>5, <1>6, <1>7 DEF RightEntries

\* Steps that move on in the plan, or put a request aside, and nothing else.
LEMMA QuietKeeps ==
    ASSUME TransferInv, InOrder, RightEntries,
           UNCHANGED <<cfg, req, running, cacheVars, failed_recving_kv_req_ids, load>>,
           phase \in Planning \cup {"engine"}, phase' \in Planning \cup {"engine"},
           sch'.num = sch.num, sch'.sync = sch.sync,
           phase = "engine" => phase' \in Planning,
           phase' = "engine" => phase = "engine",
           ToSet(sch'.skipped) \cup ToSet(waiting') = ToSet(sch.skipped) \cup ToSet(waiting)
    PROVE  InOrder' /\ RightEntries'
<1> USE DEF TransferInv
<1>1. phase \notin {"execute", "invalid", "answers"} /\ phase' \notin {"execute", "invalid", "answers"}
      /\ phase' \in Planning
  BY DEF Planning
<1>2. /\ req' = req /\ table' = table /\ key' = key /\ filled' = filled /\ running' = running
      /\ load' = load /\ failed_recving_kv_req_ids' = failed_recving_kv_req_ids /\ cfg' = cfg
  BY DEF cacheVars
<1>3. phase = "engine" => \A r \in Requests : sch.num[r] = 0 /\ sch.sync[r] = {}
  BY DEF ScheduleStages, NoSchedule
<1>4. \A r \in Requests : req[r].computed \in Int /\ sch.num[r] \in Int
  BY StateTypes
<1>5. \A r \in Requests : Before(r)' = Before(r) /\ Behind(r)' = Behind(r)
  <2> TAKE r \in Requests
  <2>1. Before(r)' = Before(r)
    BY <1>1, <1>2 DEF Before
  <2>2. Behind(r)' = Behind(r)
    BY <1>1, <1>2, <1>3, <1>4 DEF Behind
  <2>3. QED BY <2>1, <2>2
<1>6. InOrder'
  <2> USE DEF InOrder
  <2>1. Listed'
    BY <1>2 DEF Listed
  <2>2. TablesInOrder'
    BY <1>2, <1>5 DEF TablesInOrder
  <2>3. FailuresRemembered'
    BY <1>2 DEF FailuresRemembered
  <2>4. InvalidIsRemote'
    BY <1>1 DEF InvalidIsRemote
  <2>5. StepLoads'
    <3>1. CASE phase = "engine"
      BY <1>1, <1>2, <1>3, <3>1 DEF StepLoads
    <3>2. CASE phase # "engine"
      <4>1. \A r \in Requests : \A i \in sch.sync[r] :
              /\ i \in DOMAIN table[r] /\ sch.num[r] > 0
              /\ i * BlockSize <= Before(r) /\ req[r].cached = Before(r)
        BY <1>1, <3>2 DEF StepLoads
      <4>2. \A r \in Requests : \A i \in sch'.sync[r] :
              /\ i \in DOMAIN table'[r] /\ sch'.num[r] > 0
              /\ i * BlockSize <= Before(r)' /\ req'[r].cached = Before(r)'
        BY <1>2, <1>5, <4>1
      <4>3. QED BY <1>1, <1>2, <4>2 DEF StepLoads
    <3>3. QED BY <3>1, <3>2
  <2>6. OwnBlocks'
    BY <1>2 DEF OwnBlocks, Held, Key
  <2>7. QED BY <2>1, <2>2, <2>3, <2>4, <2>5, <2>6
<1>7. \A b \in Blocks : Coming(b) => Coming(b)'
  <2> SUFFICES ASSUME NEW b \in Blocks, Coming(b) PROVE Coming(b)'
    OBVIOUS
  <2>1. PICK r \in Requests : \E i \in DOMAIN table[r] : table[r][i] = b /\ Brings(r, i)
    BY DEF Coming
  <2>2. \E i \in DOMAIN table'[r] : table'[r][i] = b /\ Brings(r, i)'
    BY <1>2, <1>5, <2>1 DEF Brings
  <2>3. QED BY <1>1, <2>2 DEF Coming
<1>8. RightEntries'
  <2>1. \A b \in Blocks : Offered(b)'
    BY <1>1, <1>2, <1>7 DEF RightEntries, Offered
  <2>2. \A s \in Requests :
          /\ table'[s] = table[s] /\ req'[s] = req[s] /\ load'[s] = load[s]
          /\ s \in failed_recving_kv_req_ids => s \in failed_recving_kv_req_ids'
          /\ \A b \in Held(s) : filled'[b] = filled[b]
    BY <1>2
  <2> DEFINE none == {}
  <2>3. none \in SUBSET Requests /\ \A s \in none : FALSE
    OBVIOUS
  <2> HIDE DEF none
  <2>4. QED BY <1>2, <1>7, <2>1, <2>2, <2>3, PlanningEntries
<1>9. QED BY <1>6, <1>8

LEMMA EntriesOfBeginSchedule ==
    TransferInv /\ EntriesInv /\ BeginSchedule => EntriesInv'
<1> SUFFICES ASSUME TransferInv, EntriesInv, BeginSchedule, Careful PROVE InOrder' /\ RightEntries'
  BY DEF EntriesInv, Careful, BeginSchedule
<1>1. InOrder /\ RightEntries
  BY DEF EntriesInv
<1>2. QED BY <1>1, QuietKeeps DEF BeginSchedule, Planning, engineVars, recvVars, workerVars

LEMMA EntriesOfRunningDone ==
    TransferInv /\ EntriesInv /\ RunningDone => EntriesInv'
<1> SUFFICES ASSUME TransferInv, EntriesInv, RunningDone, Careful PROVE InOrder' /\ RightEntries'
  BY DEF EntriesInv, Careful, RunningDone
<1>1. InOrder /\ RightEntries
  BY DEF EntriesInv
<1>2. QED BY <1>1, QuietKeeps DEF RunningDone, Planning, engineVars, recvVars, workerVars

LEMMA EntriesOfSkipping ==
    TransferInv /\ EntriesInv /\ (RemoteSkip \/ ConnectorUndecided) => EntriesInv'
<1> SUFFICES ASSUME TransferInv, EntriesInv, RemoteSkip \/ ConnectorUndecided, Careful
             PROVE  InOrder' /\ RightEntries'
  BY DEF EntriesInv, Careful, RemoteSkip, ConnectorUndecided
<1>1. InOrder /\ RightEntries /\ TypeOK
  BY DEF EntriesInv, TransferInv
<1>2. /\ InWaitingLoop /\ SkipHead
      /\ UNCHANGED <<cfg, req, running, cacheVars, phase, recvVars, workerVars>>
  BY DEF RemoteSkip, ConnectorUndecided
<1>3. phase = "waiting" /\ phase' = phase
  BY <1>2 DEF InWaitingLoop
<1>4. /\ ToSet(sch'.skipped) \cup ToSet(waiting') = ToSet(sch.skipped) \cup ToSet(waiting)
      /\ sch'.num = sch.num /\ sch'.sync = sch.sync
  BY <1>1, <1>2, SkipHeadKeeps
<1>5. UNCHANGED <<cfg, req, running, cacheVars, failed_recving_kv_req_ids, load>>
  BY <1>2 DEF recvVars, workerVars
<1>6. QED BY <1>1, <1>3, <1>4, <1>5, QuietKeeps DEF Planning

LEMMA EntriesOfLeaving ==
    TransferInv /\ EntriesInv /\ (WaitingBlocked \/ WaitingDone) => EntriesInv'
<1> SUFFICES ASSUME TransferInv, EntriesInv, WaitingBlocked \/ WaitingDone, Careful
             PROVE  InOrder' /\ RightEntries'
  BY DEF EntriesInv, Careful, WaitingBlocked, WaitingDone
<1>1. InOrder /\ RightEntries /\ TypeOK
  BY DEF EntriesInv, TransferInv
<1>2. /\ phase = "waiting" /\ LeaveWaitingLoop
      /\ UNCHANGED <<cfg, req, running, cacheVars, recvVars, workerVars>>
  BY DEF WaitingBlocked, WaitingDone, InWaitingLoop
<1>3. phase' = "close" /\ sch' = [sch EXCEPT !.skipped = <<>>] /\ waiting' = sch.skipped \o waiting
  BY <1>2 DEF LeaveWaitingLoop
<1>4. sch'.num = sch.num /\ sch'.sync = sch.sync /\ sch'.skipped = <<>>
  BY <1>1, <1>3 DEF TypeOK
<1>5. ToSet(sch'.skipped) \cup ToSet(waiting') = ToSet(sch.skipped) \cup ToSet(waiting)
  <2>1. sch.skipped \in Seq(Requests) /\ waiting \in Seq(Requests)
    BY <1>1 DEF TypeOK
  <2>2. ToSet(sch'.skipped) = {}
    BY <1>4 DEF ToSet
  <2>3. QED BY <1>3, <2>1, <2>2, ConcatElements
<1>6. UNCHANGED <<cfg, req, running, cacheVars, failed_recving_kv_req_ids, load>>
  BY <1>2 DEF recvVars, workerVars
<1>7. QED BY <1>1, <1>2, <1>3, <1>4, <1>5, <1>6, QuietKeeps DEF Planning

\* A request that the step does nothing for brings no block.
LEMMA IdleBringsNothing ==
    ASSUME TypeOK, NEW r \in Requests, phase \in Planning \cup {"execute"},
           sch.num[r] <= 0, sch.sync[r] = {}, NEW i \in Int
    PROVE  ~Brings(r, i)
<1>1. req[r].computed \in Int /\ sch.num[r] \in Int /\ i * BlockSize \in Int
  BY StateTypes, ConstantTypes
<1>2. Behind(r) \in Int /\ Before(r) \in Int /\ Behind(r) <= Before(r)
  BY <1>1 DEF Behind, Before, Planning
<1>3. QED BY <1>1, <1>2 DEF Brings

\* What is coming stays so while those who bring it keep their blocks.
LEMMA ComingKept ==
    ASSUME TypeOK, NEW some,
           phase \in Planning => phase' \in Planning \cup {"execute"}, phase # "execute",
           \A s \in Requests \ some :
              /\ table'[s] = table[s] /\ sch'.sync[s] = sch.sync[s]
              /\ Before(s)' = Before(s) /\ Behind(s)' = Behind(s),
           phase \in Planning => \A r \in some : sch.num[r] <= 0 /\ sch.sync[r] = {}
    PROVE  \A b \in Blocks : Coming(b) => Coming(b)'
<1> SUFFICES ASSUME NEW b \in Blocks, Coming(b) PROVE Coming(b)'
  OBVIOUS
<1>1. PICK r \in Requests : \E i \in DOMAIN table[r] : table[r][i] = b /\ Brings(r, i)
  BY DEF Coming
<1>2. phase \in Planning /\ phase' \in Planning \cup {"execute"}
  BY DEF Coming
<1>3. DOMAIN table[r] \subseteq Int
  BY StateTypes
<1>4. r \notin some
  BY <1>1, <1>2, <1>3, IdleBringsNothing
<1>5. \E i \in DOMAIN table'[r] : table'[r][i] = b /\ Brings(r, i)'
  BY <1>1, <1>4 DEF Brings
<1>6. QED BY <1>2, <1>5 DEF Coming

\* No token lies in blocks behind the last one that is counted.
LEMMA WithinBehind ==
    ASSUME NEW n \in Int, NEW h \in Int, n <= h * BlockSize, NEW i \in Int, i > h
    PROVE  Within(n, i) = 0
<1>1. BlockSize \in Nat /\ BlockSize > 0 /\ i - 1 \in Int /\ ~(i - 1 < h)
  BY ConstantTypes
<1>2. ~((i - 1) * BlockSize < h * BlockSize)
  BY <1>1, Monotone
<1>3. (i - 1) * BlockSize \in Int /\ h * BlockSize \in Int
  BY <1>1
<1>4. n <= (i - 1) * BlockSize
  BY <1>2, <1>3
<1>5. QED BY <1>4, WithinFacts

\* What InOrder says of one request.
OrderOf(r) ==
    /\ req[r].status = "RUNNING" => r \in ToSet(running)
    /\ req[r].status \in Waits => r \in ToSet(sch.skipped) \cup ToSet(waiting)
    /\ IsInjective(table[r])
    /\ req[r].status \in Counts => /\ req[r].computed <= Len(table[r]) * BlockSize
                                   /\ Behind(r) <= Len(table[r]) * BlockSize
    /\ r \in failed_recving_kv_req_ids => req[r].status \in {"WAITING_FOR_REMOTE_KVS", "FINISHED"}
    /\ phase \in Planning => \A i \in sch.sync[r] :
          /\ i \in DOMAIN table[r] /\ sch.num[r] > 0
          /\ i * BlockSize <= Before(r) /\ req[r].cached = Before(r)
    /\ ~cfg.async /\ req[r].status \in Waits \cup {"NONE"} /\ ~req[r].preempted =>
          req[r].cached = NotScheduledYet

LEMMA PlanningOrder ==
    ASSUME InOrder, NEW some \in SUBSET Requests, cfg' = cfg,
           phase' \notin {"execute", "invalid"}, phase' \in Planning => phase \in Planning,
           \A s \in Requests \ some :
              /\ table'[s] = table[s] /\ req'[s] = req[s]
              /\ sch'.sync[s] = sch.sync[s] /\ sch'.num[s] = sch.num[s]
              /\ Before(s)' = Before(s) /\ Behind(s)' = Behind(s)
              /\ s \in failed_recving_kv_req_ids' => s \in failed_recving_kv_req_ids
              /\ s \in ToSet(running) => s \in ToSet(running')
              /\ s \in ToSet(sch.skipped) \cup ToSet(waiting) =>
                    s \in ToSet(sch'.skipped) \cup ToSet(waiting'),
           failed_recving_kv_req_ids' \subseteq Requests,
           \A r \in some : OrderOf(r)', OwnBlocks'
    PROVE  InOrder'
<1>1. \A r \in Requests : OrderOf(r)'
  <2> TAKE r \in Requests
  <2>1. CASE r \in some
    BY <2>1
  <2>2. CASE r \notin some
    <3>1. OrderOf(r) \/ phase \notin Planning
      BY DEF InOrder, Listed, TablesInOrder, FailuresRemembered, StepLoads, OrderOf
    <3>2. /\ req[r].status = "RUNNING" => r \in ToSet(running)
          /\ req[r].status \in Waits => r \in ToSet(sch.skipped) \cup ToSet(waiting)
          /\ IsInjective(table[r])
          /\ req[r].status \in Counts => /\ req[r].computed <= Len(table[r]) * BlockSize
                                         /\ Behind(r) <= Len(table[r]) * BlockSize
          /\ r \in failed_recving_kv_req_ids =>
                req[r].status \in {"WAITING_FOR_REMOTE_KVS", "FINISHED"}
          /\ ~cfg.async /\ req[r].status \in Waits \cup {"NONE"} /\ ~req[r].preempted =>
                req[r].cached = NotScheduledYet
      BY DEF InOrder, Listed, TablesInOrder, FailuresRemembered, StepLoads
    <3>3. phase \in Planning => \A i \in sch.sync[r] :
            /\ i \in DOMAIN table[r] /\ sch.num[r] > 0
            /\ i * BlockSize <= Before(r) /\ req[r].cached = Before(r)
      BY DEF InOrder, StepLoads
    <3>4. phase' \in Planning => \A i \in sch'.sync[r] :
            /\ i \in DOMAIN table'[r] /\ sch'.num[r] > 0
            /\ i * BlockSize <= Before(r)' /\ req'[r].cached = Before(r)'
      BY <2>2, <3>3
    <3>5. QED BY <2>2, <3>2, <3>4 DEF OrderOf
  <2>3. QED BY <2>1, <2>2
<1>2. Listed' /\ TablesInOrder'
  BY <1>1 DEF OrderOf, Listed, TablesInOrder
<1>3. FailuresRemembered' /\ InvalidIsRemote'
  BY <1>1 DEF OrderOf, FailuresRemembered, InvalidIsRemote
<1>4. StepLoads'
  BY <1>1 DEF OrderOf, StepLoads
<1>5. QED BY <1>2, <1>3, <1>4 DEF InOrder

LEMMA TablesShrink ==
    ASSUME TypeOK, OwnBlocks, cfg' = cfg,
           \A r \in Requests : table'[r] = table[r] \/ table'[r] = <<>>,
           \A b \in Blocks : key'[b] = key[b] \/ key'[b] = NoKey
    PROVE  OwnBlocks'
<1> SUFFICES ASSUME ~cfg.async PROVE OwnBlocks'
  BY DEF OwnBlocks
<1>1. \A r \in Requests : Held(r)' \subseteq Held(r)
  BY DEF Held
<1>2. \A r \in Requests : \A i \in DOMAIN table'[r] :
          i \in DOMAIN table[r] /\ table'[r][i] = table[r][i] /\ table[r][i] \in Blocks
  BY StateTypes
<1>3. \A r \in Requests : \A i \in DOMAIN table[r] : key[table[r][i]] \in {NoKey, Key(r, i)}
  BY DEF OwnBlocks
<1>4. \A r \in Requests : \A i \in DOMAIN table'[r] : key'[table'[r][i]] \in {NoKey, Key(r, i)}
  BY <1>2, <1>3
<1>5. \A r, s \in Requests : r # s => Held(r)' \cap Held(s)' = {}
  BY <1>1 DEF OwnBlocks
<1>6. \A r \in Requests : \A i \in DOMAIN table'[r] : Key(r, i)' = Key(r, i)
  BY DEF Key
<1>7. QED BY <1>4, <1>5, <1>6 DEF OwnBlocks, NoKey

LEMMA EntriesOfAddRequest ==
    \A r \in Requests : TransferInv /\ EntriesInv /\ AddRequest(r) => EntriesInv'
<1> SUFFICES ASSUME NEW r \in Requests, TransferInv, EntriesInv, AddRequest(r), Careful
             PROVE  InOrder' /\ RightEntries'
  BY DEF EntriesInv, Careful, AddRequest
<1>1. InOrder /\ RightEntries /\ TypeOK
  BY DEF EntriesInv, TransferInv
<1>2. /\ phase = "engine" /\ phase' = "engine" /\ req[r].status = "NONE"
      /\ waiting' = Append(waiting, r)
      /\ cfg' = cfg /\ running' = running /\ table' = table /\ key' = key /\ filled' = filled
      /\ sch' = sch /\ failed_recving_kv_req_ids' = failed_recving_kv_req_ids /\ load' = load
  BY DEF AddRequest, cacheVars, recvVars, workerVars
<1>3. /\ \A s \in Requests : s # r => req'[s] = req[s]
      /\ req'[r] = [req[r] EXCEPT !.status = "WAITING"]
  BY <1>1 DEF TypeOK, AddRequest
<1>4. /\ req'[r].status = "WAITING" /\ req'[r].computed = req[r].computed
      /\ req'[r].wrong = req[r].wrong /\ req'[r].cached = req[r].cached
      /\ req'[r].preempted = req[r].preempted
  BY <1>1, <1>3 DEF TypeOK
<1>5. req[r].computed = 0 /\ Len(table[r]) \in Nat /\ Len(table[r]) * BlockSize >= 0
  BY <1>1, <1>2, StateTypes, ConstantTypes DEF RemoteHasWork, TransferInv
<1>6. ToSet(waiting') = ToSet(waiting) \cup {r} /\ sch.skipped = <<>>
  <2>1. waiting \in Seq(Requests)
    BY <1>1 DEF TypeOK
  <2>2. QED BY <1>2, <2>1, AppendElements DEF TransferInv, ScheduleStages, NoSchedule
<1> DEFINE one == {r}
<1>7. \A s \in Requests \ one : Before(s)' = Before(s) /\ Behind(s)' = Behind(s)
  BY <1>2, <1>3 DEF Before, Behind
<1>8. OrderOf(r)'
  <2>1. r \notin failed_recving_kv_req_ids /\ IsInjective(table[r])
    BY <1>1, <1>2 DEF InOrder, FailuresRemembered, TablesInOrder
  <2>2. Behind(r)' = 0
    BY <1>2, <1>4, <1>5 DEF Behind, Planning
  <2>3. ~cfg.async /\ ~req[r].preempted => req[r].cached = NotScheduledYet
    BY <1>1, <1>2 DEF InOrder, StepLoads
  <2>4. phase' \notin Planning
    BY <1>2 DEF Planning
  <2>5. r \in ToSet(waiting')
    BY <1>6
  <2>6. QED BY <1>2, <1>4, <1>5, <2>1, <2>2, <2>3, <2>4, <2>5 DEF OrderOf, NotScheduledYet
<1>9. OwnBlocks'
  BY <1>1, <1>2, TablesShrink DEF InOrder
<1>10. InOrder'
  <2>1. one \in SUBSET Requests /\ phase' \notin {"execute", "invalid"} /\ phase' \notin Planning
    BY <1>2 DEF Planning
  <2>2. failed_recving_kv_req_ids' \subseteq Requests
    BY <1>1, <1>2 DEF TypeOK
  <2>3. \A s \in one : OrderOf(s)'
    BY <1>8
  <2>4. \A s \in Requests \ one :
              /\ table'[s] = table[s] /\ req'[s] = req[s]
              /\ sch'.sync[s] = sch.sync[s] /\ sch'.num[s] = sch.num[s]
              /\ s \in failed_recving_kv_req_ids' => s \in failed_recving_kv_req_ids
              /\ s \in ToSet(running) => s \in ToSet(running')
              /\ s \in ToSet(sch.skipped) \cup ToSet(waiting) =>
                    s \in ToSet(sch'.skipped) \cup ToSet(waiting')
    BY <1>2, <1>3, <1>6
  <2> HIDE DEF one
  <2>5. QED BY <1>1, <1>2, <1>7, <1>9, <2>1, <2>2, <2>3, <2>4, PlanningOrder
<1>11. \A b \in Blocks : ~Coming(b) /\ Offered(b)'
  BY <1>1, <1>2 DEF RightEntries, Offered, Coming, Planning
<1>12. Counted(r)' /\ Loaded(r)'
  <2>1. \A i \in DOMAIN table[r] : Within(0, i) <= filled[table[r][i]]
    <3> TAKE i \in DOMAIN table[r]
    <3>1. i \in Int /\ i > 0 /\ 0 * BlockSize = 0 /\ table[r][i] \in Blocks
      BY <1>1, StateTypes, ConstantTypes
    <3>2. Within(0, i) = 0
      BY <3>1, WithinBehind
    <3>3. filled[table[r][i]] \in 0 .. BlockSize
      BY <1>1, <3>1 DEF TypeOK
    <3>4. QED BY <3>2, <3>3, ConstantTypes
  <2>2. Before(r)' = 0
    BY <1>2, <1>4, <1>5 DEF Before
  <2>3. QED BY <1>2, <1>4, <2>1, <2>2 DEF Counted, Loaded, Within
<1>13. RightEntries'
  <2>1. one \in SUBSET Requests
    OBVIOUS
  <2>2. \A s \in Requests \ one :
              /\ table'[s] = table[s] /\ req'[s] = req[s] /\ load'[s] = load[s]
              /\ s \in failed_recving_kv_req_ids => s \in failed_recving_kv_req_ids'
              /\ \A b \in Held(s) : filled'[b] = filled[b]
    BY <1>2, <1>3
  <2>3. \A s \in one : Counted(s)' /\ Loaded(s)' /\ req'[s].wrong = req[s].wrong
    BY <1>4, <1>12
  <2> HIDE DEF one
  <2>4. QED BY <1>1, <1>2, <1>11, <2>1, <2>2, <2>3, PlanningEntries
<1>14. QED BY <1>10, <1>13

LEMMA EntriesOfAbort ==
    \A r \in Requests : TransferInv /\ EntriesInv /\ Abort(r) => EntriesInv'
<1> SUFFICES ASSUME NEW r \in Requests, TransferInv, EntriesInv, Abort(r), Careful
             PROVE  InOrder' /\ RightEntries'
  BY DEF EntriesInv, Careful, Abort
<1>1. InOrder /\ RightEntries /\ TypeOK /\ QueuesAgree
  BY DEF EntriesInv, TransferInv
<1>2. /\ phase = "engine" /\ phase' = "engine" /\ req' = [req EXCEPT ![r].status = "FINISHED"]
      /\ waiting' = Without(waiting, r) /\ running' = Without(running, r)
      /\ FreeRequests({r})
      /\ cfg' = cfg /\ key' = key /\ filled' = filled
      /\ sch' = sch /\ failed_recving_kv_req_ids' = failed_recving_kv_req_ids /\ load' = load
  BY DEF Abort, recvVars
<1>3. /\ \A s \in Requests : s # r => req'[s] = req[s]
      /\ req'[r] = [req[r] EXCEPT !.status = "FINISHED"]
  BY <1>1, <1>2 DEF TypeOK
<1>4. req'[r].status = "FINISHED" /\ req'[r].wrong = req[r].wrong
  BY <1>1, <1>3 DEF TypeOK
<1> DEFINE one == {r}
<1>5. /\ \A s \in Requests \ one : table'[s] = table[s]
      /\ \A s \in Requests : table'[s] = table[s] \/ table'[s] = <<>>
  <2>1. one \in SUBSET Requests /\ FreeRequests(one)
    BY <1>2
  <2> HIDE DEF one
  <2>2. \E keeps \in SUBSET one :
           \A s \in Requests : table'[s] = IF s \in one \ keeps THEN <<>> ELSE table[s]
    BY <1>1, <2>1, FreeFacts
  <2>3. QED BY <2>2
<1>6. ToSet(waiting') = ToSet(waiting) \ {r} /\ ToSet(running') = ToSet(running) \ {r}
  <2>1. waiting \in Seq(Requests) /\ running \in Seq(Requests)
    BY <1>1 DEF TypeOK
  <2>2. QED BY <1>1, <1>2, <2>1, QueueFacts, WithoutElements
<1>7. \A s \in Requests \ one : Before(s)' = Before(s) /\ Behind(s)' = Behind(s)
  BY <1>2, <1>3 DEF Before, Behind
<1>8. OrderOf(r)'
  <2>1. IsInjective(table'[r])
    BY <1>1, <1>5 DEF InOrder, TablesInOrder, IsInjective
  <2>2. phase' \notin Planning
    BY <1>2 DEF Planning
  <2>3. QED BY <1>4, <2>1, <2>2 DEF OrderOf, Waits, Counts
<1>9. OwnBlocks'
  BY <1>1, <1>2, <1>5, TablesShrink DEF InOrder
<1>10. InOrder'
  <2>1. one \in SUBSET Requests /\ phase' \notin {"execute", "invalid"} /\ phase' \notin Planning
    BY <1>2 DEF Planning
  <2>2. failed_recving_kv_req_ids' \subseteq Requests
    BY <1>1, <1>2 DEF TypeOK
  <2>3. \A s \in one : OrderOf(s)'
    BY <1>8
  <2>4. \A s \in Requests \ one :
              /\ table'[s] = table[s] /\ req'[s] = req[s]
              /\ sch'.sync[s] = sch.sync[s] /\ sch'.num[s] = sch.num[s]
              /\ s \in failed_recving_kv_req_ids' => s \in failed_recving_kv_req_ids
              /\ s \in ToSet(running) => s \in ToSet(running')
              /\ s \in ToSet(sch.skipped) \cup ToSet(waiting) =>
                    s \in ToSet(sch'.skipped) \cup ToSet(waiting')
    BY <1>2, <1>3, <1>5, <1>6
  <2> HIDE DEF one
  <2>5. QED BY <1>1, <1>2, <1>7, <1>9, <2>1, <2>2, <2>3, <2>4, PlanningOrder
<1>11. \A b \in Blocks : ~Coming(b) /\ Offered(b)'
  BY <1>1, <1>2 DEF RightEntries, Offered, Coming, Planning
<1>12. Counted(r)' /\ Loaded(r)'
  BY <1>4 DEF Counted, Loaded, Counts
<1>13. RightEntries'
  <2>1. one \in SUBSET Requests
    OBVIOUS
  <2>2. \A s \in Requests \ one :
              /\ table'[s] = table[s] /\ req'[s] = req[s] /\ load'[s] = load[s]
              /\ s \in failed_recving_kv_req_ids => s \in failed_recving_kv_req_ids'
              /\ \A b \in Held(s) : filled'[b] = filled[b]
    BY <1>2, <1>3, <1>5
  <2>3. \A s \in one : Counted(s)' /\ Loaded(s)' /\ req'[s].wrong = req[s].wrong
    BY <1>4, <1>12
  <2> HIDE DEF one
  <2>4. QED BY <1>1, <1>2, <1>11, <2>1, <2>2, <2>3, PlanningEntries
<1>14. QED BY <1>10, <1>13

LEMMA EntriesOfRunningPreempt ==
    TransferInv /\ EntriesInv /\ RunningPreempt => EntriesInv'
<1> SUFFICES ASSUME TransferInv, EntriesInv, RunningPreempt, Careful
             PROVE  InOrder' /\ RightEntries'
  BY DEF EntriesInv, Careful, RunningPreempt
<1>1. InOrder /\ RightEntries /\ TypeOK /\ QueuesAgree /\ ScheduleStages
  BY DEF EntriesInv, TransferInv
<1> DEFINE m == Len(running)
<1>18. PICK v : v = Last(running)
  OBVIOUS
<1>2. InRunningLoop
  BY DEF RunningPreempt
<1>3. /\ phase = "running" /\ phase' = "running" /\ running' = Front(running)
      /\ waiting' = <<v>> \o waiting
      /\ req' = [req EXCEPT ![v].status = "PREEMPTED", ![v].computed = 0, ![v].preempted = TRUE]
      /\ table' = [table EXCEPT ![v] = <<>>]
      /\ sch' = [sch EXCEPT !.preempted = TRUE]
      /\ cfg' = cfg /\ key' = key /\ filled' = filled /\ load' = load
      /\ failed_recving_kv_req_ids' = failed_recving_kv_req_ids
  BY <1>18 DEF RunningPreempt, InRunningLoop, recvVars, workerVars
<1>4. /\ v \in Requests /\ v = running[m] /\ m \in Nat /\ m \in 1 .. m /\ m \in DOMAIN running
      /\ sch.index \in 1 .. m /\ DOMAIN running = 1 .. m /\ running # <<>> /\ v \in ToSet(running)
  <2>1. /\ sch.index \in 1 .. m /\ DOMAIN running = 1 .. m /\ m \in Nat
        /\ running # <<>> /\ v \in Requests /\ v = running[m]
    BY <1>1, <1>2, <1>18, RunningRequest
  <2> HIDE DEF m
  <2>2. m \in 1 .. m
    BY <2>1
  <2>3. QED BY <2>1, <2>2 DEF ToSet
<1>5. /\ \A s \in Requests : s # v => req'[s] = req[s] /\ table'[s] = table[s]
      /\ req'[v].status = "PREEMPTED" /\ req'[v].computed = 0 /\ req'[v].wrong = req[v].wrong
      /\ req'[v].preempted = TRUE /\ table'[v] = <<>>
  BY <1>1, <1>3, <1>4 DEF TypeOK
<1>6. sch'.num = sch.num /\ sch'.sync = sch.sync /\ sch'.skipped = sch.skipped
  BY <1>1, <1>3 DEF TypeOK
<1>7. req[v].status = "RUNNING" /\ sch.num[v] = 0 /\ sch.sync[v] = {}
  <2>1. \A i \in DOMAIN running : i < sch.index => running[i] # v
    <3> TAKE i \in DOMAIN running
    <3>1. ASSUME i < sch.index PROVE i # m
      BY <1>4, <3>1
    <3>2. QED BY <1>1, <1>4, <3>1 DEF QueuesAgree, NoDuplicates
  <2>2. QED BY <1>1, <1>3, <1>4, <2>1 DEF QueuesAgree, ScheduleStages
<1> DEFINE one == {v}
<1>8. \A s \in Requests \ one : Before(s)' = Before(s) /\ Behind(s)' = Behind(s)
  <2> TAKE s \in Requests \ one
  <2>1. req'[s] = req[s] /\ phase' = phase
    BY <1>3, <1>5
  <2>2. QED BY <1>6, <2>1 DEF Before, Behind
<1>9. ToSet(running') = ToSet(running) \ {v} /\ ToSet(waiting') = ToSet(waiting) \cup {v}
  <2>1. running \in Seq(Requests) /\ waiting \in Seq(Requests) /\ NoDuplicates(running)
    BY <1>1 DEF TypeOK, QueuesAgree
  <2>2. running' = RemoveAt(running, m) /\ m \in 1 .. Len(running)
    BY <1>3, <1>4, <2>1, FrontFacts
  <2>3. ToSet(running') = ToSet(running) \ {running[m]}
    <3> HIDE DEF m
    <3>1. QED BY <2>1, <2>2, RemoveAtElements
  <2> DEFINE o == <<v>>
  <2>4. o \in Seq(Requests) /\ ToSet(o) = {v}
    BY <1>4 DEF ToSet
  <2>5. waiting' = o \o waiting
    BY <1>3
  <2> HIDE DEF o, m
  <2>6. ToSet(waiting') = ToSet(o) \cup ToSet(waiting)
    BY <2>1, <2>4, <2>5, ConcatElements
  <2>7. QED BY <1>4, <2>3, <2>4, <2>6
<1> HIDE DEF m
<1>10. OrderOf(v)'
  <2>1. IsInjective(table'[v]) /\ Len(table'[v]) = 0
    BY <1>5 DEF IsInjective
  <2>2. 0 * BlockSize = 0
    BY ConstantTypes
  <2>3. Behind(v)' = 0
    BY <1>3, <1>5, <1>6, <1>7 DEF Behind
  <2>4. v \notin failed_recving_kv_req_ids
    BY <1>1, <1>7 DEF InOrder, FailuresRemembered
  <2>5. sch'.sync[v] = {} /\ v \in ToSet(waiting')
    BY <1>6, <1>7, <1>9
  <2>6. QED BY <1>3, <1>5, <2>1, <2>2, <2>3, <2>4, <2>5 DEF OrderOf
<1>11. OwnBlocks'
  <2>1. \A s \in Requests : table'[s] = table[s] \/ table'[s] = <<>>
    BY <1>5
  <2>2. QED BY <1>1, <1>3, <2>1, TablesShrink DEF InOrder
<1>12. InOrder'
  <2>1. /\ one \in SUBSET Requests /\ phase' \notin {"execute", "invalid"}
        /\ phase' \in Planning => phase \in Planning
    BY <1>3, <1>4
  <2>2. failed_recving_kv_req_ids' \subseteq Requests
    BY <1>1, <1>3 DEF TypeOK
  <2>3. \A s \in one : OrderOf(s)'
    BY <1>10
  <2>4. \A s \in Requests \ one :
              /\ table'[s] = table[s] /\ req'[s] = req[s]
              /\ sch'.sync[s] = sch.sync[s] /\ sch'.num[s] = sch.num[s]
              /\ s \in failed_recving_kv_req_ids' => s \in failed_recving_kv_req_ids
              /\ s \in ToSet(running) => s \in ToSet(running')
              /\ s \in ToSet(sch.skipped) \cup ToSet(waiting) =>
                    s \in ToSet(sch'.skipped) \cup ToSet(waiting')
    BY <1>3, <1>5, <1>6, <1>9
  <2> HIDE DEF one
  <2>5. QED BY <1>1, <1>3, <1>8, <1>11, <2>1, <2>2, <2>3, <2>4, PlanningOrder
<1>13. \A b \in Blocks : Coming(b) => Coming(b)'
  <2>1. phase \in Planning /\ phase' \in Planning \cup {"execute"} /\ phase # "execute"
    BY <1>3 DEF Planning
  <2>2. \A s \in one : sch.num[s] <= 0 /\ sch.sync[s] = {}
    BY <1>7
  <2>3. \A s \in Requests \ one : table'[s] = table[s] /\ sch'.sync[s] = sch.sync[s]
    BY <1>5, <1>6
  <2> HIDE DEF one
  <2>4. QED BY <1>1, <1>8, <2>1, <2>2, <2>3, ComingKept
<1>14. \A b \in Blocks : Offered(b)'
  BY <1>1, <1>3, <1>13 DEF RightEntries, Offered
<1>15. Counted(v)' /\ Loaded(v)'
  BY <1>5 DEF Counted, Loaded
<1>16. RightEntries'
  <2>1. one \in SUBSET Requests /\ phase \in Planning \cup {"engine"} /\ phase' \in Planning \cup {"engine"}
    BY <1>3, <1>4 DEF Planning
  <2>2. \A s \in Requests \ one :
              /\ table'[s] = table[s] /\ req'[s] = req[s] /\ load'[s] = load[s]
              /\ s \in failed_recving_kv_req_ids => s \in failed_recving_kv_req_ids'
              /\ \A b \in Held(s) : filled'[b] = filled[b]
    BY <1>3, <1>5
  <2>3. \A s \in one : Counted(s)' /\ Loaded(s)' /\ req'[s].wrong = req[s].wrong
    BY <1>5, <1>15
  <2> HIDE DEF one
  <2>4. QED BY <1>1, <1>3, <1>13, <1>14, <2>1, <2>2, <2>3, PlanningEntries
<1>17. QED BY <1>12, <1>16

LEMMA EntriesOfEndSchedule ==
    TransferInv /\ EntriesInv /\ EndSchedule => EntriesInv'
<1> SUFFICES ASSUME TransferInv, EntriesInv, EndSchedule, Careful
             PROVE  InOrder' /\ RightEntries'
  BY DEF EntriesInv, Careful, EndSchedule
<1>1. InOrder /\ RightEntries /\ TypeOK /\ QueuesAgree /\ ScheduleStages
  BY DEF EntriesInv, TransferInv
<1>2. /\ phase = "close" /\ phase' = "execute"
      /\ req' = [r \in Requests |-> [req[r] EXCEPT !.computed = @ + sch.num[r]]]
      /\ waiting' = waiting /\ running' = running /\ sch' = sch /\ load' = load
      /\ cfg' = cfg /\ table' = table /\ key' = key /\ filled' = filled /\ report' = report
      /\ failed_recving_kv_req_ids' = failed_recving_kv_req_ids
  BY DEF EndSchedule, cacheVars, recvVars, workerVars
<1>3. \A r \in Requests :
        /\ req'[r].status = req[r].status /\ req'[r].cached = req[r].cached
        /\ req'[r].preempted = req[r].preempted /\ req'[r].wrong = req[r].wrong
        /\ req'[r].tokens = req[r].tokens /\ req'[r].computed = req[r].computed + sch.num[r]
        /\ req[r].computed \in Int /\ sch.num[r] \in Int
  BY <1>1, <1>2 DEF TypeOK
<1>4. \A r \in Requests : Before(r)' = Before(r) /\ Behind(r)' = Behind(r) /\ req'[r].computed = Behind(r)
  BY <1>2, <1>3 DEF Before, Behind, Planning
<1>5. \A r \in Requests : sch.num[r] # 0 => req[r].status = "RUNNING"
  BY <1>1, <1>2 DEF ScheduleStages
<1>6. \A b \in Blocks : Coming(b) => Coming(b)'
  <2> DEFINE none == {}
  <2>1. phase' \in Planning \cup {"execute"} /\ phase # "execute" /\ \A s \in none : FALSE
    BY <1>2
  <2>2. \A s \in Requests \ none : table'[s] = table[s] /\ sch'.sync[s] = sch.sync[s]
    BY <1>2
  <2> HIDE DEF none
  <2>3. QED BY <1>1, <1>4, <2>1, <2>2, ComingKept
<1>7. InOrder'
  <2>1. Listed'
    BY <1>1, <1>2, <1>3 DEF InOrder, Listed
  <2>2. TablesInOrder'
    BY <1>1, <1>2, <1>3, <1>4 DEF InOrder, TablesInOrder
  <2>3. FailuresRemembered'
    BY <1>1, <1>2, <1>3 DEF InOrder, FailuresRemembered, TypeOK
  <2>4. InvalidIsRemote'
    <3>1. report'.invalid = {}
      BY <1>1, <1>2 DEF ScheduleStages
    <3>2. QED BY <3>1 DEF InvalidIsRemote
  <2>5. StepLoads'
    <3>1. \A r \in Requests : \A i \in sch.sync[r] :
            /\ i \in DOMAIN table[r] /\ sch.num[r] > 0
            /\ i * BlockSize <= Before(r) /\ req[r].cached = Before(r)
      BY <1>1, <1>2 DEF InOrder, StepLoads, Planning
    <3>2. ~cfg.async => \A r \in Requests :
            req[r].status \in Waits \cup {"NONE"} /\ ~req[r].preempted =>
              req[r].cached = NotScheduledYet
      BY <1>1 DEF InOrder, StepLoads
    <3>3. \A r \in Requests : \A i \in sch'.sync[r] :
            /\ i \in DOMAIN table'[r] /\ sch'.num[r] > 0
            /\ i * BlockSize <= Before(r)' /\ req'[r].cached = Before(r)'
      BY <1>2, <1>3, <1>4, <3>1
    <3>4. QED BY <1>2, <1>3, <1>5, <3>2, <3>3 DEF StepLoads
  <2>6. OwnBlocks'
    BY <1>1, <1>2, TablesShrink DEF InOrder
  <2>7. QED BY <2>1, <2>2, <2>3, <2>4, <2>5, <2>6 DEF InOrder
<1>8. \A r \in Requests : Counted(r)' /\ Loaded(r)'
  <2> TAKE r \in Requests
  <2>1. \A i \in DOMAIN table[r] : table[r][i] \in Blocks
    BY <1>1, StateTypes
  <2>2. Counted(r)'
    BY <1>1, <1>2, <1>3, <1>4, <1>6, <2>1 DEF RightEntries, Counted, Within
  <2>3. Loaded(r)'
    <3> SUFFICES ASSUME req[r].status = "WAITING_FOR_REMOTE_KVS" PROVE Loaded(r)'
      BY <1>3 DEF Loaded
    <3>1. req'[r].computed = req[r].computed
      BY <1>3, <1>5
    <3>2. QED BY <1>1, <1>2, <1>3, <1>6, <2>1, <3>1 DEF RightEntries, Loaded, Within
  <2>4. QED BY <2>2, <2>3
<1>9. RightEntries'
  <2>1. \A b \in Blocks : Offered(b)'
    BY <1>1, <1>2, <1>6 DEF RightEntries, Offered
  <2>2. NoWrongAnswer' /\ RightAnswers'
    BY <1>1, <1>2, <1>3 DEF RightEntries, NoWrongAnswer, RightAnswers
  <2>3. Blocks' = Blocks
    BY <1>2 DEF Blocks
  <2>4. QED BY <1>8, <2>1, <2>2, <2>3 DEF RightEntries
<1>10. QED BY <1>7, <1>9

\* A table covers the tokens it is allocated for.
LEMMA AllocatedCovers ==
    ASSUME TypeOK, NEW r \in Requests, NEW hit \in Seq(Blocks), NEW total \in Int,
           NEW cached, NEW new, NEW t, Allocated(r, hit, total, cached, new, t)
    PROVE  /\ total <= Len(t) * BlockSize /\ Len(hit) * BlockSize <= Len(t) * BlockSize
           /\ Len(t) * BlockSize \in Int /\ Len(hit) * BlockSize \in Int
<1> DEFINE c == CeilDiv(total, BlockSize)
<1>1. /\ Len(t) \in Nat /\ Len(hit) \in Nat /\ c \in Int /\ Len(hit) <= Len(t) /\ c <= Len(t)
  BY AllocatedLength
<1>2. BlockSize \in Nat /\ BlockSize > 0 /\ total <= c * BlockSize
  BY ConstantTypes, CeilDivFacts
<1> HIDE DEF c
<1>3. ~(Len(t) * BlockSize < c * BlockSize) /\ ~(Len(t) * BlockSize < Len(hit) * BlockSize)
  BY <1>1, <1>2, Monotone
<1>4. Len(t) * BlockSize \in Int /\ Len(hit) * BlockSize \in Int /\ c * BlockSize \in Int
  BY <1>1, <1>2
<1>5. QED BY <1>2, <1>3, <1>4

\* Without common blocks, blocks stay with their owners when one gets new ones.
LEMMA AllocatedOwn ==
    ASSUME TypeOK, OwnBlocks, cfg' = cfg, NEW r \in Requests, NEW hit \in Seq(Blocks),
           NEW total, NEW cached \in Int, NEW new, NEW t,
           Allocated(r, hit, total, cached, new, t), AllocatedKeys(r, hit, cached, new, t),
           IsInjective(hit),
           ~cfg.async => \A i \in 1 .. Len(hit) :
              /\ \A s \in Requests \ {r} : hit[i] \notin Held(s)
              /\ key[hit[i]] \in {NoKey, Key(r, i)}
    PROVE  OwnBlocks'
<1> SUFFICES ASSUME ~cfg.async PROVE OwnBlocks'
  BY DEF OwnBlocks
<1>1. /\ DOMAIN t = 1 .. Len(t) /\ Len(t) \in Nat /\ Len(hit) \in Nat
      /\ \A i \in 1 .. Len(t) : t[i] \in Blocks
      /\ table'[r] = t /\ \A s \in Requests : s # r => table'[s] = table[s]
      /\ \A s \in Requests : s # r => Held(s)' = Held(s)
      /\ \A s \in Requests : \A b \in Held(s) : b \notin new
      /\ \A i \in 1 .. Len(hit) : hit[i] \notin new /\ i \in 1 .. Len(t) /\ t[i] = hit[i]
      /\ \A i \in 1 .. Len(t) : i > Len(hit) => t[i] \in new
      /\ \A i \in 1 .. Len(t) : i * BlockSize <= cached => key'[t[i]] = Key(r, i)
      /\ \A i \in 1 .. Len(t) : i * BlockSize > cached =>
            key'[t[i]] = IF t[i] \in new THEN NoKey ELSE key[t[i]]
      /\ \A b \in Blocks : b \notin new /\ (\A i \in 1 .. Len(t) : t[i] # b) => key'[b] = key[b]
  BY AllocatedKeep
<1>2. \A i \in 1 .. Len(t) : \A s \in Requests \ {r} : t[i] \notin Held(s)
  <2> TAKE i \in 1 .. Len(t)
  <2>1. CASE i <= Len(hit)
    <3>1. i \in 1 .. Len(hit)
      BY <1>1, <2>1
    <3>2. QED BY <1>1, <3>1
  <2>2. CASE i > Len(hit)
    BY <1>1, <2>2
  <2>3. QED BY <1>1, <2>1, <2>2
<1>3. \A b \in Held(r)' : \E i \in 1 .. Len(t) : t[i] = b
  BY <1>1 DEF Held
<1>4. \A s \in Requests \ {r} : Held(r)' \cap Held(s)' = {}
  BY <1>1, <1>2, <1>3
<1>5. \A s, u \in Requests : s # u => Held(s)' \cap Held(u)' = {}
  <2> TAKE s, u \in Requests
  <2>1. CASE s # r /\ u # r
    BY <1>1, <2>1 DEF OwnBlocks
  <2>2. CASE s = r \/ u = r
    BY <1>4, <2>2
  <2>3. QED BY <2>1, <2>2
<1>6. ASSUME NEW i \in DOMAIN t PROVE key'[t[i]] \in {NoKey, Key(r, i)}
  <2>1. i \in 1 .. Len(t) /\ i * BlockSize \in Int
    BY <1>1, ConstantTypes
  <2>2. CASE i * BlockSize <= cached
    BY <1>1, <2>1, <2>2
  <2>3. CASE i * BlockSize > cached
    <3>1. CASE i <= Len(hit)
      <4>1. i \in 1 .. Len(hit)
        BY <1>1, <2>1, <3>1
      <4>2. key[t[i]] \in {NoKey, Key(r, i)}
        BY <1>1, <4>1
      <4>3. QED BY <1>1, <2>1, <2>3, <4>2
    <3>2. CASE i > Len(hit)
      BY <1>1, <2>1, <2>3, <3>2
    <3>3. QED BY <1>1, <2>1, <3>1, <3>2
  <2>4. QED BY <2>1, <2>2, <2>3
<1>7. ASSUME NEW s \in Requests, s # r, NEW i \in DOMAIN table[s]
      PROVE  key'[table[s][i]] \in {NoKey, Key(s, i)}
  <2>1. table[s][i] \in Held(s) /\ table[s][i] \in Blocks
    BY <1>7, StateTypes DEF Held
  <2>2. key'[table[s][i]] = key[table[s][i]]
    BY <1>1, <1>2, <1>7, <2>1
  <2>3. QED BY <2>2 DEF OwnBlocks
<1>8. ASSUME NEW s \in Requests, NEW i \in DOMAIN table'[s]
      PROVE  key'[table'[s][i]] \in {NoKey, Key(s, i)'}
  <2>1. Key(s, i)' = Key(s, i)
    BY DEF Key
  <2>2. CASE s = r
    BY <1>1, <1>6, <2>1, <2>2
  <2>3. CASE s # r
    BY <1>1, <1>7, <2>1, <2>3
  <2>4. QED BY <2>2, <2>3
<1>9. QED BY <1>5, <1>8 DEF OwnBlocks, NoKey

\* A request that is scheduled: the blocks it computes to their end may be cached at once,
\* because the step that is planned will bring them.
LEMMA ScheduledEntries ==
    ASSUME TypeOK, RightEntries, cfg' = cfg, phase \in {"running", "waiting"}, phase' = phase,
           load' = load, failed_recving_kv_req_ids' = failed_recving_kv_req_ids,
           NEW r \in Requests, NEW hit \in Seq(Blocks), NEW c \in Int, NEW total \in Int,
           NEW new, NEW t, Allocated(r, hit, total, total, new, t),
           AllocatedKeys(r, hit, total, new, t), IsInjective(hit),
           sch.num[r] <= 0, sch.sync[r] = {}, c + sch'.num[r] = total,
           \A s \in Requests \ {r} :
              req'[s] = req[s] /\ sch'.num[s] = sch.num[s] /\ sch'.sync[s] = sch.sync[s],
           req'[r].status = "RUNNING", req'[r].computed = c, req'[r].wrong = req[r].wrong,
           \A i \in 1 .. Len(hit) : Within(c, i) <= filled[hit[i]] \/ Coming(hit[i]),
           \A i \in 1 .. Len(t) : i > Len(hit) => Within(c, i) = 0 \/ i \in sch'.sync[r]
    PROVE  RightEntries'
<1> DEFINE one == {r}
<1>1. /\ DOMAIN t = 1 .. Len(t) /\ Len(t) \in Nat /\ Len(hit) \in Nat
      /\ \A i \in 1 .. Len(t) : t[i] \in Blocks
      /\ table'[r] = t /\ \A s \in Requests : s # r => table'[s] = table[s]
      /\ \A b \in Blocks : b \notin new => filled'[b] = filled[b]
      /\ \A s \in Requests : \A b \in Held(s) : b \notin new
      /\ \A i \in 1 .. Len(hit) : hit[i] \notin new /\ i \in 1 .. Len(t) /\ t[i] = hit[i]
      /\ \A b \in Blocks : key'[b] # NoKey =>
            \/ b \notin new /\ key'[b] = key[b]
            \/ \E i \in 1 .. Len(t) : t[i] = b /\ i * BlockSize <= total
  <2>1. TypeOK /\ Allocated(r, hit, total, total, new, t) /\ AllocatedKeys(r, hit, total, new, t)
        /\ IsInjective(hit)
    OBVIOUS
  <2>2. QED BY ONLY <2>1, r \in Requests, hit \in Seq(Blocks), total \in Int, AllocatedKeep
<1>2. phase \in Planning /\ phase' \in Planning /\ phase # "execute"
  BY DEF Planning
<1>3. \A s \in Requests \ one : Before(s)' = Before(s) /\ Behind(s)' = Behind(s)
  BY DEF Before, Behind
<1>4. Before(r)' = c /\ Behind(r)' = total
  BY <1>2 DEF Before, Behind
<1>5. \A b \in Blocks : Coming(b) => Coming(b)'
  <2>1. \A s \in Requests \ one : table'[s] = table[s] /\ sch'.sync[s] = sch.sync[s]
    BY <1>1
  <2>2. \A s \in one : sch.num[s] <= 0 /\ sch.sync[s] = {}
    OBVIOUS
  <2> HIDE DEF one
  <2>3. QED BY <1>2, <1>3, <2>1, <2>2, ComingKept
<1>6. ASSUME NEW i \in 1 .. Len(t), Brings(r, i)' PROVE Coming(t[i])'
  BY <1>1, <1>2, <1>6 DEF Coming
<1>7. filled \in [Blocks -> 0 .. BlockSize] /\ filled' \in [Blocks -> 0 .. BlockSize] /\ BlockSize \in Nat
  BY ConstantTypes DEF TypeOK, Allocated
<1>8. ASSUME NEW i \in 1 .. Len(t)
      PROVE  Within(c, i) <= filled'[t[i]] \/ Coming(t[i])'
  <2>1. CASE i <= Len(hit)
    <3>1. i \in 1 .. Len(hit)
      BY <1>1, <2>1
    <3>2. t[i] = hit[i] /\ filled'[t[i]] = filled[t[i]] /\ t[i] \in Blocks
      BY <1>1, <3>1
    <3>3. QED BY <1>5, <3>1, <3>2
  <2>2. CASE i > Len(hit)
    <3>1. CASE Within(c, i) = 0
      <4>1. filled'[t[i]] \in 0 .. BlockSize
        BY <1>1, <1>7
      <4>2. QED BY <1>7, <3>1, <4>1
    <3>2. CASE i \in sch'.sync[r]
      <4>1. Brings(r, i)'
        BY <3>2 DEF Brings
      <4>2. QED BY <1>6, <4>1
    <3>3. QED BY <2>2, <3>1, <3>2
  <2>3. QED BY <1>1, <2>1, <2>2
<1>9. Counted(r)' /\ Loaded(r)'
  <2>1. Counted(r)'
    BY <1>1, <1>4, <1>8 DEF Counted, Within
  <2>2. QED BY <2>1 DEF Loaded
<1>10. ASSUME NEW b \in Blocks, key'[b] # NoKey PROVE filled'[b] = BlockSize \/ Coming(b)'
  <2>1. CASE b \notin new /\ key'[b] = key[b]
    <3>1. filled[b] = BlockSize \/ Coming(b)
      BY <1>2, <1>10, <2>1 DEF RightEntries, Offered, Planning
    <3>2. QED BY <1>1, <1>5, <2>1, <3>1
  <2>2. CASE \E i \in 1 .. Len(t) : t[i] = b /\ i * BlockSize <= total
    <3>1. PICK i \in 1 .. Len(t) : t[i] = b /\ i * BlockSize <= total
      BY <2>2
    <3>2. i \in Int /\ i * BlockSize \in Int
      BY <1>1, <1>7
    <3>3. CASE c < i * BlockSize
      <4>1. Brings(r, i)'
        BY <1>4, <3>1, <3>3 DEF Brings
      <4>2. QED BY <1>6, <3>1, <4>1
    <3>4. CASE i * BlockSize <= c
      <4>1. Within(c, i) = BlockSize
        BY <3>2, <3>4, WithinFacts
      <4>2. BlockSize <= filled'[b] \/ Coming(b)'
        BY <1>8, <3>1, <4>1
      <4>3. filled'[b] \in 0 .. BlockSize
        BY <1>7
      <4>4. QED BY <1>7, <4>2, <4>3
    <3>5. QED BY <3>2, <3>3, <3>4
  <2>3. QED BY <1>1, <1>10, <2>1, <2>2
<1>11. \A b \in Blocks : Offered(b)'
  BY <1>10 DEF Offered, NoKey
<1>12. /\ one \in SUBSET Requests /\ phase \in Planning \cup {"engine"}
       /\ phase' \in Planning \cup {"engine"}
  BY <1>2
<1>13. \A s \in Requests \ one :
              /\ table'[s] = table[s] /\ req'[s] = req[s] /\ load'[s] = load[s]
              /\ s \in failed_recving_kv_req_ids => s \in failed_recving_kv_req_ids'
              /\ \A b \in Held(s) : filled'[b] = filled[b]
  <2>1. \A s \in Requests : Held(s) \subseteq Blocks
    BY StateTypes
  <2>2. QED BY <1>1, <2>1
<1>14. \A s \in one : Counted(s)' /\ Loaded(s)' /\ req'[s].wrong = req[s].wrong
  BY <1>9
<1> HIDE DEF one
<1>15. QED BY <1>5, <1>11, <1>12, <1>13, <1>14, PlanningEntries

LEMMA EntriesOfRunningSchedule ==
    TransferInv /\ EntriesInv /\ RunningSchedule => EntriesInv'
<1> SUFFICES ASSUME TransferInv, EntriesInv, RunningSchedule, Careful
             PROVE  InOrder' /\ RightEntries'
  BY DEF EntriesInv, Careful, RunningSchedule
<1>1. InOrder /\ RightEntries /\ TypeOK /\ QueuesAgree /\ ScheduleStages
  BY DEF EntriesInv, TransferInv
<1>2. PICK r : r = running[sch.index]
  OBVIOUS
<1>3. PICK c, n : c = req[r].computed /\ n = NewTokens(r, c)
  OBVIOUS
<1>4. PICK hit : hit = table[r]
  OBVIOUS
<1>5. PICK total : total = c + n
  OBVIOUS
<1>6. InRunningLoop
  BY DEF RunningSchedule
<1>7. /\ r \in Requests /\ sch.index \in DOMAIN running /\ r \in ToSet(running)
      /\ DOMAIN running \subseteq Int
  BY <1>1, <1>2, <1>6, RunningRequest DEF ToSet
<1>8. /\ phase = "running" /\ phase' = phase
      /\ sch' = [sch EXCEPT !.index = sch.index + 1, !.num[r] = n]
      /\ req' = req /\ waiting' = waiting /\ running' = running /\ cfg' = cfg /\ load' = load
      /\ failed_recving_kv_req_ids' = failed_recving_kv_req_ids
      /\ Allocate(r, hit, total, total)
  BY <1>2, <1>3, <1>4, <1>5 DEF RunningSchedule, InRunningLoop, engineVars, recvVars, workerVars
<1>9. /\ c \in Int /\ n \in Int /\ total \in Int /\ hit \in Seq(Blocks)
      /\ req[r].status = "RUNNING" /\ total <= total
  <2>1. c \in Int /\ hit \in Seq(Blocks) /\ req[r].status = "RUNNING"
    BY <1>1, <1>3, <1>4, <1>7, StateTypes DEF QueuesAgree
  <2>2. n \in Int
    BY <1>1, <1>3, <1>7, <2>1, NewTokensType
  <2>3. QED BY <1>5, <2>1, <2>2
<1>10. PICK new, t : /\ Allocated(r, hit, total, total, new, t)
                     /\ AllocatedKeys(r, hit, total, new, t)
  BY <1>1, <1>7, <1>8, <1>9, AllocateFacts
<1>11. /\ sch'.num = [sch.num EXCEPT ![r] = n] /\ sch'.skipped = sch.skipped
       /\ sch'.sync = sch.sync /\ sch'.num[r] = n
       /\ \A s \in Requests : s # r => sch'.num[s] = sch.num[s]
  BY <1>1, <1>7, <1>8 DEF TypeOK
<1>12. sch.num[r] = 0 /\ \A s \in Requests : sch.sync[s] = {}
  <2>1. \A i \in DOMAIN running : running[i] = r => ~(i < sch.index)
    BY <1>1, <1>2, <1>7 DEF QueuesAgree, NoDuplicates
  <2>2. QED BY <1>1, <1>7, <1>8, <2>1 DEF ScheduleStages
<1>13. /\ IsInjective(hit) /\ c <= Len(hit) * BlockSize /\ r \notin failed_recving_kv_req_ids
  BY <1>1, <1>3, <1>4, <1>7, <1>9 DEF InOrder, TablesInOrder, FailuresRemembered, Counts
<1>14. /\ total <= Len(t) * BlockSize /\ Len(hit) * BlockSize <= Len(t) * BlockSize
       /\ Len(t) * BlockSize \in Int /\ Len(hit) * BlockSize \in Int
  BY <1>1, <1>7, <1>9, <1>10, AllocatedCovers
<1>15. /\ IsInjective(t) /\ DOMAIN t = 1 .. Len(t) /\ Len(t) \in Nat /\ Len(hit) \in Nat
       /\ table'[r] = t /\ \A s \in Requests : s # r => table'[s] = table[s]
  <2>1. TypeOK /\ IsInjective(hit) /\ r \in Requests /\ hit \in Seq(Blocks) /\ total \in Int
    BY <1>1, <1>7, <1>9, <1>13
  <2>2. QED BY ONLY <2>1, <1>10, AllocatedKeep
<1> DEFINE one == {r}
<1>16. \A s \in Requests \ one : Before(s)' = Before(s) /\ Behind(s)' = Behind(s)
  BY <1>8, <1>11 DEF Before, Behind
<1>17. OwnBlocks'
  <2>1. ASSUME ~cfg.async, NEW i \in 1 .. Len(hit)
        PROVE  /\ \A s \in Requests \ {r} : hit[i] \notin Held(s)
               /\ key[hit[i]] \in {NoKey, Key(r, i)}
    <3>1. i \in DOMAIN table[r] /\ hit[i] \in Held(r) /\ hit[i] = table[r][i]
      BY <1>4, <1>9 DEF Held
    <3>2. QED BY <1>1, <1>7, <2>1, <3>1 DEF InOrder, OwnBlocks
  <2>2. OwnBlocks
    BY <1>1 DEF InOrder
  <2>3. QED BY <1>1, <1>7, <1>8, <1>9, <1>10, <1>13, <2>1, <2>2, AllocatedOwn
<1>18. OrderOf(r)'
  <2>1. Behind(r)' = total
    BY <1>3, <1>5, <1>8, <1>11 DEF Behind, Planning
  <2>2. c <= Len(t) * BlockSize
    BY <1>9, <1>13, <1>14
  <2>3. QED BY <1>3, <1>7, <1>8, <1>9, <1>11, <1>12, <1>13, <1>14, <1>15, <2>1, <2>2
            DEF OrderOf, Waits
<1>19. InOrder'
  <2>1. /\ one \in SUBSET Requests /\ phase' \notin {"execute", "invalid"}
        /\ phase' \in Planning => phase \in Planning
    BY <1>7, <1>8
  <2>2. failed_recving_kv_req_ids' \subseteq Requests
    BY <1>1, <1>8 DEF TypeOK
  <2>3. \A s \in one : OrderOf(s)'
    BY <1>18
  <2>4. \A s \in Requests \ one :
              /\ table'[s] = table[s] /\ req'[s] = req[s]
              /\ sch'.sync[s] = sch.sync[s] /\ sch'.num[s] = sch.num[s]
              /\ s \in failed_recving_kv_req_ids' => s \in failed_recving_kv_req_ids
              /\ s \in ToSet(running) => s \in ToSet(running')
              /\ s \in ToSet(sch.skipped) \cup ToSet(waiting) =>
                    s \in ToSet(sch'.skipped) \cup ToSet(waiting')
    BY <1>8, <1>11, <1>15
  <2> HIDE DEF one
  <2>5. QED BY <1>1, <1>8, <1>16, <1>17, <2>1, <2>2, <2>3, <2>4, PlanningOrder
<1>20. RightEntries'
  <2>1. \A i \in 1 .. Len(hit) : Within(c, i) <= filled[hit[i]] \/ Coming(hit[i])
    <3>1. Before(r) = c
      BY <1>3, <1>8 DEF Before
    <3>2. DOMAIN table[r] = 1 .. Len(hit)
      BY <1>4, <1>9
    <3>3. \A i \in DOMAIN table[r] :
            Within(Before(r), i) <= filled[table[r][i]] \/ Coming(table[r][i])
      BY <1>1, <1>7, <1>8, <1>9 DEF RightEntries, Counted, Counts
    <3>4. QED BY <1>4, <3>1, <3>2, <3>3
  <2>2. \A i \in 1 .. Len(t) : i > Len(hit) => Within(c, i) = 0
    BY <1>9, <1>13, <1>15, WithinBehind
  <2>3. \A s \in Requests \ {r} :
              req'[s] = req[s] /\ sch'.num[s] = sch.num[s] /\ sch'.sync[s] = sch.sync[s]
    BY <1>8, <1>11
  <2>4. /\ sch.num[r] <= 0 /\ sch.sync[r] = {} /\ c + sch'.num[r] = total
        /\ req'[r].status = "RUNNING" /\ req'[r].computed = c /\ req'[r].wrong = req[r].wrong
    BY <1>3, <1>5, <1>7, <1>8, <1>9, <1>11, <1>12
  <2>5. QED BY <1>1, <1>7, <1>8, <1>9, <1>10, <1>13, <2>1, <2>2, <2>3, <2>4, ScheduledEntries
<1>21. QED BY <1>19, <1>20

LEMMA WholeQuotient ==
    ASSUME NEW h \in Int
    PROVE  (h * BlockSize) \div BlockSize = h
<1> DEFINE x == h * BlockSize
           q == x \div BlockSize
<1>1. BlockSize \in Nat /\ BlockSize > 0 /\ x \in Int
  BY ConstantTypes
<1>2. q \in Int
  BY <1>1
<1>3. h <= q
  BY <1>1, WholeBlocks
<1>4. q * BlockSize <= x
  BY <1>1, <1>2, WholeBlocks
<1> HIDE DEF q
<1>5. ~(h * BlockSize < q * BlockSize)
  BY <1>1, <1>2, <1>4
<1>6. ~(h < q)
  BY <1>1, <1>2, <1>5, Monotone
<1>7. h = q
  BY <1>2, <1>3, <1>6
<1>8. QED BY <1>7 DEF q

\* A load inside a step is of whole blocks, behind those that were in the cache.
LEMMA StepLoadBlocks ==
    ASSUME NEW h \in Nat, NEW c \in Int, c % BlockSize = 0
    PROVE  /\ \A i \in Positions(h * BlockSize, c) : i * BlockSize <= c
           /\ \A i \in Int : i > h => Within(c, i) = 0 \/ i \in Positions(h * BlockSize, c)
<1> DEFINE d == CeilDiv(c, BlockSize)
           q == c \div BlockSize
<1>1. BlockSize \in Nat /\ BlockSize > 0
  BY ConstantTypes
<1>2. d \in Int /\ c <= d * BlockSize /\ (d - 1) * BlockSize < c
  BY <1>1, CeilDivFacts
<1>3. Positions(h * BlockSize, c) = h + 1 .. d
  BY WholeQuotient DEF Positions
<1>4. q \in Int /\ c = q * BlockSize
  <2>1. c = (q * BlockSize) + (c % BlockSize) /\ q \in Int
    BY <1>1
  <2> HIDE DEF q
  <2>2. q * BlockSize \in Int
    BY <1>1, <2>1
  <2>3. QED BY <2>1, <2>2
<1> HIDE DEF d
<1>5. ASSUME NEW i \in h + 1 .. d PROVE i * BlockSize <= c
  <2> DEFINE e == d - 1
  <2>1. e \in Int /\ e * BlockSize < q * BlockSize
    BY <1>2, <1>4
  <2> HIDE DEF e, q
  <2>2. e < q
    BY <1>1, <1>4, <2>1, Monotone
  <2>3. i <= q /\ i \in Int
    BY <1>2, <1>4, <1>5, <2>2 DEF e
  <2>4. ~(q * BlockSize < i * BlockSize) /\ i * BlockSize \in Int /\ q * BlockSize \in Int
    BY <1>1, <1>4, <2>3, Monotone
  <2>5. QED BY <1>4, <2>4
<1>6. ASSUME NEW i \in Int, i > h PROVE Within(c, i) = 0 \/ i \in h + 1 .. d
  <2>1. CASE i > d
    BY <1>2, <2>1, WithinBehind
  <2>2. CASE i <= d
    BY <1>2, <1>6, <2>2
  <2>3. QED BY <1>2, <2>1, <2>2
<1>7. QED BY <1>3, <1>5, <1>6

\* What an admitted request starts with: entries that are there, that come with the
\* step, or that the step loads; in blocks of its own if no block is common.
LEMMA AdmittedFacts ==
    ASSUME TypeOK, WaitingHasWork, Careful, InOrder, RightEntries, phase = "waiting",
           NEW r \in Requests, req[r].status \in {"WAITING", "PREEMPTED"},
           NEW hit \in Seq(Blocks), NEW c \in Int, NEW sync, AdmittedWith(r, hit, c, sync)
    PROVE  /\ IsInjective(hit) /\ NewTokens(r, c) >= 1
           /\ \A i \in 1 .. Len(hit) : Within(c, i) <= filled[hit[i]] \/ Coming(hit[i])
           /\ \A i \in Int : i > Len(hit) => Within(c, i) = 0 \/ i \in sync
           /\ \A i \in sync : i * BlockSize <= c
           /\ sync # {} => req[r].cached = NotScheduledYet
           /\ ~cfg.async => \A i \in 1 .. Len(hit) :
                /\ \A s \in Requests \ {r} : hit[i] \notin Held(s)
                /\ key[hit[i]] \in {NoKey, Key(r, i)}
<1>1. /\ BlockSize \in Nat /\ BlockSize > 0 /\ Chunk \in Nat /\ Chunk >= 1
      /\ req[r].tokens \in Nat /\ req[r].computed \in Int /\ cfg \in Configs
      /\ Len(hit) \in Nat /\ DOMAIN hit = 1 .. Len(hit)
      /\ \A i \in 1 .. Len(hit) : i \in Nat \ {0} /\ hit[i] \in Blocks
  <2>1. Chunk \in Nat \ {0}
    BY ConfigAssumption
  <2>2. Len(hit) \in Nat /\ DOMAIN hit = 1 .. Len(hit) /\ \A i \in 1 .. Len(hit) : hit[i] \in Blocks
    OBVIOUS
  <2>3. QED BY <2>1, <2>2, ConstantTypes, StateTypes
<1>2. \A b \in Blocks : filled[b] \in 0 .. BlockSize
  BY DEF TypeOK
<1>3. \A i \in Int : Within(c, i) \in 0 .. BlockSize
  BY WithinType
<1> DEFINE Goal == /\ IsInjective(hit) /\ c < req[r].tokens
                   /\ \A i \in 1 .. Len(hit) : Within(c, i) <= filled[hit[i]] \/ Coming(hit[i])
                   /\ \A i \in Int : i > Len(hit) => Within(c, i) = 0 \/ i \in sync
                   /\ \A i \in sync : i * BlockSize <= c
                   /\ sync # {} => req[r].cached = NotScheduledYet
                   /\ ~cfg.async => \A i \in 1 .. Len(hit) :
                        /\ \A s \in Requests \ {r} : hit[i] \notin Held(s)
                        /\ key[hit[i]] \in {NoKey, Key(r, i)}
<1>4. ASSUME req[r].computed > 0, hit = table[r], c = req[r].computed, sync = {} PROVE Goal
  <2>1. IsInjective(hit) /\ c <= Len(hit) * BlockSize
    BY <1>4 DEF InOrder, TablesInOrder, Counts
  <2>2. c < req[r].tokens
    BY <1>4 DEF WaitingHasWork
  <2>3. \A i \in 1 .. Len(hit) : Within(c, i) <= filled[hit[i]] \/ Coming(hit[i])
    <3>1. \A i \in DOMAIN table[r] :
            Within(Before(r), i) <= filled[table[r][i]] \/ Coming(table[r][i])
      BY DEF RightEntries, Counted, Counts
    <3>2. Before(r) = c
      BY <1>4 DEF Before
    <3>3. QED BY <1>1, <1>4, <3>1, <3>2
  <2>4. \A i \in Int : i > Len(hit) => Within(c, i) = 0
    <3> DEFINE h == Len(hit)
    <3>1. h \in Int /\ c <= h * BlockSize
      BY <1>1, <2>1
    <3> HIDE DEF h
    <3>2. \A i \in Int : i > h => Within(c, i) = 0
      BY <3>1, WithinBehind
    <3>3. QED BY <3>2 DEF h
  <2>5. ASSUME ~cfg.async, NEW i \in 1 .. Len(hit)
        PROVE  /\ \A s \in Requests \ {r} : hit[i] \notin Held(s)
               /\ key[hit[i]] \in {NoKey, Key(r, i)}
    <3>1. i \in DOMAIN table[r] /\ hit[i] \in Held(r) /\ hit[i] = table[r][i]
      BY <1>1, <1>4 DEF Held
    <3>2. QED BY <2>5, <3>1 DEF InOrder, OwnBlocks
  <2>6. QED BY <1>4, <2>1, <2>2, <2>3, <2>4, <2>5
<1>5. ASSUME hit = LocalHit(r)
      PROVE  /\ IsInjective(hit) /\ Len(hit) * BlockSize < req[r].tokens
             /\ \A i \in 1 .. Len(hit) : key[hit[i]] = Key(r, i)
             /\ \A i \in 1 .. Len(hit) : Within(c, i) <= filled[hit[i]] \/ Coming(hit[i])
             /\ ~cfg.async => \A i \in 1 .. Len(hit) :
                /\ \A s \in Requests \ {r} : hit[i] \notin Held(s)
                /\ key[hit[i]] \in {NoKey, Key(r, i)}
  <2>1. IsInjective(hit)
    BY <1>5, LocalHitInjective
  <2>2. /\ Len(hit) * BlockSize < req[r].tokens
        /\ \A i \in 1 .. Len(hit) : key[hit[i]] = Key(r, i) /\ key[hit[i]] # NoKey
    BY <1>5, LocalHitFacts
  <2>3. ASSUME NEW i \in 1 .. Len(hit)
        PROVE  Within(c, i) <= filled[hit[i]] \/ Coming(hit[i])
    <3>1. filled[hit[i]] = BlockSize \/ Coming(hit[i])
      BY <1>1, <2>2 DEF RightEntries, Offered
    <3>2. Within(c, i) \in 0 .. BlockSize
      BY <1>1, <1>3
    <3>3. QED BY <1>1, <3>1, <3>2
  <2>4. ASSUME ~cfg.async, NEW i \in 1 .. Len(hit), NEW s \in Requests \ {r}, hit[i] \in Held(s)
        PROVE  FALSE
    <3>1. PICK j \in DOMAIN table[s] : table[s][j] = hit[i]
      BY <2>4 DEF Held
    <3>2. j \in Nat \ {0} /\ key[hit[i]] \in {NoKey, Key(s, j)}
      BY <2>4, <3>1, StateTypes DEF InOrder, OwnBlocks
    <3>3. Key(r, i) = Key(s, j) /\ cfg.shared < BlockSize
      BY <2>2, <2>4, <3>2 DEF Careful
    <3>4. QED BY <1>1, <3>2, <3>3, KeysDiffer
  <2>5. QED BY <2>1, <2>2, <2>3, <2>4
<1>6. ASSUME req[r].computed = 0, hit = LocalHit(r), c = Len(hit) * BlockSize, sync = {} PROVE Goal
  <2>1. \A i \in Int : i > Len(hit) => Within(c, i) = 0
    BY <1>1, <1>6, WithinBehind
  <2>2. QED BY <1>5, <1>6, <2>1
<1>7. ASSUME req[r].computed = 0, ~cfg.async, hit = LocalHit(r),
             \E n \in External(r, Len(hit) * BlockSize) :
                 /\ c = Len(hit) * BlockSize + n
                 /\ sync = Positions(Len(hit) * BlockSize, c)
      PROVE  Goal
  <2>1. PICK n \in External(r, Len(hit) * BlockSize) :
                 /\ c = Len(hit) * BlockSize + n
                 /\ sync = Positions(Len(hit) * BlockSize, c)
    BY <1>7
  <2>2. MayLoad(r) /\ c % BlockSize = 0 /\ c < req[r].tokens
    BY <1>7, <2>1 DEF External
  <2>3. req[r].cached = NotScheduledYet
    <3>1. ~req[r].preempted
      BY <1>7, <2>2 DEF MayLoad, Careful
    <3>2. QED BY <1>7, <3>1 DEF InOrder, StepLoads, Waits
  <2>4. /\ \A i \in sync : i * BlockSize <= c
        /\ \A i \in Int : i > Len(hit) => Within(c, i) = 0 \/ i \in sync
    <3> DEFINE h == Len(hit)
    <3>1. h \in Nat /\ sync = Positions(h * BlockSize, c)
      BY <1>1, <2>1
    <3> HIDE DEF h
    <3>2. /\ \A i \in sync : i * BlockSize <= c
          /\ \A i \in Int : i > h => Within(c, i) = 0 \/ i \in sync
      BY <2>2, <3>1, StepLoadBlocks
    <3>3. QED BY <3>2 DEF h
  <2>5. QED BY <1>5, <1>7, <2>2, <2>3, <2>4
<1>8. Goal
  BY <1>4, <1>6, <1>7 DEF AdmittedWith
<1>9. NewTokens(r, c) >= 1
  BY <1>1, <1>8 DEF NewTokens, Least
<1>10. QED BY <1>8, <1>9

LEMMA EntriesOfWaitingAdmit ==
    TransferInv /\ EntriesInv /\ WaitingAdmit => EntriesInv'
<1> SUFFICES ASSUME TransferInv, EntriesInv, WaitingAdmit, Careful
             PROVE  InOrder' /\ RightEntries'
  BY DEF EntriesInv, Careful, WaitingAdmit
<1>1. /\ InOrder /\ RightEntries /\ TypeOK /\ QueuesAgree /\ ScheduleStages
      /\ WaitingHasWork /\ InvalidBlocksUnshared
  BY DEF EntriesInv, TransferInv
<1>2. PICK r \in Requests : r = Head(waiting)
  BY <1>1, WaitingAdmitFacts
<1>3. PICK hit, c, sync, new, t :
         /\ AdmittedWith(r, hit, c, sync)
         /\ Admit(r, hit, c, sync)
         /\ hit \in Seq(Blocks) /\ c \in Int /\ sync \in SUBSET (Nat \ {0})
         /\ Allocated(r, hit, c + NewTokens(r, c), c + NewTokens(r, c), new, t)
         /\ AllocatedKeys(r, hit, c + NewTokens(r, c), new, t)
  BY <1>1, <1>2, WaitingAdmitFacts
<1>4. PICK n, total : n = NewTokens(r, c) /\ total = c + n
  OBVIOUS
<1>5. /\ Allocated(r, hit, total, total, new, t) /\ AllocatedKeys(r, hit, total, new, t)
      /\ n \in Int /\ total \in Int
  <2>1. n \in Int
    BY <1>1, <1>3, <1>4, NewTokensType
  <2>2. QED BY <1>3, <1>4, <2>1
<1>6. /\ r \in ToSet(waiting) /\ req[r].status \in {"WAITING", "PREEMPTED"} /\ InWaitingLoop
      /\ phase = "waiting" /\ phase' = phase /\ cfg' = cfg /\ load' = load
      /\ failed_recving_kv_req_ids' = failed_recving_kv_req_ids
  BY <1>1, <1>2, WaitingAdmitFacts DEF WaitingAdmit, InWaitingLoop, recvVars, workerVars
<1>7. /\ sch' = [sch EXCEPT !.num[r] = n, !.sync[r] = sync]
      /\ req' = [req EXCEPT ![r].status = "RUNNING", ![r].computed = c,
                    ![r].cached = IF @ = NotScheduledYet THEN c ELSE @]
      /\ waiting' = Tail(waiting) /\ running' = Append(running, r)
  BY <1>3, <1>4 DEF Admit
<1>8. /\ IsInjective(hit) /\ n >= 1
      /\ \A i \in 1 .. Len(hit) : Within(c, i) <= filled[hit[i]] \/ Coming(hit[i])
      /\ \A i \in Int : i > Len(hit) => Within(c, i) = 0 \/ i \in sync
      /\ \A i \in sync : i * BlockSize <= c
      /\ sync # {} => req[r].cached = NotScheduledYet
      /\ ~cfg.async => \A i \in 1 .. Len(hit) :
           /\ \A s \in Requests \ {r} : hit[i] \notin Held(s)
           /\ key[hit[i]] \in {NoKey, Key(r, i)}
  BY <1>1, <1>3, <1>4, <1>6, AdmittedFacts
<1>9. /\ \A s \in Requests : s # r => req'[s] = req[s]
      /\ req'[r].status = "RUNNING" /\ req'[r].computed = c /\ req'[r].wrong = req[r].wrong
      /\ req[r].cached = NotScheduledYet => req'[r].cached = c
  <2>1. req \in [Requests -> RequestType]
    BY <1>1 DEF TypeOK, RequestType
  <2>2. QED BY <1>7, <2>1 DEF RequestType
<1>10. /\ sch'.skipped = sch.skipped /\ sch'.num[r] = n /\ sch'.sync[r] = sync
       /\ \A s \in Requests : s # r => sch'.num[s] = sch.num[s] /\ sch'.sync[s] = sch.sync[s]
  <2>1. sch \in ScheduleType
    BY <1>1 DEF TypeOK, ScheduleType
  <2>2. QED BY <1>7, <2>1 DEF ScheduleType
<1>11. sch.num[r] = 0 /\ sch.sync[r] = {} /\ r \notin failed_recving_kv_req_ids
  <2>1. sch.num[r] = 0 /\ r \notin failed_recving_kv_req_ids
    BY <1>1, <1>6 DEF ScheduleStages, InOrder, FailuresRemembered
  <2>2. \A i \in sch.sync[r] : sch.num[r] > 0
    BY <1>1, <1>6 DEF InOrder, StepLoads, Planning
  <2>3. QED BY <2>1, <2>2
<1>12. /\ total <= Len(t) * BlockSize /\ Len(t) * BlockSize \in Int
  BY <1>1, <1>3, <1>5, AllocatedCovers
<1>13. /\ IsInjective(t) /\ DOMAIN t = 1 .. Len(t) /\ Len(t) \in Nat /\ Len(hit) \in Nat
       /\ table'[r] = t /\ \A s \in Requests : s # r => table'[s] = table[s]
  <2>1. TypeOK /\ IsInjective(hit) /\ r \in Requests /\ hit \in Seq(Blocks) /\ total \in Int
    BY <1>1, <1>3, <1>5, <1>8
  <2>2. Allocated(r, hit, total, total, new, t) /\ AllocatedKeys(r, hit, total, new, t)
    BY <1>5
  <2>3. QED BY ONLY <2>1, <2>2, AllocatedKeep
<1>14. sync \subseteq DOMAIN t
  BY <1>1, <1>3, <1>13, AdmittedSync
<1> DEFINE one == {r}
<1>15. \A s \in Requests \ one : Before(s)' = Before(s) /\ Behind(s)' = Behind(s)
  BY <1>6, <1>9, <1>10 DEF Before, Behind
<1>16. OwnBlocks'
  <2>1. OwnBlocks
    BY <1>1 DEF InOrder
  <2>2. QED BY <1>1, <1>3, <1>5, <1>6, <1>8, <2>1, AllocatedOwn
<1>17. /\ ToSet(running') = ToSet(running) \cup {r}
       /\ ToSet(sch'.skipped) \cup ToSet(waiting') = (ToSet(sch.skipped) \cup ToSet(waiting)) \ {r}
  <2>1. running \in Seq(Requests)
    BY <1>1 DEF TypeOK
  <2>2. QED BY <1>1, <1>2, <1>6, <1>7, <1>10, <2>1, HeadLeaves, AppendElements
<1>18. OrderOf(r)'
  <2>1. Behind(r)' = total /\ Before(r)' = c
    BY <1>4, <1>6, <1>9, <1>10 DEF Before, Behind, Planning
  <2>2. c <= Len(t) * BlockSize
    BY <1>3, <1>4, <1>5, <1>8, <1>12
  <2>3. \A i \in sch'.sync[r] : i \in DOMAIN table'[r] /\ i * BlockSize <= c /\ req'[r].cached = c
    BY <1>8, <1>9, <1>10, <1>13, <1>14
  <2>4. sch'.num[r] > 0
    BY <1>5, <1>8, <1>10
  <2>5. req'[r].status \notin Waits \cup {"NONE"} /\ r \in ToSet(running')
    BY <1>9, <1>17 DEF Waits
  <2>6. r \notin failed_recving_kv_req_ids'
    BY <1>6, <1>11
  <2>7. QED BY <1>9, <1>12, <1>13, <2>1, <2>2, <2>3, <2>4, <2>5, <2>6 DEF OrderOf
<1>19. InOrder'
  <2>1. /\ one \in SUBSET Requests /\ phase' \notin {"execute", "invalid"}
        /\ phase' \in Planning => phase \in Planning
    BY <1>6
  <2>2. failed_recving_kv_req_ids' \subseteq Requests
    BY <1>1, <1>6 DEF TypeOK
  <2>3. \A s \in one : OrderOf(s)'
    BY <1>18
  <2>4. \A s \in Requests \ one :
              /\ table'[s] = table[s] /\ req'[s] = req[s]
              /\ sch'.sync[s] = sch.sync[s] /\ sch'.num[s] = sch.num[s]
              /\ s \in failed_recving_kv_req_ids' => s \in failed_recving_kv_req_ids
              /\ s \in ToSet(running) => s \in ToSet(running')
              /\ s \in ToSet(sch.skipped) \cup ToSet(waiting) =>
                    s \in ToSet(sch'.skipped) \cup ToSet(waiting')
    BY <1>6, <1>9, <1>10, <1>13, <1>17
  <2> HIDE DEF one
  <2>5. QED BY <1>1, <1>6, <1>15, <1>16, <2>1, <2>2, <2>3, <2>4, PlanningOrder
<1>20. RightEntries'
  <2>1. \A i \in 1 .. Len(t) : i > Len(hit) => Within(c, i) = 0 \/ i \in sch'.sync[r]
    BY <1>8, <1>10, <1>13
  <2>2. \A s \in Requests \ {r} :
              req'[s] = req[s] /\ sch'.num[s] = sch.num[s] /\ sch'.sync[s] = sch.sync[s]
    BY <1>9, <1>10
  <2>3. /\ sch.num[r] <= 0 /\ sch.sync[r] = {} /\ c + sch'.num[r] = total
        /\ req'[r].status = "RUNNING" /\ req'[r].computed = c /\ req'[r].wrong = req[r].wrong
    BY <1>4, <1>9, <1>10, <1>11
  <2>4. QED BY <1>1, <1>3, <1>5, <1>6, <1>8, <2>1, <2>2, <2>3, ScheduledEntries
<1>21. QED BY <1>19, <1>20

\* A load beside the steps is of the prompt, and of every block that was not in the cache.
LEMMA LoadedTable ==
    ASSUME TypeOK, cfg.async, NEW r \in Requests, NEW h \in Nat, NEW n \in External(r, h * BlockSize),
           NEW l \in Nat, l = h \/ l = CeilDiv(h * BlockSize + n, BlockSize)
    PROVE  /\ Least(l * BlockSize, req[r].tokens) <= PromptLen[r]
           /\ \A i \in 1 .. l : i > h => i \in Positions(h * BlockSize, h * BlockSize + n)
<1> DEFINE local == h * BlockSize
           total == local + n
           d == CeilDiv(total, BlockSize)
<1>1. /\ BlockSize \in Nat /\ BlockSize > 0 /\ local \in Nat /\ req[r].tokens \in Nat
      /\ PromptLen[r] \in Nat /\ l * BlockSize \in Nat
  BY ConstantTypes, StateTypes
<1>2. /\ n \in Int /\ n >= 1 /\ total <= PromptLen[r]
      /\ total % BlockSize = 0 \/ total = req[r].tokens
  <2> HIDE DEF local
  <2>1. n \in 1 .. req[r].tokens - local /\ total <= PromptLen[r]
        /\ (total % BlockSize = 0 \/ total = req[r].tokens)
    BY DEF External, local
  <2>2. QED BY <1>1, <2>1
<1>3. total \in Int /\ d \in Int
  <2>1. total \in Int
    BY <1>1, <1>2
  <2> HIDE DEF total
  <2>2. QED BY <1>1, <2>1, CeilDivFacts
<1>4. Positions(local, total) = h + 1 .. d
  BY WholeQuotient DEF Positions
<1>5. \A i \in 1 .. l : i > h => i \in Positions(local, total)
  <2> HIDE DEF d, local
  <2>1. l = h \/ l = d
    BY DEF d, local
  <2>2. QED BY <1>3, <1>4, <2>1
<1>6. Least(l * BlockSize, req[r].tokens) <= PromptLen[r]
  <2>1. CASE total = req[r].tokens
    <3> HIDE DEF total
    <3>1. QED BY <1>1, <1>2, <2>1 DEF Least
  <2>2. CASE total % BlockSize = 0
    <3>1. l * BlockSize <= total
      <4>1. CASE l = h
        BY <1>1, <1>2, <4>1
      <4>2. CASE l # h
        <5>1. (l = d /\ ~(d <= h)) \/ l < h
          BY <1>1, <1>3, <4>2
        <5>2. CASE l < h
          <6>1. l * BlockSize < h * BlockSize
            BY <1>1, <5>2, Monotone
          <6>2. QED BY <1>1, <1>2, <6>1
        <5>3. CASE l = d /\ ~(d <= h)
          <6> HIDE DEF d, total, local
          <6>1. l \in Positions(local, total)
            BY <1>3, <1>4, <5>3
          <6>2. QED BY <1>3, <2>2, <6>1, StepLoadBlocks DEF local
        <5>4. QED BY <5>1, <5>2, <5>3
      <4>3. QED BY <4>1, <4>2
    <3> HIDE DEF total
    <3>2. QED BY <1>1, <1>2, <1>3, <3>1 DEF Least
  <2>3. QED BY <1>2, <2>1, <2>2
<1>7. QED BY <1>5, <1>6

LEMMA EntriesOfWaitingLoad ==
    TransferInv /\ EntriesInv /\ WaitingLoad => EntriesInv'
<1> SUFFICES ASSUME TransferInv, EntriesInv, WaitingLoad, Careful
             PROVE  InOrder' /\ RightEntries'
  BY DEF EntriesInv, Careful, WaitingLoad
<1>1. /\ InOrder /\ RightEntries /\ TypeOK /\ QueuesAgree /\ ScheduleStages
      /\ InvalidBlocksUnshared
  BY DEF EntriesInv, TransferInv
<1>2. PICK r \in Requests : r = Head(waiting)
  BY <1>1, WaitingLoadFacts
<1>3. PICK hit, n, new, t :
         /\ hit = LocalHit(r) /\ n \in External(r, Len(hit) * BlockSize)
         /\ Loading(r, hit, n, new, t) /\ AllocatedKeys(r, hit, 0, new, t)
  BY <1>1, <1>2, WaitingLoadFacts
<1>4. PICK h, total : h = Len(hit) /\ total = h * BlockSize + n
  OBVIOUS
<1>5. /\ hit \in Seq(Blocks) /\ h \in Nat /\ IsInjective(hit)
      /\ \A i \in 1 .. h : hit[i] \in Blocks /\ key[hit[i]] # NoKey
  BY <1>1, <1>3, <1>4, LocalHitFacts, LocalHitInjective
<1>6. n \in Int /\ total \in Int
  <2> DEFINE local == h * BlockSize
  <2>1. local \in Int
    BY <1>5, ConstantTypes
  <2>2. n \in External(r, local) /\ total = local + n
    BY <1>3, <1>4
  <2> HIDE DEF local
  <2>3. n \in Int
    BY <2>1, <2>2 DEF External
  <2>4. QED BY <2>1, <2>2, <2>3
<1>7. /\ Allocated(r, hit, total, 0, new, t) /\ AllocatedKeys(r, hit, 0, new, t)
      /\ load' = [load EXCEPT ![r] = [i \in Positions(h * BlockSize, total) |-> t[i]]]
  BY <1>3, <1>4 DEF Loading
<1>8. /\ r \in ToSet(waiting) /\ req[r].status \in {"WAITING", "PREEMPTED"}
      /\ InWaitingLoop /\ cfg.async /\ SkipHead
      /\ phase = "waiting" /\ phase' = phase /\ cfg' = cfg /\ running' = running
      /\ failed_recving_kv_req_ids' = failed_recving_kv_req_ids
      /\ req' = [req EXCEPT ![r].status = "WAITING_FOR_REMOTE_KVS"]
  BY <1>1, <1>2, WaitingLoadFacts DEF WaitingLoad, InWaitingLoop, recvVars
<1>9. /\ \A s \in Requests : s # r => req'[s] = req[s]
      /\ req'[r].status = "WAITING_FOR_REMOTE_KVS" /\ req'[r].wrong = req[r].wrong
      /\ req'[r].tokens = req[r].tokens
  <2>1. req \in [Requests -> RequestType]
    BY <1>1 DEF TypeOK, RequestType
  <2>2. QED BY <1>8, <2>1 DEF RequestType
<1>10. /\ ToSet(sch'.skipped) \cup ToSet(waiting') = ToSet(sch.skipped) \cup ToSet(waiting)
       /\ sch'.num = sch.num /\ sch'.sync = sch.sync
  BY <1>1, <1>8, SkipHeadKeeps
<1>11. sch.num[r] = 0 /\ \A s \in Requests : sch.sync[s] = {}
  BY <1>1, <1>8 DEF ScheduleStages, InvalidBlocksUnshared
<1>12. /\ \A s \in Requests : s # r => load'[s] = load[s]
       /\ DOMAIN load'[r] = Positions(h * BlockSize, total)
  <2> DEFINE l == [i \in Positions(h * BlockSize, total) |-> t[i]]
  <2>1. load' = [load EXCEPT ![r] = l] /\ load = [s \in Requests |-> load[s]]
    BY <1>1, <1>7 DEF TypeOK
  <2>2. DOMAIN l = Positions(h * BlockSize, total)
    OBVIOUS
  <2> HIDE DEF l
  <2>3. QED BY <2>1, <2>2
<1>13. /\ IsInjective(t) /\ DOMAIN t = 1 .. Len(t) /\ Len(t) \in Nat
       /\ \A i \in 1 .. Len(t) : t[i] \in Blocks
       /\ table'[r] = t /\ \A s \in Requests : s # r => table'[s] = table[s]
       /\ \A b \in Blocks : b \notin new => filled'[b] = filled[b]
       /\ \A s \in Requests : \A b \in Held(s) : b \notin new
       /\ \A i \in 1 .. Len(hit) : hit[i] \notin new /\ i \in 1 .. Len(t) /\ t[i] = hit[i]
  <2>1. TypeOK /\ IsInjective(hit) /\ r \in Requests /\ hit \in Seq(Blocks) /\ 0 \in Int
    BY <1>1, <1>5
  <2>2. Allocated(r, hit, total, 0, new, t) /\ AllocatedKeys(r, hit, 0, new, t)
    BY <1>7
  <2>3. /\ IsInjective(t) /\ DOMAIN t = 1 .. Len(t) /\ Len(t) \in Nat
        /\ \A i \in 1 .. Len(t) : t[i] \in Blocks
        /\ table'[r] = t /\ \A s \in Requests : s # r => table'[s] = table[s]
    BY ONLY <2>1, <2>2, AllocatedKeep
  <2>4. /\ \A b \in Blocks : b \notin new => filled'[b] = filled[b]
        /\ \A s \in Requests : \A b \in Held(s) : b \notin new
        /\ \A i \in 1 .. Len(hit) : hit[i] \notin new /\ i \in 1 .. Len(t) /\ t[i] = hit[i]
    BY ONLY <2>1, <2>2, AllocatedKeep
  <2>5. QED BY <2>3, <2>4
<1>14. \A b \in Blocks : key'[b] = IF b \in new THEN NoKey ELSE key[b]
  BY <1>7 DEF Allocated
<1>15. /\ Least(Len(t) * BlockSize, req[r].tokens) <= PromptLen[r]
       /\ \A i \in 1 .. Len(t) : i > h => i \in Positions(h * BlockSize, total)
  <2>1. Len(t) = h \/ Len(t) = CeilDiv(h * BlockSize + n, BlockSize)
    BY <1>1, <1>4, <1>5, <1>6, <1>7, AllocatedLength
  <2>2. QED BY <1>1, <1>3, <1>4, <1>5, <1>8, <1>13, <2>1, LoadedTable
<1> DEFINE one == {r}
<1>16. \A s \in Requests \ one : Before(s)' = Before(s) /\ Behind(s)' = Behind(s)
  BY <1>8, <1>9, <1>10 DEF Before, Behind
<1>17. \A b \in Blocks : Coming(b) => Coming(b)'
  <2>1. phase \in Planning /\ phase' \in Planning \cup {"execute"} /\ phase # "execute"
    BY <1>8 DEF Planning
  <2>2. \A s \in one : sch.num[s] <= 0 /\ sch.sync[s] = {}
    BY <1>11
  <2>3. \A s \in Requests \ one : table'[s] = table[s] /\ sch'.sync[s] = sch.sync[s]
    BY <1>10, <1>13
  <2> HIDE DEF one
  <2>4. QED BY <1>1, <1>16, <2>1, <2>2, <2>3, ComingKept
<1>18. \A b \in Blocks : Offered(b)'
  <2> SUFFICES ASSUME NEW b \in Blocks, key'[b] # NoKey PROVE filled'[b] = BlockSize \/ Coming(b)'
    BY DEF Offered, NoKey
  <2>1. b \notin new /\ key[b] # NoKey
    BY <1>14
  <2>2. filled[b] = BlockSize \/ Coming(b)
    BY <1>1, <1>8, <2>1 DEF RightEntries, Offered
  <2>3. QED BY <1>13, <1>17, <2>1, <2>2
<1>19. Counted(r)' /\ Loaded(r)'
  <2>1. ASSUME NEW i \in 1 .. Len(t)
        PROVE  \/ Within(PromptLen[r], i) <= filled'[t[i]]
               \/ Coming(t[i])'
               \/ i \in DOMAIN load'[r]
    <3>1. CASE i <= h
      <4>1. i \in 1 .. h
        BY <1>5, <3>1
      <4>2. t[i] = hit[i] /\ t[i] \in Blocks /\ t[i] \notin new /\ key[t[i]] # NoKey
        BY <1>4, <1>5, <1>13, <4>1
      <4>3. filled[t[i]] = BlockSize \/ Coming(t[i])
        BY <1>1, <1>8, <4>2 DEF RightEntries, Offered
      <4>4. Within(PromptLen[r], i) \in 0 .. BlockSize
        <5>1. PromptLen[r] \in Int /\ i \in Int
          BY ConstantTypes
        <5>2. QED BY <5>1, WithinType
      <4>5. filled'[t[i]] = filled[t[i]] /\ (Coming(t[i]) => Coming(t[i])')
        BY <1>13, <1>17, <4>2
      <4>6. Within(PromptLen[r], i) <= BlockSize
        BY <4>4, ConstantTypes
      <4>7. QED BY <4>3, <4>5, <4>6
    <3>2. CASE i > h
      BY <1>12, <1>15, <3>2
    <3>3. QED BY <1>5, <3>1, <3>2
  <2>2. Loaded(r)'
    BY <1>9, <1>13, <1>15, <2>1 DEF Loaded, Within
  <2>3. Counted(r)'
    BY <1>9 DEF Counted, Counts
  <2>4. QED BY <2>2, <2>3
<1>20. OrderOf(r)'
  <2>1. req'[r].status \notin Counts /\ req'[r].status # "RUNNING"
    BY <1>9 DEF Counts
  <2>2. r \in ToSet(sch'.skipped) \cup ToSet(waiting')
    BY <1>8, <1>10
  <2>3. sch'.sync[r] = {} /\ cfg'.async
    BY <1>8, <1>10, <1>11
  <2>4. QED BY <1>9, <1>13, <2>1, <2>2, <2>3 DEF OrderOf
<1>21. InOrder'
  <2>1. /\ one \in SUBSET Requests /\ phase' \notin {"execute", "invalid"}
        /\ phase' \in Planning => phase \in Planning
    BY <1>8
  <2>2. failed_recving_kv_req_ids' \subseteq Requests
    BY <1>1, <1>8 DEF TypeOK
  <2>3. \A s \in one : OrderOf(s)'
    BY <1>20
  <2>4. \A s \in Requests \ one :
              /\ table'[s] = table[s] /\ req'[s] = req[s]
              /\ sch'.sync[s] = sch.sync[s] /\ sch'.num[s] = sch.num[s]
              /\ s \in failed_recving_kv_req_ids' => s \in failed_recving_kv_req_ids
              /\ s \in ToSet(running) => s \in ToSet(running')
              /\ s \in ToSet(sch.skipped) \cup ToSet(waiting) =>
                    s \in ToSet(sch'.skipped) \cup ToSet(waiting')
    BY <1>8, <1>9, <1>10, <1>13
  <2>5. OwnBlocks'
    BY <1>8 DEF OwnBlocks
  <2> HIDE DEF one
  <2>6. QED BY <1>1, <1>8, <1>16, <2>1, <2>2, <2>3, <2>4, <2>5, PlanningOrder
<1>22. RightEntries'
  <2>1. one \in SUBSET Requests /\ phase \in Planning \cup {"engine"} /\ phase' \in Planning \cup {"engine"}
    BY <1>8 DEF Planning
  <2>2. \A s \in Requests \ one :
              /\ table'[s] = table[s] /\ req'[s] = req[s] /\ load'[s] = load[s]
              /\ s \in failed_recving_kv_req_ids => s \in failed_recving_kv_req_ids'
              /\ \A b \in Held(s) : filled'[b] = filled[b]
    <3>1. \A s \in Requests : Held(s) \subseteq Blocks
      BY <1>1, StateTypes
    <3>2. QED BY <1>8, <1>9, <1>12, <1>13, <3>1
  <2>3. \A s \in one : Counted(s)' /\ Loaded(s)' /\ req'[s].wrong = req[s].wrong
    BY <1>9, <1>19
  <2> HIDE DEF one
  <2>4. QED BY <1>1, <1>8, <1>17, <1>18, <2>1, <2>2, <2>3, PlanningEntries
<1>23. QED BY <1>21, <1>22

LEMMA EntriesOfRemoteReady ==
    TransferInv /\ EntriesInv /\ RemoteReady => EntriesInv'
<1> SUFFICES ASSUME TransferInv, EntriesInv, RemoteReady, Careful
             PROVE  InOrder' /\ RightEntries'
  BY DEF EntriesInv, Careful, RemoteReady
<1>1. /\ InOrder /\ RightEntries /\ TypeOK /\ QueuesAgree /\ ScheduleStages
      /\ InvalidBlocksUnshared /\ LoadsUnderWay /\ RemoteHasWork
  BY DEF EntriesInv, TransferInv
<1>2. PICK r : r = Head(waiting)
  OBVIOUS
<1>3. PICK n : n = IF r \in failed_recving_kv_req_ids THEN req[r].computed ELSE LoadedTokens(r)
  OBVIOUS
<1>4. /\ phase = "waiting" /\ phase' = phase /\ InWaitingLoop
      /\ req[r].status = "WAITING_FOR_REMOTE_KVS" /\ r \in finished_recving_kv_req_ids
      /\ \/ n = 0 /\ table' = [table EXCEPT ![r] = <<>>] /\ key' = key
         \/ CacheUpTo(r, n) /\ table' = table
      /\ req' = [req EXCEPT ![r].computed = n,
                            ![r].status = IF req[r].preempted THEN "PREEMPTED" ELSE "WAITING"]
      /\ failed_recving_kv_req_ids' = failed_recving_kv_req_ids \ {r}
      /\ waiting' = waiting /\ running' = running /\ sch' = sch /\ load' = load
      /\ cfg' = cfg /\ filled' = filled
  BY <1>2, <1>3 DEF RemoteReady, InWaitingLoop, workerVars, StillFailed
<1>5. r \in Requests /\ r \in ToSet(waiting)
  BY <1>1, <1>2, <1>4, WaitingRequest
<1>6. cfg.async /\ load[r] = <<>> /\ sch.num[r] = 0 /\ \A s \in Requests : sch.sync[s] = {}
  <2>1. cfg.async /\ load[r] = <<>>
    BY <1>1, <1>4, <1>5 DEF LoadsUnderWay
  <2>2. QED BY <1>1, <1>4, <1>5, <2>1 DEF ScheduleStages, InvalidBlocksUnshared
<1>7. /\ req[r].computed \in Int /\ req[r].tokens \in Int /\ PromptLen[r] \in Int
      /\ Len(table[r]) \in Nat /\ BlockSize \in Nat /\ Len(table[r]) * BlockSize \in Int
      /\ DOMAIN table[r] = 1 .. Len(table[r])
      /\ \A i \in DOMAIN table[r] : table[r][i] \in Blocks /\ i \in Int
      /\ \A b \in Blocks : filled[b] \in 0 .. BlockSize
  <2>1. \A b \in Blocks : filled[b] \in 0 .. BlockSize
    BY <1>1 DEF TypeOK
  <2>2. QED BY <1>1, <1>5, <2>1, StateTypes, ConstantTypes
<1>8. /\ Least(Len(table[r]) * BlockSize, req[r].tokens) <= PromptLen[r]
      /\ \A i \in DOMAIN table[r] :
           \/ Within(PromptLen[r], i) <= filled[table[r][i]]
           \/ Coming(table[r][i])
           \/ r \in failed_recving_kv_req_ids /\ req[r].computed <= (i - 1) * BlockSize
  BY <1>1, <1>4, <1>5, <1>6 DEF RightEntries, Loaded
<1>9. n \in Int /\ n <= PromptLen[r] /\ n <= Len(table[r]) * BlockSize
  <2>1. CASE r \in failed_recving_kv_req_ids
    <3>1. n = req[r].computed
      BY <1>3, <2>1
    <3>2. n < req[r].tokens /\ n <= Len(table[r]) * BlockSize
      BY <1>1, <1>4, <1>5, <3>1 DEF RemoteHasWork
    <3>3. QED BY <1>7, <1>8, <3>1, <3>2 DEF Least
  <2>2. CASE r \notin failed_recving_kv_req_ids
    <3> DEFINE m == Least(Len(table[r]) * BlockSize, req[r].tokens)
    <3>1. n = IF m = req[r].tokens THEN m - 1 ELSE m
      BY <1>3, <2>2 DEF LoadedTokens
    <3>2. m \in Int /\ m <= Len(table[r]) * BlockSize /\ m <= PromptLen[r]
      BY <1>7, <1>8 DEF Least
    <3> HIDE DEF m
    <3>3. QED BY <1>7, <3>1, <3>2
  <2>3. QED BY <2>1, <2>2
<1>10. \A i \in DOMAIN table[r] : Within(n, i) <= filled[table[r][i]] \/ Coming(table[r][i])
  <2> TAKE i \in DOMAIN table[r]
  <2>1. Within(n, i) \in 0 .. BlockSize /\ Within(PromptLen[r], i) \in 0 .. BlockSize
        /\ Within(n, i) <= Within(PromptLen[r], i)
    BY <1>7, <1>9, WithinType, WithinFacts
  <2>2. filled[table[r][i]] \in 0 .. BlockSize
    BY <1>7
  <2>3. CASE Within(PromptLen[r], i) <= filled[table[r][i]]
    BY <1>7, <2>1, <2>2, <2>3
  <2>4. CASE r \in failed_recving_kv_req_ids /\ req[r].computed <= (i - 1) * BlockSize
    <3>1. n <= (i - 1) * BlockSize
      BY <1>3, <2>4
    <3>2. Within(n, i) = 0
      BY <1>7, <1>9, <3>1, WithinFacts
    <3>3. QED BY <1>7, <2>2, <3>2
  <2>5. QED BY <1>8, <2>3, <2>4
<1>11. /\ \A s \in Requests : s # r => req'[s] = req[s] /\ table'[s] = table[s]
       /\ req'[r].status \in {"WAITING", "PREEMPTED"} /\ req'[r].computed = n
       /\ req'[r].wrong = req[r].wrong
       /\ (n = 0 /\ table'[r] = <<>>) \/ table'[r] = table[r]
  <2>1. req \in [Requests -> RequestType] /\ table \in [Requests -> Seq(Blocks)]
    BY <1>1 DEF TypeOK, RequestType
  <2>2. /\ \A s \in Requests : s # r => req'[s] = req[s]
        /\ req'[r].status \in {"WAITING", "PREEMPTED"} /\ req'[r].computed = n
        /\ req'[r].wrong = req[r].wrong
    BY <1>4, <1>5, <2>1 DEF RequestType
  <2>3. /\ \A s \in Requests : s # r => table'[s] = table[s]
        /\ (n = 0 /\ table'[r] = <<>>) \/ table'[r] = table[r]
    BY <1>4, <1>5, <2>1
  <2>4. QED BY <2>2, <2>3
<1> DEFINE one == {r}
<1>12. \A s \in Requests \ one : Before(s)' = Before(s) /\ Behind(s)' = Behind(s)
  <2>1. phase' = phase /\ sch' = sch /\ \A s \in Requests \ one : req'[s] = req[s]
    BY <1>4, <1>11
  <2>2. QED BY <2>1 DEF Before, Behind
<1>13. \A b \in Blocks : Coming(b) => Coming(b)'
  <2>1. phase \in Planning /\ phase' \in Planning \cup {"execute"} /\ phase # "execute"
    BY <1>4 DEF Planning
  <2>2. \A s \in one : sch.num[s] <= 0 /\ sch.sync[s] = {}
    BY <1>5, <1>6
  <2>3. \A s \in Requests \ one : table'[s] = table[s] /\ sch'.sync[s] = sch.sync[s]
    BY <1>4, <1>11
  <2> HIDE DEF one
  <2>4. QED BY <1>1, <1>12, <2>1, <2>2, <2>3, ComingKept
<1>14. \A b \in Blocks : Offered(b)'
  <2> SUFFICES ASSUME NEW b \in Blocks, key'[b] # NoKey PROVE filled[b] = BlockSize \/ Coming(b)'
    BY <1>4 DEF Offered, NoKey
  <2>1. CASE key'[b] = key[b]
    <3>1. filled[b] = BlockSize \/ Coming(b)
      BY <1>1, <1>4, <2>1 DEF RightEntries, Offered
    <3>2. QED BY <1>13, <3>1
  <2>2. CASE key'[b] # key[b]
    <3>1. CacheUpTo(r, n)
      BY <1>4, <2>2
    <3>2. PICK i \in 1 .. Least(n \div BlockSize, Len(table[r])) : table[r][i] = b
      BY <2>2, <3>1 DEF CacheUpTo
    <3>3. n \div BlockSize \in Int
      BY <1>9, ConstantTypes
    <3>4. i \in DOMAIN table[r] /\ i <= n \div BlockSize
      BY <1>7, <3>2, <3>3 DEF Least
    <3>5. i * BlockSize <= n
      BY <1>7, <1>9, <3>4, WholeBlocks
    <3>6. Within(n, i) = BlockSize
      BY <1>7, <1>9, <3>4, <3>5, WithinFacts
    <3>7. BlockSize <= filled[b] \/ Coming(b)
      BY <1>10, <3>2, <3>4, <3>6
    <3>8. filled[b] \in 0 .. BlockSize
      BY <1>7
    <3>9. QED BY <1>7, <1>13, <3>7, <3>8
  <2>3. QED BY <2>1, <2>2
<1>15. Counted(r)' /\ Loaded(r)'
  <2>1. Before(r)' = n
    BY <1>4, <1>11 DEF Before
  <2>2. \A i \in DOMAIN table'[r] : Within(n, i) <= filled'[table'[r][i]] \/ Coming(table[r][i])'
    <3>1. CASE table'[r] = <<>>
      BY <3>1
    <3>2. CASE table'[r] = table[r]
      BY <1>4, <1>7, <1>10, <1>13, <3>2
    <3>3. QED BY <1>11, <3>1, <3>2
  <2>3. Counted(r)'
    BY <2>1, <2>2 DEF Counted, Within
  <2>4. Loaded(r)'
    BY <1>11 DEF Loaded
  <2>5. QED BY <2>3, <2>4
<1>16. OrderOf(r)'
  <2>1. IsInjective(table'[r]) /\ n <= Len(table'[r]) * BlockSize
    <3>1. CASE n = 0 /\ table'[r] = <<>>
      <4>1. Len(table'[r]) = 0 /\ 0 * BlockSize = 0
        BY <1>7, <3>1
      <4>2. QED BY <3>1, <4>1 DEF IsInjective
    <3>2. CASE table'[r] = table[r]
      BY <1>1, <1>5, <1>9, <3>2 DEF InOrder, TablesInOrder
    <3>3. QED BY <1>11, <3>1, <3>2
  <2>2. Behind(r)' = n
    BY <1>4, <1>6, <1>9, <1>11 DEF Behind
  <2>3. r \in ToSet(waiting') /\ r \notin failed_recving_kv_req_ids' /\ sch'.sync[r] = {} /\ cfg'.async
    BY <1>4, <1>5, <1>6
  <2>4. QED BY <1>11, <2>1, <2>2, <2>3 DEF OrderOf
<1>17. InOrder'
  <2>1. /\ one \in SUBSET Requests /\ phase' \notin {"execute", "invalid"}
        /\ phase' \in Planning => phase \in Planning
    BY <1>4, <1>5
  <2>2. failed_recving_kv_req_ids' \subseteq Requests
    BY <1>1, <1>4 DEF TypeOK
  <2>3. \A s \in one : OrderOf(s)'
    BY <1>16
  <2>4. \A s \in Requests \ one :
              /\ table'[s] = table[s] /\ req'[s] = req[s]
              /\ sch'.sync[s] = sch.sync[s] /\ sch'.num[s] = sch.num[s]
              /\ s \in failed_recving_kv_req_ids' => s \in failed_recving_kv_req_ids
              /\ s \in ToSet(running) => s \in ToSet(running')
              /\ s \in ToSet(sch.skipped) \cup ToSet(waiting) =>
                    s \in ToSet(sch'.skipped) \cup ToSet(waiting')
    BY <1>4, <1>11
  <2>5. OwnBlocks'
    BY <1>4, <1>6 DEF OwnBlocks
  <2> HIDE DEF one
  <2>6. QED BY <1>1, <1>4, <1>12, <2>1, <2>2, <2>3, <2>4, <2>5, PlanningOrder
<1>18. RightEntries'
  <2>1. one \in SUBSET Requests /\ phase \in Planning \cup {"engine"} /\ phase' \in Planning \cup {"engine"}
    BY <1>4, <1>5 DEF Planning
  <2>2. \A s \in Requests \ one :
              /\ table'[s] = table[s] /\ req'[s] = req[s] /\ load'[s] = load[s]
              /\ s \in failed_recving_kv_req_ids => s \in failed_recving_kv_req_ids'
              /\ \A b \in Held(s) : filled'[b] = filled[b]
    BY <1>4, <1>11
  <2>3. \A s \in one : Counted(s)' /\ Loaded(s)' /\ req'[s].wrong = req[s].wrong
    BY <1>11, <1>15
  <2> HIDE DEF one
  <2>4. QED BY <1>1, <1>4, <1>13, <1>14, <2>1, <2>2, <2>3, PlanningEntries
<1>19. QED BY <1>17, <1>18

--------------------------------------------------------------------------------
(* Right entries: the step and its report *)

\* What the connector does beside the step concerns only the requests it loads for.
LEMMA WorkerKeeps ==
    ASSUME TypeOK, InOrder, RightEntries, phase = "execute", phase' = phase,
           UNCHANGED <<cfg, req, waiting, running, table, key, sch, failed_recving_kv_req_ids>>,
           \A b \in Blocks : key[b] # NoKey => filled'[b] = filled[b],
           \A s \in Requests : req[s].status \in Counts => \A b \in Held(s) :
              filled'[b] = filled[b] /\ (b \in report'.invalid => b \in report.invalid),
           \A s \in Requests : Loaded(s)'
    PROVE  InOrder' /\ RightEntries'
<1>1. /\ req' = req /\ table' = table /\ key' = key /\ sch' = sch /\ running' = running
      /\ waiting' = waiting /\ cfg' = cfg
      /\ failed_recving_kv_req_ids' = failed_recving_kv_req_ids
  OBVIOUS
<1>2. \A s \in Requests : Before(s)' = Before(s) /\ Behind(s)' = Behind(s)
  BY <1>1 DEF Before, Behind
<1>3. \A b \in Blocks : Coming(b) => Coming(b)'
  <2> SUFFICES ASSUME NEW b \in Blocks, Coming(b) PROVE Coming(b)'
    OBVIOUS
  <2>1. PICK s \in Requests : \E i \in DOMAIN table[s] : table[s][i] = b /\ Brings(s, i)
    BY DEF Coming
  <2>2. \E i \in DOMAIN table'[s] : table'[s][i] = b /\ Brings(s, i)'
    BY <1>1, <1>2, <2>1 DEF Brings
  <2>3. QED BY <2>2 DEF Coming
<1>4. InOrder'
  <2>1. Listed' /\ FailuresRemembered'
    BY <1>1 DEF InOrder, Listed, FailuresRemembered
  <2>2. TablesInOrder'
    BY <1>1, <1>2 DEF InOrder, TablesInOrder
  <2>3. InvalidIsRemote'
    <3> SUFFICES ASSUME cfg.async, NEW s \in Requests, req[s].status \in Counts
                 PROVE  Held(s)' \cap report'.invalid = {}
      BY <1>1 DEF InvalidIsRemote
    <3>1. Held(s)' = Held(s) /\ Held(s) \cap report.invalid = {}
      BY <1>1 DEF Held, InOrder, InvalidIsRemote
    <3>2. QED BY <3>1
  <2>4. StepLoads'
    BY <1>1, <1>2 DEF InOrder, StepLoads
  <2>5. OwnBlocks'
    BY <1>1, TablesShrink DEF InOrder
  <2>6. QED BY <2>1, <2>2, <2>3, <2>4, <2>5 DEF InOrder
<1>5. \A s \in Requests : Counted(s)'
  <2> TAKE s \in Requests
  <2> SUFFICES ASSUME req[s].status \in Counts, NEW i \in DOMAIN table[s]
               PROVE  Within(Before(s), i) <= filled'[table[s][i]] \/ Coming(table[s][i])'
    BY <1>1, <1>2 DEF Counted, Within
  <2>1. Within(Before(s), i) <= filled[table[s][i]] \/ Coming(table[s][i])
    BY DEF RightEntries, Counted
  <2>2. table[s][i] \in Blocks /\ table[s][i] \in Held(s) /\ table'[s][i] = table[s][i]
    BY <1>1, StateTypes DEF Held
  <2>3. QED BY <1>3, <2>1, <2>2
<1>6. \A b \in Blocks : Offered(b)'
  <2> SUFFICES ASSUME NEW b \in Blocks, key[b] # NoKey PROVE filled'[b] = BlockSize \/ Coming(b)'
    BY <1>1 DEF Offered, NoKey
  <2>1. filled[b] = BlockSize \/ Coming(b)
    BY DEF RightEntries, Offered
  <2>2. QED BY <1>3, <2>1
<1>7. NoWrongAnswer' /\ RightAnswers' /\ Blocks' = Blocks
  BY <1>1 DEF RightEntries, NoWrongAnswer, RightAnswers, Blocks
<1>8. QED BY <1>4, <1>5, <1>6, <1>7 DEF RightEntries

LEMMA EntriesOfLoadFails ==
    \A r \in Requests : TransferInv /\ EntriesInv /\ LoadFails(r) => EntriesInv'
<1> SUFFICES ASSUME NEW r \in Requests, TransferInv, EntriesInv, LoadFails(r), Careful
             PROVE  InOrder' /\ RightEntries'
  BY DEF EntriesInv, Careful, LoadFails
<1>1. /\ InOrder /\ RightEntries /\ TypeOK /\ LoadsUnderWay /\ LoadsWriteOwnBlocks
  BY DEF EntriesInv, TransferInv
<1>2. PICK bad \in (SUBSET DOMAIN load[r]) \ {{}} :
         /\ report' = [report EXCEPT !.invalid = @ \cup {load[r][i] : i \in bad}]
         /\ load' = [load EXCEPT ![r] = Restrict(@, DOMAIN @ \ bad)]
  BY DEF LoadFails
<1>3. /\ phase = "execute" /\ phase' = phase
      /\ UNCHANGED <<cfg, req, waiting, running, table, key, sch, failed_recving_kv_req_ids>>
      /\ filled' = filled
  BY DEF LoadFails, engineVars, cacheVars, recvVars
<1>4. r \in loading /\ \A i \in DOMAIN load[r] : i \in DOMAIN table[r] /\ load[r][i] = table[r][i]
  BY <1>1, <1>2, LoadBlocks
<1>5. req[r].status \notin Counts /\ \A s \in Requests \ {r} : \A i \in DOMAIN load[r] : load[r][i] \notin Held(s)
  BY <1>1, <1>4 DEF LoadsUnderWay, LoadsWriteOwnBlocks, Counts
<1>6. report'.invalid = report.invalid \cup {load[r][i] : i \in bad}
  BY <1>1, <1>2 DEF TypeOK
<1>7. /\ \A s \in Requests : s # r => load'[s] = load[s]
      /\ DOMAIN load'[r] = DOMAIN load[r] \ bad
  <2> DEFINE l == Restrict(load[r], DOMAIN load[r] \ bad)
  <2>1. load' = [load EXCEPT ![r] = l] /\ load = [s \in Requests |-> load[s]]
    BY <1>1, <1>2 DEF TypeOK
  <2>2. DOMAIN l = DOMAIN load[r] \ bad
    BY DEF Restrict
  <2> HIDE DEF l
  <2>3. QED BY <2>1, <2>2
<1>8. \A s \in Requests : req[s].status \in Counts => \A b \in Held(s) :
              filled'[b] = filled[b] /\ (b \in report'.invalid => b \in report.invalid)
  BY <1>2, <1>3, <1>5, <1>6
<1>9. \A b \in Blocks : Coming(b) => Coming(b)'
  BY <1>3 DEF Coming, Brings, Before, Behind
<1>10. \A s \in Requests : Loaded(s)'
  <2> TAKE s \in Requests
  <2> SUFFICES ASSUME req[s].status = "WAITING_FOR_REMOTE_KVS" PROVE Loaded(s)'
    BY <1>3 DEF Loaded
  <2>1. /\ Least(Len(table[s]) * BlockSize, req[s].tokens) <= PromptLen[s]
        /\ \A i \in DOMAIN table[s] :
           \/ Within(PromptLen[s], i) <= filled[table[s][i]]
           \/ Coming(table[s][i])
           \/ i \in DOMAIN load[s]
           \/ table[s][i] \in report.invalid
           \/ s \in failed_recving_kv_req_ids /\ req[s].computed <= (i - 1) * BlockSize
    BY <1>1, <1>3 DEF RightEntries, Loaded
  <2>2. \A i \in DOMAIN load[s] : i \in DOMAIN load'[s] \/ table[s][i] \in report'.invalid
    BY <1>4, <1>6, <1>7
  <2>3. \A i \in DOMAIN table[s] : table[s][i] \in Blocks
    BY <1>1, StateTypes
  <2>4. \A i \in DOMAIN table[s] :
           \/ Within(PromptLen[s], i) <= filled[table[s][i]]
           \/ Coming(table[s][i])'
           \/ i \in DOMAIN load'[s]
           \/ table[s][i] \in report'.invalid
           \/ s \in failed_recving_kv_req_ids /\ req[s].computed <= (i - 1) * BlockSize
    BY <1>3, <1>6, <1>9, <2>1, <2>2, <2>3
  <2>5. QED BY <1>3, <2>1, <2>4 DEF Loaded, Within
<1>11. QED BY <1>1, <1>3, <1>8, <1>10, WorkerKeeps

LEMMA EntriesOfLoadEnds ==
    \A r \in Requests : TransferInv /\ EntriesInv /\ LoadEnds(r) => EntriesInv'
<1> SUFFICES ASSUME NEW r \in Requests, TransferInv, EntriesInv, LoadEnds(r) PROVE EntriesInv'
  OBVIOUS
<1>14. cfg' = cfg
  BY DEF LoadEnds
<1> SUFFICES ASSUME Careful PROVE InOrder' /\ RightEntries'
  BY <1>14 DEF EntriesInv, Careful
<1>1. /\ InOrder /\ RightEntries /\ TypeOK /\ LoadsUnderWay /\ LoadsWriteOwnBlocks
  BY DEF EntriesInv, TransferInv
<1>2. /\ phase = "execute" /\ phase' = phase /\ r \in loading
      /\ UNCHANGED <<cfg, req, waiting, running, table, key, sch, failed_recving_kv_req_ids>>
      /\ load' = [load EXCEPT ![r] = <<>>]
      /\ report' = [report EXCEPT !.recving = @ \cup {r}]
  BY DEF LoadEnds, engineVars, recvVars
<1>3. \A b \in Blocks : filled'[b] =
         IF \E i \in DOMAIN load[r] : load[r][i] = b
         THEN LET i == CHOOSE i \in DOMAIN load[r] : load[r][i] = b
              IN  Least(BlockSize, PromptLen[r] - (i - 1) * BlockSize)
         ELSE filled[b]
  BY DEF LoadEnds
<1>4. /\ \A i \in DOMAIN load[r] : /\ i \in DOMAIN table[r] /\ load[r][i] = table[r][i] /\ i \in Int
                                   /\ key[load[r][i]] = NoKey
                                   /\ \A s \in Requests \ {r} : load[r][i] \notin Held(s)
      /\ req[r].status \notin Counts
  <2>1. \A i \in DOMAIN load[r] : i \in DOMAIN table[r] /\ load[r][i] = table[r][i] /\ i \in Int
    BY <1>1, LoadBlocks
  <2>2. QED BY <1>1, <1>2, <2>1 DEF LoadsUnderWay, LoadsWriteOwnBlocks, Counts
<1>5. IsInjective(table[r])
  BY <1>1 DEF InOrder, TablesInOrder
<1>6. ASSUME NEW i \in DOMAIN load[r] PROVE filled'[load[r][i]] = Within(PromptLen[r], i)
  <2>1. (CHOOSE j \in DOMAIN load[r] : load[r][j] = load[r][i]) = i
    BY <1>4, <1>5 DEF IsInjective
  <2>2. load[r][i] \in Blocks /\ (i - 1) * BlockSize < PromptLen[r]
    BY <1>1, LoadBlocks
  <2>3. filled'[load[r][i]] = Least(BlockSize, PromptLen[r] - (i - 1) * BlockSize)
    BY <1>3, <2>1, <2>2
  <2> DEFINE x == (i - 1) * BlockSize
  <2>4. x \in Int /\ PromptLen[r] \in Int /\ x < PromptLen[r]
    BY <1>4, <2>2, ConstantTypes
  <2>5. Most(0, PromptLen[r] - x) = PromptLen[r] - x
    <3> HIDE DEF x
    <3>1. QED BY <2>4 DEF Most
  <2>6. QED BY <2>3, <2>5 DEF Within
<1>7. /\ report'.invalid = report.invalid
      /\ \A s \in Requests : s # r => load'[s] = load[s]
  BY <1>1, <1>2 DEF TypeOK
<1>8. \A b \in Blocks : key[b] # NoKey => filled'[b] = filled[b]
  BY <1>3, <1>4
<1>9. \A s \in Requests : s # r => \A b \in Held(s) : filled'[b] = filled[b]
  <2> TAKE s \in Requests
  <2>1. Held(s) \subseteq Blocks
    BY <1>1, StateTypes
  <2>2. QED BY <1>3, <1>4, <2>1
<1>10. \A s \in Requests : req[s].status \in Counts => \A b \in Held(s) :
              filled'[b] = filled[b] /\ (b \in report'.invalid => b \in report.invalid)
  BY <1>4, <1>7, <1>9
<1>11. \A b \in Blocks : Coming(b) => Coming(b)'
  BY <1>2 DEF Coming, Brings, Before, Behind
<1>12. \A s \in Requests : Loaded(s)'
  <2> TAKE s \in Requests
  <2> SUFFICES ASSUME req[s].status = "WAITING_FOR_REMOTE_KVS" PROVE Loaded(s)'
    BY <1>2 DEF Loaded
  <2>1. /\ Least(Len(table[s]) * BlockSize, req[s].tokens) <= PromptLen[s]
        /\ \A i \in DOMAIN table[s] :
           \/ Within(PromptLen[s], i) <= filled[table[s][i]]
           \/ Coming(table[s][i])
           \/ i \in DOMAIN load[s]
           \/ table[s][i] \in report.invalid
           \/ s \in failed_recving_kv_req_ids /\ req[s].computed <= (i - 1) * BlockSize
    BY <1>1, <1>2 DEF RightEntries, Loaded
  <2>2. \A i \in DOMAIN table[s] : table[s][i] \in Blocks /\ table[s][i] \in Held(s) /\ i \in Int
    BY <1>1, StateTypes DEF Held
  <2>3. ASSUME NEW i \in DOMAIN table[s]
        PROVE  \/ Within(PromptLen[s], i) <= filled'[table[s][i]]
               \/ Coming(table[s][i])'
               \/ i \in DOMAIN load'[s]
               \/ table[s][i] \in report'.invalid
               \/ s \in failed_recving_kv_req_ids /\ req[s].computed <= (i - 1) * BlockSize
    <3>1. CASE s # r
      BY <1>2, <1>7, <1>9, <1>11, <2>1, <2>2, <3>1
    <3>2. CASE s = r /\ i \in DOMAIN load[r]
      <4>1. filled'[table[s][i]] = Within(PromptLen[s], i)
        BY <1>4, <1>6, <3>2
      <4>2. Within(PromptLen[s], i) \in 0 .. BlockSize
        <5>1. PromptLen[s] \in Int /\ i \in Int
          BY <2>2, ConstantTypes
        <5>2. QED BY <5>1, WithinType
      <4>3. BlockSize \in Int
        BY ConstantTypes
      <4>4. QED BY <4>1, <4>2, <4>3
    <3>3. CASE s = r /\ i \notin DOMAIN load[r]
      <4>1. ~ \E j \in DOMAIN load[r] : load[r][j] = table[r][i]
        BY <1>4, <1>5, <3>3 DEF IsInjective
      <4>2. filled'[table[r][i]] = filled[table[r][i]]
        BY <1>3, <2>2, <3>3, <4>1
      <4>3. QED BY <1>2, <1>7, <1>11, <2>1, <2>2, <3>3, <4>2
    <3>4. QED BY <3>1, <3>2, <3>3
  <2>4. QED BY <1>2, <2>1, <2>3 DEF Loaded, Within
<1>13. QED BY <1>1, <1>2, <1>8, <1>10, <1>12, WorkerKeeps

LEMMA EntriesOfSendEnds ==
    \A r \in Requests : TransferInv /\ EntriesInv /\ SendEnds(r) => EntriesInv'
<1> SUFFICES ASSUME NEW r \in Requests, TransferInv, EntriesInv, SendEnds(r), Careful
             PROVE  InOrder' /\ RightEntries'
  BY DEF EntriesInv, Careful, SendEnds
<1>1. InOrder /\ RightEntries /\ TypeOK
  BY DEF EntriesInv, TransferInv
<1>2. /\ phase = "execute" /\ phase' = phase
      /\ UNCHANGED <<cfg, req, waiting, running, table, key, sch, failed_recving_kv_req_ids>>
      /\ filled' = filled /\ load' = load
      /\ report' = [report EXCEPT !.sending = @ \cup {r}]
  BY DEF SendEnds, engineVars, cacheVars, recvVars
<1>3. report'.invalid = report.invalid
  BY <1>1, <1>2 DEF TypeOK
<1>4. \A s \in Requests : Loaded(s)'
  <2>1. \A b : Coming(b) => Coming(b)'
    BY <1>2 DEF Coming, Brings, Before, Behind
  <2>2. \A s \in Requests : Loaded(s)
    BY <1>1 DEF RightEntries
  <2>3. QED BY <1>2, <1>3, <2>1, <2>2 DEF Loaded, Within
<1>5. QED BY <1>1, <1>2, <1>3, <1>4, WorkerKeeps

\* What is written is at least what each writes, and more writers write no less.
LEMMA WrittenToFacts ==
    ASSUME TypeOK, NEW b, NEW some \in SUBSET Requests
    PROVE  /\ \A r \in some : \A i \in DOMAIN table[r] :
                table[r][i] = b /\ Within(Start(r), i) < Within(req[r].computed, i) =>
                  Within(req[r].computed, i) <= WrittenTo(b, some)
           /\ \A more \in SUBSET Requests :
                some \subseteq more => WrittenTo(b, some) <= WrittenTo(b, more)
<1>1. BlockSize \in Nat /\ BlockSize > 0
  BY ConstantTypes
<1> DEFINE places(r) == {i \in DOMAIN table[r] :
                          /\ table[r][i] = b
                          /\ Within(Start(r), i) < Within(req[r].computed, i)}
           W(s) == {0} \cup UNION {{Within(req[r].computed, i) : i \in places(r)} : r \in s}
<1>2. \A r \in Requests : \A i \in places(r) : Within(req[r].computed, i) \in 0 .. BlockSize
  <2> TAKE r \in Requests
  <2> TAKE i \in places(r)
  <2>1. req[r].computed \in Int /\ i \in Int
    BY StateTypes
  <2>2. QED BY <2>1, WithinType
<1>6. \A r \in some : \A i \in DOMAIN table[r] :
        table[r][i] = b /\ Within(Start(r), i) < Within(req[r].computed, i) => i \in places(r)
  OBVIOUS
<1> HIDE DEF places
<1>3. ASSUME NEW s \in SUBSET Requests
      PROVE  /\ WrittenTo(b, s) = Max(W(s)) /\ W(s) \in SUBSET Int /\ Max(W(s)) \in W(s)
             /\ \A x \in W(s) : x <= Max(W(s))
  <2>1. W(s) \in SUBSET (0 .. BlockSize) /\ W(s) # {}
    BY <1>1, <1>2
  <2>2. WrittenTo(b, s) = Max(W(s))
    BY DEF WrittenTo, places
  <2> DEFINE V == W(s)
  <2>3. V \in SUBSET (0 .. BlockSize) /\ V # {}
    BY <2>1
  <2> HIDE DEF V
  <2>4. Max(V) \in V /\ \A x \in V : x <= Max(V)
    BY <1>1, <2>3, MaxIsGreatest
  <2>5. V \in SUBSET Int
    BY <1>1, <2>3
  <2>6. \A x \in V : x <= Max(V)
    BY <2>4, <2>5
  <2>7. WrittenTo(b, s) = Max(V)
    BY <2>2 DEF V
  <2>8. QED BY <2>4, <2>5, <2>6, <2>7 DEF V
<1>4. ASSUME NEW r \in some, NEW i \in places(r)
      PROVE  Within(req[r].computed, i) <= WrittenTo(b, some)
  <2>1. Within(req[r].computed, i) \in W(some)
    OBVIOUS
  <2>2. QED BY <1>3, <2>1
<1>5. ASSUME NEW more \in SUBSET Requests, some \subseteq more
      PROVE  WrittenTo(b, some) <= WrittenTo(b, more)
  <2>1. W(some) \subseteq W(more)
    BY <1>5
  <2>2. QED BY <1>3, <2>1
<1>7. QED BY <1>4, <1>5, <1>6

\* What the requests `good` of a step bring is right behind it: they load or compute it.
LEMMA BroughtIsThere ==
    ASSUME TypeOK, phase = "execute", NEW f, NEW good \in SUBSET Requests,
           \A b \in Blocks : f[b] \in 0 .. BlockSize,
           \A s \in good : \A i \in sch.sync[s] : f[table[s][i]] = BlockSize,
           NEW s \in good, NEW j \in DOMAIN table[s], Brings(s, j)
    PROVE  Most(f[table[s][j]], WrittenTo(table[s][j], good)) = BlockSize
<1> DEFINE b == table[s][j]
           w == WrittenTo(b, good)
<1>1. /\ BlockSize \in Nat /\ b \in Blocks /\ j \in Int /\ req[s].computed \in Int
      /\ sch.num[s] \in Int
  BY ConstantTypes, StateTypes
<1>2. w \in 0 .. BlockSize /\ f[b] \in 0 .. BlockSize
  BY <1>1, WrittenToType
<1>3. CASE j \in sch.sync[s]
  <2>1. f[b] = BlockSize
    BY <1>3
  <2> HIDE DEF b, w
  <2>2. QED BY <1>1, <1>2, <2>1 DEF Most, b, w
<1>4. CASE Before(s) < j * BlockSize /\ j * BlockSize <= Behind(s)
  <2>1. Start(s) = Before(s) /\ Behind(s) = req[s].computed /\ Start(s) \in Int
    BY <1>1 DEF Start, Before, Behind, Planning
  <2>2. Within(req[s].computed, j) = BlockSize
    BY <1>1, <1>4, <2>1, WithinFacts
  <2>3. Within(Start(s), j) # BlockSize
    <3>1. j * BlockSize \in Int
      BY <1>1
    <3>2. QED BY <1>1, <1>4, <2>1, <3>1, WithinFacts
  <2>4. Within(Start(s), j) \in 0 .. BlockSize
    BY <1>1, <2>1, WithinType
  <2>5. Within(Start(s), j) < Within(req[s].computed, j)
    BY <1>1, <2>2, <2>3, <2>4
  <2>6. BlockSize <= w
    BY <2>2, <2>5, WrittenToFacts
  <2> HIDE DEF b, w
  <2>7. QED BY <1>1, <1>2, <2>6 DEF Most, b, w
<1>5. QED BY <1>3, <1>4 DEF Brings

\* The blocks `bad` fail to load, the cache is f after the loads, the requests `right`
\* read only what is right.
StepWith(bad, f, right) ==
    /\ bad \subseteq Synced /\ Synced \subseteq Blocks
    /\ \A b \in Blocks : /\ f[b] \in 0 .. BlockSize /\ filled[b] <= f[b]
                         /\ f[b] = IF b \in Synced \ bad THEN BlockSize ELSE filled[b]
    /\ right \in SUBSET Requests
    /\ \A some \in SUBSET {r \in Requests : sch.num[r] > 0} :
         (\A r \in some : ReadsRight(r, f, some)) => some \subseteq right
    /\ report'.invalid = report.invalid \cup bad
    /\ sch' = [sch EXCEPT !.right = right]
    /\ \A b \in Blocks : filled'[b] = Most(f[b], WrittenTo(b, right))

\* A step: some of its loads fail; the requests that only read what is right compute what
\* is right.
LEMMA ExecuteSteps ==
    ASSUME TypeOK, ScheduleStages, Execute
    PROVE  \E bad, f, right : StepWith(bad, f, right)
<1> DEFINE scheduled == {r \in Requests : sch.num[r] > 0}
<1>1. PICK bad \in SUBSET Synced :
             LET f == [b \in Blocks |-> IF b \in Synced \ bad THEN BlockSize ELSE filled[b]]
                 right == UNION {some \in SUBSET scheduled :
                                   \A r \in some : ReadsRight(r, f, some)}
             IN  /\ report' = [report EXCEPT !.invalid = @ \cup bad]
                 /\ sch' = [sch EXCEPT !.right = right]
                 /\ filled' = [b \in Blocks |-> Most(f[b], WrittenTo(b, right))]
  BY DEF Execute, Synced
<1>2. PICK f : f = [b \in Blocks |-> IF b \in Synced \ bad THEN BlockSize ELSE filled[b]]
  OBVIOUS
<1>3. PICK right : right = UNION {some \in SUBSET scheduled : \A r \in some : ReadsRight(r, f, some)}
  OBVIOUS
<1>4. Synced \subseteq Blocks
  <2>1. ASSUME NEW r \in Requests, NEW i \in sch.sync[r] PROVE table[r][i] \in Blocks
    <3>1. i \in DOMAIN table[r]
      BY DEF ScheduleStages, Execute
    <3>2. QED BY <3>1, StateTypes
  <2>2. QED BY <2>1 DEF Synced
<1>5. right \in SUBSET Requests
  BY <1>3
<1>6. \A b \in Blocks : /\ f[b] \in 0 .. BlockSize /\ filled[b] <= f[b]
                        /\ f[b] = IF b \in Synced \ bad THEN BlockSize ELSE filled[b]
  BY <1>2, ConstantTypes DEF TypeOK
<1>7. \A some \in SUBSET scheduled :
         (\A r \in some : ReadsRight(r, f, some)) => some \subseteq right
  BY <1>3
<1>8. report'.invalid = report.invalid \cup bad /\ sch' = [sch EXCEPT !.right = right]
  BY <1>1, <1>2, <1>3 DEF TypeOK
<1>9. \A b \in Blocks : filled'[b] = Most(f[b], WrittenTo(b, right))
  BY <1>1, <1>2, <1>3
<1>10. StepWith(bad, f, right)
  BY <1>4, <1>5, <1>6, <1>7, <1>8, <1>9 DEF StepWith
<1>11. QED BY <1>10

LEMMA EntriesOfExecute ==
    TransferInv /\ EntriesInv /\ Execute => EntriesInv'
<1> SUFFICES ASSUME TransferInv, EntriesInv, Execute PROVE EntriesInv'
  OBVIOUS
<1>1. /\ phase = "execute" /\ phase' = "invalid"
      /\ cfg' = cfg /\ req' = req /\ waiting' = waiting /\ running' = running
      /\ table' = table /\ key' = key /\ load' = load
      /\ failed_recving_kv_req_ids' = failed_recving_kv_req_ids
  BY DEF Execute, engineVars, recvVars
<1> SUFFICES ASSUME Careful PROVE InOrder' /\ RightEntries'
  BY <1>1 DEF EntriesInv, Careful
<1>2. /\ InOrder /\ RightEntries /\ TypeOK /\ ScheduleStages /\ LoadsUnderWay
      /\ InvalidBlocksUnshared
  BY DEF EntriesInv, TransferInv
<1>0. PICK bad, f, right : StepWith(bad, f, right)
  BY <1>2, ExecuteSteps
<1>3. /\ bad \subseteq Synced /\ Synced \subseteq Blocks
      /\ \A b \in Blocks : /\ f[b] \in 0 .. BlockSize /\ filled[b] <= f[b]
                           /\ f[b] = IF b \in Synced \ bad THEN BlockSize ELSE filled[b]
      /\ right \in SUBSET Requests
      /\ \A some \in SUBSET {r \in Requests : sch.num[r] > 0} :
           (\A r \in some : ReadsRight(r, f, some)) => some \subseteq right
      /\ report'.invalid = report.invalid \cup bad
      /\ sch' = [sch EXCEPT !.right = right]
      /\ \A b \in Blocks : filled'[b] = Most(f[b], WrittenTo(b, right))
  BY <1>0 DEF StepWith
<1>4. sch'.num = sch.num /\ sch'.sync = sch.sync /\ sch'.skipped = sch.skipped /\ sch'.right = right
  BY <1>2, <1>3 DEF TypeOK
<1>5. PICK good : good = {r \in Requests : /\ sch.num[r] > 0
                                           /\ \A i \in sch.sync[r] : table[r][i] \notin bad}
  OBVIOUS
<1>6. /\ good \in SUBSET Requests /\ BlockSize \in Nat
      /\ \A r \in good : sch.num[r] > 0 /\ \A i \in sch.sync[r] : table[r][i] \notin bad
  BY <1>5, ConstantTypes
<1>7. \A r \in Requests : /\ req[r].computed \in Int /\ sch.num[r] \in Int /\ Start(r) \in Int
                          /\ Before(r) = Start(r) /\ Start(r) = req[r].computed - sch.num[r]
                          /\ Behind(r) = req[r].computed
                          /\ Before(r)' = req[r].computed /\ Behind(r)' = req[r].computed
  BY <1>1, <1>2, <1>4, StateTypes DEF Before, Behind, Start, Planning
<1>8. \A r \in Requests : \A i \in DOMAIN table[r] :
        /\ i \in Int /\ table[r][i] \in Blocks /\ table[r][i] \in Held(r)
        /\ Within(Start(r), i) \in 0 .. BlockSize /\ Within(req[r].computed, i) \in 0 .. BlockSize
  <2> TAKE r \in Requests
  <2> TAKE i \in DOMAIN table[r]
  <2>1. i \in Int /\ table[r][i] \in Blocks /\ table[r][i] \in Held(r)
    BY <1>2, StateTypes DEF Held
  <2>2. QED BY <1>7, <2>1, WithinType
<1>9. /\ \A r \in Requests : sch.num[r] # 0 => req[r].status = "RUNNING"
      /\ \A r \in Requests : \A i \in sch.sync[r] :
            /\ i \in DOMAIN table[r] /\ sch.num[r] > 0
            /\ i * BlockSize <= Start(r) /\ req[r].cached = Start(r)
  BY <1>1, <1>2, <1>7 DEF InOrder, StepLoads
<1>10. \A s \in good : \A i \in sch.sync[s] : f[table[s][i]] = BlockSize
  <2> TAKE s \in good
  <2> TAKE i \in sch.sync[s]
  <2>1. table[s][i] \in Synced \ bad
    BY <1>6 DEF Synced
  <2>2. QED BY <1>3, <2>1
<1>11. \A s \in good : \A j \in DOMAIN table[s] :
          Brings(s, j) => Most(f[table[s][j]], WrittenTo(table[s][j], good)) = BlockSize
  <2>1. /\ TypeOK /\ phase = "execute" /\ good \in SUBSET Requests
        /\ \A b \in Blocks : f[b] \in 0 .. BlockSize
        /\ \A s \in good : \A i \in sch.sync[s] : f[table[s][i]] = BlockSize
    BY <1>1, <1>2, <1>3, <1>6, <1>10
  <2>2. ASSUME NEW s \in good, NEW j \in DOMAIN table[s], Brings(s, j)
        PROVE  Most(f[table[s][j]], WrittenTo(table[s][j], good)) = BlockSize
    BY ONLY <2>1, <2>2, BroughtIsThere
  <2>3. QED BY <2>2
<1>12. \A s \in Requests : \A j \in DOMAIN table[s] : Brings(s, j) => sch.num[s] > 0
  <2> SUFFICES ASSUME NEW s \in Requests, NEW j \in DOMAIN table[s], Brings(s, j), ~(sch.num[s] > 0)
               PROVE  FALSE
    OBVIOUS
  <2>1. sch.num[s] <= 0 /\ sch.sync[s] = {}
    BY <1>7, <1>9
  <2>2. QED BY <1>1, <1>2, <1>8, <2>1, IdleBringsNothing
<1>13. cfg.async => bad = {} /\ \A s \in Requests : sch.num[s] > 0 => s \in good
  <2> SUFFICES ASSUME cfg.async PROVE bad = {} /\ \A s \in Requests : sch.num[s] > 0 => s \in good
    OBVIOUS
  <2>1. \A s \in Requests : sch.sync[s] = {}
    BY <1>2 DEF InvalidBlocksUnshared
  <2>2. QED BY <1>3, <1>5, <2>1 DEF Synced
<1>14. ASSUME NEW r \in Requests, sch.num[r] > 0 => r \in good, req[r].status \in Counts,
              NEW i \in DOMAIN table[r]
       PROVE  Within(Start(r), i) <= Most(f[table[r][i]], WrittenTo(table[r][i], good))
  <2> DEFINE b == table[r][i]
             w == WrittenTo(b, good)
  <2>1. f[b] \in 0 .. BlockSize /\ w \in 0 .. BlockSize /\ filled[b] <= f[b] /\ filled[b] \in 0 .. BlockSize
        /\ Within(Start(r), i) \in 0 .. BlockSize
    BY <1>2, <1>3, <1>6, <1>8, WrittenToType DEF TypeOK
  <2>2. CASE Within(Start(r), i) <= filled[b]
    <3> HIDE DEF b, w
    <3>1. QED BY <1>6, <2>1, <2>2 DEF Most, b, w
  <2>3. CASE Coming(b)
    <3>1. PICK s \in Requests : \E j \in DOMAIN table[s] : table[s][j] = b /\ Brings(s, j)
      BY <2>3 DEF Coming
    <3>2. PICK j \in DOMAIN table[s] : table[s][j] = b /\ Brings(s, j)
      BY <3>1
    <3>3. sch.num[s] > 0
      BY <1>12, <3>2
    <3>4. s \in good
      <4>1. CASE cfg.async
        BY <1>13, <3>3, <4>1
      <4>2. CASE ~cfg.async
        <5>1. b \in Held(s) /\ b \in Held(r)
          BY <1>8, <3>2
        <5>2. s = r
          BY <1>2, <4>2, <5>1 DEF InOrder, OwnBlocks
        <5>3. QED BY <1>14, <3>3, <5>2
      <4>3. QED BY <4>1, <4>2
    <3>5. Most(f[b], w) = BlockSize
      BY <1>11, <3>2, <3>4
    <3> HIDE DEF b, w
    <3>6. QED BY <1>6, <2>1, <3>5 DEF b, w
  <2>4. Within(Start(r), i) <= filled[b] \/ Coming(b)
    BY <1>1, <1>2, <1>7, <1>14 DEF RightEntries, Counted
  <2>5. QED BY <2>2, <2>3, <2>4
<1>15. good \subseteq right
  <2>1. \A r \in good : ReadsRight(r, f, good)
    <3> TAKE r \in good
    <3>1. r \in Requests /\ req[r].status \in Counts
      BY <1>6, <1>7, <1>9 DEF Counts
    <3> SUFFICES ASSUME NEW i \in DOMAIN table[r]
                 PROVE  Most(f[table[r][i]], WrittenTo(table[r][i], good)) >= Within(Start(r), i)
      BY DEF ReadsRight
    <3>2. Within(Start(r), i) <= Most(f[table[r][i]], WrittenTo(table[r][i], good))
      BY <1>14, <3>1
    <3>3. QED BY <3>2
  <2>2. good \in SUBSET {r \in Requests : sch.num[r] > 0}
    BY <1>5
  <2>3. QED BY <1>3, <2>1, <2>2
<1>16. \A b \in Blocks : /\ filled'[b] \in 0 .. BlockSize
                         /\ f[b] <= filled'[b] /\ filled[b] <= filled'[b]
                         /\ Most(f[b], WrittenTo(b, good)) <= filled'[b]
                         /\ WrittenTo(b, right) <= filled'[b]
  <2> TAKE b \in Blocks
  <2>1. WrittenTo(b, good) \in 0 .. BlockSize /\ WrittenTo(b, right) \in 0 .. BlockSize
    BY <1>2, <1>3, <1>6, WrittenToType
  <2>2. WrittenTo(b, good) <= WrittenTo(b, right)
    BY <1>2, <1>3, <1>6, <1>15, WrittenToFacts
  <2>3. f[b] \in 0 .. BlockSize /\ filled[b] <= f[b] /\ filled[b] \in 0 .. BlockSize
        /\ filled'[b] = Most(f[b], WrittenTo(b, right))
    BY <1>2, <1>3 DEF TypeOK
  <2>4. QED BY <1>6, <2>1, <2>2, <2>3 DEF Most
<1>17. ASSUME NEW r \in Requests, sch.num[r] > 0 => r \in good, req[r].status \in Counts,
              NEW i \in DOMAIN table[r]
       PROVE  Within(req[r].computed, i) <= filled'[table[r][i]]
  <2>1. table[r][i] \in Blocks /\ i \in Int
    BY <1>8
  <2>2. filled'[table[r][i]] \in 0 .. BlockSize
    BY <1>16, <2>1
  <2>3. CASE Within(Start(r), i) < Within(req[r].computed, i)
    <3>1. r \in good
      <4> SUFFICES ASSUME ~(sch.num[r] > 0) PROVE FALSE
        BY <1>17
      <4>1. req[r].computed <= Start(r)
        BY <1>7
      <4>2. Within(req[r].computed, i) <= Within(Start(r), i)
        BY <1>7, <2>1, <4>1, WithinFacts
      <4>3. QED BY <1>6, <1>8, <2>3, <4>2
    <3>2. Within(req[r].computed, i) <= WrittenTo(table[r][i], right)
      BY <1>2, <1>3, <1>15, <2>3, <3>1, WrittenToFacts
    <3>3. WrittenTo(table[r][i], right) \in 0 .. BlockSize /\ Within(req[r].computed, i) \in 0 .. BlockSize
          /\ WrittenTo(table[r][i], right) <= filled'[table[r][i]]
      BY <1>2, <1>3, <1>8, <1>16, <2>1, WrittenToType
    <3>4. QED BY <1>6, <2>2, <3>2, <3>3
  <2>4. CASE ~(Within(Start(r), i) < Within(req[r].computed, i))
    <3>1. Within(req[r].computed, i) <= Within(Start(r), i)
      BY <1>6, <1>8, <2>4
    <3> DEFINE m == Most(f[table[r][i]], WrittenTo(table[r][i], good))
    <3>2. Within(Start(r), i) <= m /\ m <= filled'[table[r][i]]
      BY <1>14, <1>16, <1>17, <2>1
    <3>3. m \in 0 .. BlockSize
      <4>1. f[table[r][i]] \in 0 .. BlockSize /\ WrittenTo(table[r][i], good) \in 0 .. BlockSize
        BY <1>2, <1>3, <1>6, <2>1, WrittenToType
      <4>2. QED BY <4>1 DEF Most
    <3>4. Within(Start(r), i) \in 0 .. BlockSize /\ Within(req[r].computed, i) \in 0 .. BlockSize
      BY <1>8
    <3> HIDE DEF m
    <3>5. QED BY <1>6, <2>2, <3>1, <3>2, <3>3, <3>4
  <2>5. QED BY <2>3, <2>4
<1>18. ASSUME NEW r \in Requests, NEW k \in sch.sync[r], table[r][k] \in bad
       PROVE  Hit(r)' /\ k \in InvalidPositions(r, FALSE)'
  <2>1. /\ k \in DOMAIN table[r] /\ sch.num[r] > 0
        /\ k * BlockSize <= Start(r) /\ req[r].cached = Start(r)
    BY <1>9
  <2>2. req[r].status = "RUNNING"
    BY <1>7, <1>9, <2>1
  <2>3. k <= CeilDiv(req[r].cached, BlockSize) /\ CeilDiv(req[r].cached, BlockSize) \in Int
    <3> DEFINE d == CeilDiv(req[r].cached, BlockSize)
    <3>1. d \in Int /\ Start(r) <= d * BlockSize
      BY <1>7, <2>1, ConstantTypes, CeilDivFacts
    <3> HIDE DEF d
    <3>2. k \in Int /\ k * BlockSize \in Int /\ d * BlockSize \in Int
      BY <1>6, <1>8, <2>1, <3>1
    <3>3. ~(d * BlockSize < k * BlockSize)
      BY <1>7, <2>1, <3>1, <3>2
    <3>4. ~(d < k)
      BY <3>1, <3>2, <3>3, ConstantTypes, Monotone
    <3>5. QED BY <3>1, <3>2, <3>4 DEF d
  <2>4. DOMAIN table[r] = 1 .. Len(table[r]) /\ Len(table[r]) \in Nat
    BY <1>2, StateTypes
  <2>5. k \in 1 .. Least(CeilDiv(req[r].cached, BlockSize), Len(table[r]))
    BY <2>1, <2>3, <2>4 DEF Least
  <2>6. k \in InvalidPositions(r, FALSE)'
    BY <1>1, <1>3, <1>18, <2>5 DEF InvalidPositions, CeilDiv, Least
  <2>7. QED BY <1>1, <2>2, <2>6 DEF Hit
<1>19. \A r \in Requests : sch.num[r] > 0 /\ r \notin good => Hit(r)'
  BY <1>5, <1>18
<1>20. \A r \in Requests : Counted(r)'
  <2> TAKE r \in Requests
  <2>1. CASE sch.num[r] > 0 => r \in good
    BY <1>1, <1>7, <1>17, <2>1 DEF Counted, Within
  <2>2. CASE sch.num[r] > 0 /\ r \notin good
    BY <1>1, <1>19, <2>2 DEF Counted
  <2>3. QED BY <2>1, <2>2
<1>21. ASSUME NEW b \in Blocks, NEW s \in good, NEW j \in DOMAIN table[s], table[s][j] = b, Brings(s, j)
       PROVE  filled'[b] = BlockSize
  <2>1. BlockSize <= filled'[b]
    BY <1>11, <1>16, <1>21
  <2>2. filled'[b] \in 0 .. BlockSize
    BY <1>16
  <2>3. QED BY <1>6, <2>1, <2>2
<1>22. \A r \in Requests : Loaded(r)'
  <2> TAKE r \in Requests
  <2> SUFFICES ASSUME req[r].status = "WAITING_FOR_REMOTE_KVS" PROVE Loaded(r)'
    BY <1>1 DEF Loaded
  <2>1. /\ Least(Len(table[r]) * BlockSize, req[r].tokens) <= PromptLen[r]
        /\ \A i \in DOMAIN table[r] :
           \/ Within(PromptLen[r], i) <= filled[table[r][i]]
           \/ Coming(table[r][i])
           \/ i \in DOMAIN load[r]
           \/ table[r][i] \in report.invalid
           \/ r \in failed_recving_kv_req_ids /\ req[r].computed <= (i - 1) * BlockSize
    BY <1>1, <1>2 DEF RightEntries, Loaded
  <2>2. cfg.async
    BY <1>2 DEF LoadsUnderWay
  <2>3. ASSUME NEW i \in DOMAIN table[r]
        PROVE  \/ Within(PromptLen[r], i) <= filled'[table[r][i]]
               \/ i \in DOMAIN load[r]
               \/ table[r][i] \in report'.invalid
               \/ r \in failed_recving_kv_req_ids /\ req[r].computed <= (i - 1) * BlockSize
    <3>1. table[r][i] \in Blocks /\ Within(PromptLen[r], i) \in 0 .. BlockSize
      <4>1. PromptLen[r] \in Int /\ i \in Int
        BY <1>8, ConstantTypes
      <4>2. QED BY <1>8, <4>1, WithinType
    <3>2. CASE Within(PromptLen[r], i) <= filled[table[r][i]]
      <4>1. filled[table[r][i]] <= filled'[table[r][i]] /\ filled'[table[r][i]] \in 0 .. BlockSize
            /\ filled[table[r][i]] \in 0 .. BlockSize
        BY <1>2, <1>16, <3>1 DEF TypeOK
      <4>2. QED BY <1>6, <3>1, <3>2, <4>1
    <3>3. CASE Coming(table[r][i])
      <4>1. PICK s \in Requests : \E j \in DOMAIN table[s] : table[s][j] = table[r][i] /\ Brings(s, j)
        BY <3>3 DEF Coming
      <4>2. PICK j \in DOMAIN table[s] : table[s][j] = table[r][i] /\ Brings(s, j)
        BY <4>1
      <4>3. s \in good
        BY <1>12, <1>13, <2>2, <4>2
      <4>4. filled'[table[r][i]] = BlockSize
        BY <1>21, <3>1, <4>2, <4>3
      <4>5. QED BY <1>6, <3>1, <4>4
    <3>4. QED BY <1>3, <2>1, <3>2, <3>3
  <2>4. QED BY <1>1, <2>1, <2>3 DEF Loaded, Within
<1>23. \A b \in Blocks : Offered(b)'
  <2> SUFFICES ASSUME NEW b \in Blocks, key[b] # NoKey, filled'[b] # BlockSize
               PROVE  \E r \in Requests : \E i \in DOMAIN table'[r] :
                         /\ Hit(r)' /\ table'[r][i] = b
                         /\ \E j \in InvalidPositions(r, FALSE)' : j <= i
    BY <1>1 DEF Offered, NoKey
  <2>1. filled[b] = BlockSize \/ Coming(b)
    BY <1>1, <1>2 DEF RightEntries, Offered
  <2>2. filled[b] # BlockSize
    <3>1. filled[b] <= filled'[b] /\ filled'[b] \in 0 .. BlockSize
      BY <1>16
    <3>2. QED BY <1>6, <3>1
  <2>3. PICK s \in Requests : \E j \in DOMAIN table[s] : table[s][j] = b /\ Brings(s, j)
    BY <2>1, <2>2 DEF Coming
  <2>4. PICK j \in DOMAIN table[s] : table[s][j] = b /\ Brings(s, j)
    BY <2>3
  <2>5. s \notin good /\ sch.num[s] > 0
    BY <1>12, <1>21, <2>4
  <2>6. PICK k \in sch.sync[s] : table[s][k] \in bad
    BY <1>5, <2>5
  <2>7. Hit(s)' /\ k \in InvalidPositions(s, FALSE)'
    BY <1>18, <2>6
  <2>8. k \in DOMAIN table[s] /\ k \in Int /\ j \in Int /\ k * BlockSize <= Start(s)
    BY <1>8, <1>9, <2>4, <2>6
  <2>9. CASE j \in sch.sync[s]
    <3>1. CASE b \in bad
      <4>1. j \in InvalidPositions(s, FALSE)'
        BY <1>18, <2>4, <2>9, <3>1
      <4>2. j <= j
        BY <2>8
      <4>3. QED BY <1>1, <2>4, <2>7, <4>1, <4>2
    <3>2. CASE b \notin bad
      <4>1. b \in Synced \ bad
        BY <2>4, <2>5, <2>9, <3>2 DEF Synced
      <4>2. f[b] = BlockSize
        BY <1>3, <4>1
      <4>3. f[b] <= filled'[b] /\ filled'[b] \in 0 .. BlockSize
        BY <1>16
      <4>4. QED BY <1>6, <4>2, <4>3
    <3>3. QED BY <3>1, <3>2
  <2>10. CASE Before(s) < j * BlockSize
    <3>1. j * BlockSize \in Int /\ k * BlockSize \in Int /\ Start(s) \in Int
      BY <1>6, <1>7, <2>8
    <3>2. k * BlockSize < j * BlockSize
      BY <1>7, <2>8, <2>10, <3>1
    <3>3. k < j
      BY <2>8, <3>2, ConstantTypes, Monotone
    <3>4. k <= j
      BY <2>8, <3>3
    <3>5. QED BY <1>1, <2>4, <2>7, <3>4
  <2>11. QED BY <2>4, <2>9, <2>10 DEF Brings
<1>24. RightAnswers' /\ NoWrongAnswer'
  <2>1. \A r \in Requests : sch'.num[r] > 0 /\ r \notin sch'.right => Hit(r)'
    BY <1>4, <1>15, <1>19
  <2>2. QED BY <1>1, <1>2, <2>1 DEF RightAnswers, RightEntries, NoWrongAnswer
<1>25. RightEntries'
  <2>1. Blocks' = Blocks
    BY <1>1 DEF Blocks
  <2>2. QED BY <1>20, <1>22, <1>23, <1>24, <2>1 DEF RightEntries
<1>26. InOrder'
  <2>1. Listed' /\ FailuresRemembered'
    BY <1>1, <1>2, <1>4 DEF InOrder, Listed, FailuresRemembered
  <2>2. TablesInOrder'
    BY <1>1, <1>2, <1>7 DEF InOrder, TablesInOrder
  <2>3. InvalidIsRemote'
    <3> SUFFICES ASSUME cfg.async, NEW s \in Requests, req[s].status \in Counts
                 PROVE  Held(s)' \cap report'.invalid = {}
      BY <1>1 DEF InvalidIsRemote
    <3>1. Held(s)' = Held(s) /\ report'.invalid = report.invalid
      BY <1>1, <1>3, <1>13 DEF Held
    <3>2. Held(s) \cap report.invalid = {}
      BY <1>1, <1>2 DEF InOrder, InvalidIsRemote
    <3>3. QED BY <3>1, <3>2
  <2>4. StepLoads'
    BY <1>1, <1>2 DEF InOrder, StepLoads, Planning
  <2>5. OwnBlocks'
    BY <1>1, <1>2, TablesShrink DEF InOrder
  <2>6. QED BY <2>1, <2>2, <2>3, <2>4, <2>5 DEF InOrder
<1>27. QED BY <1>25, <1>26

\* A request whose invalid blocks nobody has marked is cut at the first of them, and its
\* blocks from there on are evicted.
LEMMA TruncateFirst ==
    ASSUME TypeOK, NEW acc \in Truncation, NEW r \in Requests, NEW async
    PROVE  LET z == Truncate(acc, r, async)
               bad == InvalidPositions(r, async)
           IN  /\ acc.evict \subseteq z.evict
               /\ bad # {} /\ (\A i \in bad : table[r][i] \notin acc.marked) =>
                     \E first \in bad :
                        /\ \A i \in bad : first <= i
                        /\ z.computed[r] = (first - 1) * BlockSize
                        /\ \A k \in first .. Len(table[r]) : table[r][k] \in z.evict
<1> DEFINE z == Truncate(acc, r, async)
           bad == InvalidPositions(r, async)
           unmarked == {i \in bad : table[r][i] \notin acc.marked}
           least == Min(unmarked)
           count == (least - 1) * BlockSize
           marks == {table[r][i] : i \in unmarked}
           evicts == {table[r][i] : i \in least .. Len(table[r])}
<1>1. bad \in SUBSET Nat
  BY InvalidPositionsFacts
<1> HIDE DEF bad
<1>2. z = IF bad = {} THEN acc
          ELSE IF unmarked = {}
          THEN [acc EXCEPT !.affected = @ \cup {r}, !.computed[r] = req[r].cached]
          ELSE [acc EXCEPT !.affected = @ \cup {r}, !.computed[r] = count,
                           !.marked = @ \cup marks, !.evict = @ \cup evicts]
  BY DEF Truncate, bad
<1>3. CASE bad = {} \/ unmarked = {}
  <2>1. z.evict = acc.evict
    <3> HIDE DEF unmarked, evicts, marks, count
    <3>1. QED BY <1>2, <1>3 DEF Truncation
  <2>2. bad # {} => \E i \in bad : table[r][i] \in acc.marked
    BY <1>3
  <2>3. QED BY <2>1, <2>2 DEF bad
<1>4. CASE bad # {} /\ unmarked # {}
  <2>1. z = [acc EXCEPT !.affected = @ \cup {r}, !.computed[r] = count,
                        !.marked = @ \cup marks, !.evict = @ \cup evicts]
    BY <1>2, <1>4
  <2>2. z.evict = acc.evict \cup evicts /\ z.computed[r] = count
    <3> HIDE DEF z, unmarked, evicts, marks, count
    <3>1. QED BY <2>1 DEF Truncation
  <2>3. least \in unmarked /\ \A i \in unmarked : least <= i
    <3>1. unmarked \in SUBSET Nat
      BY <1>1
    <3> HIDE DEF unmarked
    <3>2. QED BY <1>4, <3>1, MinIsLeast
  <2>4. \A k \in least .. Len(table[r]) : table[r][k] \in z.evict
    BY <2>2
  <2>5. least \in bad
    BY <2>3
  <2>6. (\A i \in bad : table[r][i] \notin acc.marked) => \A i \in bad : least <= i
    BY <2>3
  <2> HIDE DEF z, least
  <2>7. acc.evict \subseteq z.evict
    BY <2>2
  <2>8. z.computed[r] = (least - 1) * BlockSize
    BY <2>2
  <2>9. QED BY <2>4, <2>5, <2>6, <2>7, <2>8 DEF bad, z
<1>5. QED BY <1>3, <1>4

\* If nobody shares the invalid blocks of those on the list, each that has some is cut at
\* its own first one.
LEMMA TruncateExact ==
    ASSUME TypeOK, NEW q \in Seq(Requests), NoDuplicates(q), NEW async,
           \A r \in ToSet(q) : \A i \in InvalidPositions(r, async) :
              \A s \in Requests \ {r} : table[r][i] \notin Held(s)
    PROVE  LET z == TruncateAll(q, async)
           IN  \A r \in ToSet(q) : InvalidPositions(r, async) # {} =>
                 /\ r \in z.affected
                 /\ \E first \in InvalidPositions(r, async) :
                      /\ \A i \in InvalidPositions(r, async) : first <= i
                      /\ z.computed[r] = (first - 1) * BlockSize
                      /\ \A k \in first .. Len(table[r]) : table[r][k] \in z.evict
<1> DEFINE n == Len(q)
<1>1. n \in Nat /\ DOMAIN q = 1 .. n /\ \A i \in 1 .. n : q[i] \in Requests
  OBVIOUS
<1>2. PICK a : /\ a[0] = Untruncated
               /\ \A k \in 1 .. n : a[k] = Truncate(a[k - 1], q[k], async)
               /\ TruncateAll(q, async) = a[n]
  BY TruncateSteps
<1>3. \A i \in 1 .. n : q[i] \in ToSet(q)
  BY <1>1 DEF ToSet
<1>4. \A i, j \in 1 .. n : q[i] = q[j] => i = j
  BY <1>1 DEF NoDuplicates
<1> HIDE DEF n
<1> DEFINE Upto(k) == {q[j] : j \in 1 .. k}
           Marked(z, k) == \A b \in z.marked : \E s \in Upto(k) : b \in Held(s)
           Cut(z, r) ==
             /\ r \in z.affected
             /\ \E first \in InvalidPositions(r, async) :
                  /\ \A i \in InvalidPositions(r, async) : first <= i
                  /\ z.computed[r] = (first - 1) * BlockSize
                  /\ \A k \in first .. Len(table[r]) : table[r][k] \in z.evict
           Good(k) == /\ a[k] \in Truncation /\ Marked(a[k], k)
                      /\ \A r \in Upto(k) : InvalidPositions(r, async) # {} => Cut(a[k], r)
           Bad == {k \in 0 .. n : ~Good(k)}
<1>5. Good(0)
  <2>1. Untruncated \in Truncation /\ Untruncated.marked = {}
    BY StateTypes DEF Untruncated, Truncation
  <2>2. QED BY <1>2, <2>1
<1>6. ASSUME NEW k \in 1 .. n, Good(k - 1) PROVE Good(k)
  <2> DEFINE r == q[k]
             acc == a[k - 1]
             z == a[k]
             bad == InvalidPositions(r, async)
  <2>1. r \in Requests /\ Upto(k) = Upto(k - 1) \cup {r} /\ Upto(k - 1) \subseteq Requests
        /\ r \in ToSet(q)
    <3>1. 1 .. k = (1 .. k - 1) \cup {k}
      BY <1>1
    <3>2. \A j \in 1 .. k - 1 : q[j] \in Requests
      BY <1>1
    <3>3. QED BY <1>1, <1>3, <3>1, <3>2
  <2>2. r \notin Upto(k - 1)
    BY <1>1, <1>4
  <2>3. acc \in Truncation /\ Marked(acc, k - 1)
        /\ \A s \in Upto(k - 1) : InvalidPositions(s, async) # {} => Cut(acc, s)
    BY <1>6
  <2>4. z = Truncate(acc, r, async)
    BY <1>2
  <2> HIDE DEF Upto, acc, z, r, Cut
  <2>5. /\ z \in Truncation
        /\ z.marked \subseteq acc.marked \cup Held(r)
        /\ z.affected = IF bad = {} THEN acc.affected ELSE acc.affected \cup {r}
        /\ \A s \in Requests : s # r \/ bad = {} => z.computed[s] = acc.computed[s]
    <3>1. acc \in Truncation /\ r \in Requests
      BY <2>1, <2>3
    <3> HIDE DEF bad
    <3>2. /\ Truncate(acc, r, async) \in Truncation
          /\ Truncate(acc, r, async).marked \subseteq acc.marked \cup Held(r)
          /\ Truncate(acc, r, async).affected =
                IF bad = {} THEN acc.affected ELSE acc.affected \cup {r}
          /\ \A s \in Requests : s # r \/ bad = {} =>
                Truncate(acc, r, async).computed[s] = acc.computed[s]
          /\ bad # {} =>
              \/ \E i \in bad : Truncate(acc, r, async).computed[r] = (i - 1) * BlockSize
              \/ /\ Truncate(acc, r, async).computed[r] = req[r].cached
                 /\ \A i \in bad : table[r][i] \in acc.marked
      BY <3>1, TruncateFacts DEF bad
    <3>3. QED BY <2>4, <3>2
  <2>6. /\ acc.evict \subseteq z.evict
        /\ bad # {} /\ (\A i \in bad : table[r][i] \notin acc.marked) =>
              \E first \in bad :
                 /\ \A i \in bad : first <= i
                 /\ z.computed[r] = (first - 1) * BlockSize
                 /\ \A j \in first .. Len(table[r]) : table[r][j] \in z.evict
    BY <2>1, <2>3, <2>4, TruncateFirst
  <2>7. Marked(z, k)
    BY <2>1, <2>3, <2>5
  <2>8. ASSUME NEW s \in Upto(k - 1), InvalidPositions(s, async) # {} PROVE Cut(z, s)
    <3>1. Cut(acc, s) /\ s # r /\ s \in Requests
      BY <2>1, <2>2, <2>3, <2>8
    <3>2. z.computed[s] = acc.computed[s] /\ acc.affected \subseteq z.affected
      BY <2>5, <3>1
    <3>3. QED BY <2>6, <3>1, <3>2 DEF Cut
  <2>9. ASSUME bad # {} PROVE Cut(z, r)
    <3>1. \A i \in bad : table[r][i] \notin acc.marked
      BY <2>1, <2>2, <2>3
    <3>2. r \in z.affected
      BY <2>5, <2>9
    <3>3. QED BY <2>6, <2>9, <3>1, <3>2 DEF Cut
  <2>10. QED BY <2>1, <2>5, <2>7, <2>8, <2>9 DEF z
<1>7. ToSet(q) = Upto(n)
  BY <1>1 DEF ToSet
<1> HIDE DEF Good, Upto
<1>8. Bad = {}
  <2> SUFFICES ASSUME Bad # {} PROVE FALSE
    OBVIOUS
  <2>1. PICK m \in Bad : \A k \in Bad : m <= k
    <3>1. Bad \in SUBSET Nat
      OBVIOUS
    <3> HIDE DEF Bad
    <3>2. QED BY <3>1, LeastNat
  <2>2. m # 0
    BY <1>5, <2>1
  <2>3. m \in 1 .. n /\ m - 1 \in 0 .. n /\ ~(m <= m - 1)
    BY <1>1, <2>1, <2>2
  <2>4. m - 1 \notin Bad
    BY <2>1, <2>3
  <2>5. Good(m)
    BY <1>6, <2>3, <2>4
  <2>6. QED BY <2>1, <2>5
<1>9. Good(n)
  <2>1. n \in 0 .. n /\ n \notin Bad
    BY <1>1, <1>8
  <2>2. QED BY <2>1
<1>10. QED BY <1>2, <1>7, <1>9 DEF Good

\* In a careful deployment nobody shares an invalid block: the requests that count one are
\* running, there are none if the connector loads beside the steps, and everybody who
\* has one is cut at the first.
LEMMA InvalidOwners ==
    ASSUME TransferInv, InOrder, Careful, phase = "invalid",
           NEW r \in Requests, NEW async \in BOOLEAN,
           async => req[r].status = "WAITING_FOR_REMOTE_KVS",
           ~async => req[r].status = "RUNNING"
    PROVE  /\ ~async /\ cfg.async => InvalidPositions(r, async) = {}
           /\ \A i \in InvalidPositions(r, async) :
                 \A s \in Requests \ {r} : table[r][i] \notin Held(s)
<1> USE DEF TransferInv
<1>1. \A i \in InvalidPositions(r, async) :
         table[r][i] \in Blocks /\ table[r][i] \in Held(r) /\ table[r][i] \in report.invalid
  BY InvalidPositionsFacts
<1>2. ~async /\ cfg.async => InvalidPositions(r, async) = {}
  BY <1>1 DEF InOrder, InvalidIsRemote, Counts
<1>3. CASE cfg.async
  BY <1>1, <1>2, <1>3 DEF InvalidBlocksUnshared
<1>4. CASE ~cfg.async
  BY <1>1, <1>4, <1>2 DEF InOrder, OwnBlocks
<1>5. QED BY <1>2, <1>3, <1>4

\* What _handle_invalid_blocks does in a careful deployment: who has an invalid block is
\* cut at the first of them; who loads beside the steps and may try again is remembered
\* as failed, and the others are to finish and their blocks leave the cache.
LEMMA HandledFacts ==
    ASSUME TransferInv, InOrder, Careful, HandleInvalidBlocks
    PROVE  \E count \in [Requests -> Int], hits \in SUBSET Requests :
             /\ req' = [r \in Requests |-> [req[r] EXCEPT !.computed = count[r]]]
             /\ sch'.pending = {r \in Requests : sch.num[r] > 0} \ hits
             /\ sch'.failing = IF cfg.recompute THEN {} ELSE hits
             /\ failed_recving_kv_req_ids' = IF cfg.recompute THEN failed_recving_kv_req_ids \cup hits
                                            ELSE failed_recving_kv_req_ids
             /\ \A r \in Requests \ hits : count[r] = req[r].computed
             /\ \A r \in hits : \/ Hit(r) /\ ~cfg.async
                                \/ req[r].status = "WAITING_FOR_REMOTE_KVS" /\ cfg.async
             /\ \A r \in Requests : Hit(r) => r \in hits
             /\ \A r \in Requests : req[r].status = "WAITING_FOR_REMOTE_KVS" =>
                   (r \in hits <=> InvalidPositions(r, TRUE) # {})
             /\ \A r \in hits : \A async \in BOOLEAN :
                   async = (req[r].status = "WAITING_FOR_REMOTE_KVS") =>
                      \E first \in InvalidPositions(r, async) :
                         /\ \A i \in InvalidPositions(r, async) : first <= i
                         /\ count[r] = (first - 1) * BlockSize
                         /\ ~async => \A k \in first .. Len(table[r]) : key'[table[r][k]] = NoKey
             /\ \A b \in Blocks : key'[b] \in {NoKey, key[b]}
<1> USE DEF TransferInv
<1> DEFINE some == {r \in Requests : req[r].status = "WAITING_FOR_REMOTE_KVS"}
           remote == Only(waiting, some)
<1>1. PICK async : async = TruncateAll(remote, TRUE)
  OBVIOUS
<1>2. PICK sync : sync = TruncateAll(running, FALSE)
  OBVIOUS
<1>3. PICK hits : hits = async.affected \cup sync.affected
  OBVIOUS
<1>4. /\ phase = "invalid"
      /\ req' = [r \in Requests |->
                 IF r \in async.affected THEN [req[r] EXCEPT !.computed = async.computed[r]]
                 ELSE [req[r] EXCEPT !.computed = sync.computed[r]]]
      /\ key' = [b \in Blocks |-> IF ~cfg.recompute /\ b \in sync.evict THEN NoKey ELSE key[b]]
      /\ failed_recving_kv_req_ids' =
                 IF cfg.recompute THEN failed_recving_kv_req_ids \cup async.affected
                 ELSE failed_recving_kv_req_ids
      /\ sch' = [sch EXCEPT !.pending = {r \in Requests : sch.num[r] > 0} \ hits,
                            !.failing = IF cfg.recompute THEN {} ELSE hits]
  BY <1>1, <1>2, <1>3 DEF HandleInvalidBlocks
<1>5. /\ running \in Seq(Requests) /\ NoDuplicates(running)
      /\ waiting \in Seq(Requests) /\ NoDuplicates(waiting)
  BY QueueFacts DEF TypeOK
<1>6. /\ ToSet(running) = {r \in Requests : req[r].status = "RUNNING"}
      /\ some \subseteq ToSet(waiting)
  <2>1. sch.skipped = <<>>
    BY <1>4 DEF ScheduleStages
  <2>2. ToSet(sch.skipped) = {}
    BY <2>1 DEF ToSet
  <2>3. ToSet(running) \subseteq Requests
    BY QueueFacts
  <2>4. QED BY <2>2, <2>3 DEF InOrder, Listed, Waits, QueuesAgree
<1>7. remote \in Seq(Requests) /\ ToSet(remote) = some /\ NoDuplicates(remote)
  <2>1. some \subseteq ToSet(waiting)
    BY <1>6
  <2> HIDE DEF some
  <2>2. remote \in Seq(Requests) /\ ToSet(remote) = ToSet(waiting) \cap some /\ NoDuplicates(remote)
    BY <1>5, OnlyElements
  <2> HIDE DEF remote
  <2>3. QED BY <2>1, <2>2
<1>8. some # {} => cfg.async
  BY DEF LoadsUnderWay
<1>9. \A r \in Requests : \A as \in BOOLEAN :
        (as = (req[r].status = "WAITING_FOR_REMOTE_KVS")) /\ (~as => req[r].status = "RUNNING") =>
           /\ ~as /\ cfg.async => InvalidPositions(r, as) = {}
           /\ \A i \in InvalidPositions(r, as) :
                 \A s \in Requests \ {r} : table[r][i] \notin Held(s)
  BY <1>4, InvalidOwners
<1>10. \A r \in ToSet(remote) : \A i \in InvalidPositions(r, TRUE) :
          \A s \in Requests \ {r} : table[r][i] \notin Held(s)
  BY <1>7, <1>9
<1>11. \A r \in ToSet(running) :
          /\ cfg.async => InvalidPositions(r, FALSE) = {}
          /\ \A i \in InvalidPositions(r, FALSE) :
                \A s \in Requests \ {r} : table[r][i] \notin Held(s)
  BY <1>6, <1>9
<1> HIDE DEF remote
<1>12. /\ async \in Truncation /\ async.affected \subseteq ToSet(remote)
       /\ \A r \in async.affected : InvalidPositions(r, TRUE) # {}
  BY <1>1, <1>7, TruncateAllFacts
<1>13. \A r \in ToSet(remote) : InvalidPositions(r, TRUE) # {} =>
          /\ r \in async.affected
          /\ \E first \in InvalidPositions(r, TRUE) :
                /\ \A i \in InvalidPositions(r, TRUE) : first <= i
                /\ async.computed[r] = (first - 1) * BlockSize
  BY <1>1, <1>7, <1>10, TruncateExact
<1>14. /\ sync \in Truncation /\ sync.affected \subseteq ToSet(running)
       /\ \A r \in Requests : r \notin sync.affected => sync.computed[r] = req[r].computed
       /\ \A r \in sync.affected : InvalidPositions(r, FALSE) # {}
  BY <1>2, <1>5, TruncateAllFacts
<1>15. \A r \in ToSet(running) : InvalidPositions(r, FALSE) # {} =>
          /\ r \in sync.affected
          /\ \E first \in InvalidPositions(r, FALSE) :
                /\ \A i \in InvalidPositions(r, FALSE) : first <= i
                /\ sync.computed[r] = (first - 1) * BlockSize
                /\ \A k \in first .. Len(table[r]) : table[r][k] \in sync.evict
  BY <1>2, <1>5, <1>11, TruncateExact
<1>16. PICK count : count = [r \in Requests |-> IF r \in async.affected THEN async.computed[r]
                                                ELSE sync.computed[r]]
  OBVIOUS
<1>17. /\ count \in [Requests -> Int] /\ hits \in SUBSET Requests
       /\ req' = [r \in Requests |-> [req[r] EXCEPT !.computed = count[r]]]
  <2>1. count \in [Requests -> Int]
    BY <1>12, <1>14, <1>16 DEF Truncation
  <2>2. hits \in SUBSET Requests
    BY <1>3, <1>12, <1>14 DEF Truncation
  <2>3. QED BY <1>4, <1>16, <2>1, <2>2
<1>18. /\ sch'.pending = {r \in Requests : sch.num[r] > 0} \ hits
       /\ sch'.failing = IF cfg.recompute THEN {} ELSE hits
  BY <1>4 DEF TypeOK
<1>19. /\ \A r \in async.affected : r \in some /\ cfg.async
       /\ \A r \in sync.affected : req[r].status = "RUNNING" /\ ~cfg.async
  <2>1. \A r \in async.affected : r \in some /\ cfg.async
    BY <1>7, <1>8, <1>12
  <2>2. \A r \in sync.affected : req[r].status = "RUNNING" /\ ~cfg.async
    BY <1>6, <1>11, <1>14
  <2>3. QED BY <2>1, <2>2
<1>20. failed_recving_kv_req_ids' = IF cfg.recompute THEN failed_recving_kv_req_ids \cup hits
                                    ELSE failed_recving_kv_req_ids
  <2>1. cfg.recompute => sync.affected = {}
    BY <1>19 DEF Careful
  <2>2. QED BY <1>3, <1>4, <2>1
<1>21. \A r \in Requests \ hits : count[r] = req[r].computed
  BY <1>3, <1>14, <1>16
<1>22. \A r \in hits : \/ Hit(r) /\ ~cfg.async
                       \/ req[r].status = "WAITING_FOR_REMOTE_KVS" /\ cfg.async
  BY <1>3, <1>14, <1>19 DEF Hit
<1>23. \A r \in Requests : Hit(r) => r \in hits
  BY <1>3, <1>6, <1>15 DEF Hit
<1>24. \A r \in Requests : req[r].status = "WAITING_FOR_REMOTE_KVS" =>
          (r \in hits <=> InvalidPositions(r, TRUE) # {})
  BY <1>3, <1>7, <1>12, <1>13, <1>19
<1>25. ASSUME NEW r \in hits, NEW as \in BOOLEAN,
              as = (req[r].status = "WAITING_FOR_REMOTE_KVS")
       PROVE  \E first \in InvalidPositions(r, as) :
                 /\ \A i \in InvalidPositions(r, as) : first <= i
                 /\ count[r] = (first - 1) * BlockSize
                 /\ ~as => \A k \in first .. Len(table[r]) : key'[table[r][k]] = NoKey
  <2>1. r \in Requests
    BY <1>17
  <2>2. CASE as
    <3>1. as = TRUE /\ r \in some
      BY <1>25, <2>1, <2>2
    <3>2. r \in async.affected
      BY <1>3, <1>19, <3>1
    <3>3. count[r] = async.computed[r] /\ InvalidPositions(r, TRUE) # {} /\ r \in ToSet(remote)
      BY <1>7, <1>12, <1>16, <2>1, <3>1, <3>2
    <3>4. PICK first \in InvalidPositions(r, TRUE) :
                /\ \A i \in InvalidPositions(r, TRUE) : first <= i
                /\ async.computed[r] = (first - 1) * BlockSize
      BY <1>13, <3>3
    <3>5. QED BY <3>1, <3>3, <3>4
  <2>3. CASE ~as
    <3>1. as = FALSE /\ r \notin async.affected
      BY <1>19, <1>25, <2>3
    <3>2. r \in sync.affected
      BY <1>3, <3>1
    <3>3. /\ count[r] = sync.computed[r] /\ InvalidPositions(r, FALSE) # {} /\ r \in ToSet(running)
          /\ ~cfg.recompute
      BY <1>14, <1>16, <1>19, <2>1, <3>1, <3>2 DEF Careful
    <3>4. PICK first \in InvalidPositions(r, FALSE) :
                /\ \A i \in InvalidPositions(r, FALSE) : first <= i
                /\ sync.computed[r] = (first - 1) * BlockSize
                /\ \A k \in first .. Len(table[r]) : table[r][k] \in sync.evict
      BY <1>15, <3>3
    <3>5. \A k \in first .. Len(table[r]) : key'[table[r][k]] = NoKey
      <4> TAKE k \in first .. Len(table[r])
      <4>1. first \in Nat /\ first \in 1 .. Len(table[r])
        BY <2>1, InvalidPositionsFacts
      <4>2. k \in DOMAIN table[r]
        BY <2>1, <4>1, StateTypes
      <4>3. table[r][k] \in Blocks
        BY <2>1, <4>2, StateTypes
      <4>4. QED BY <1>4, <3>3, <3>4, <4>3
    <3>6. QED BY <3>1, <3>3, <3>4, <3>5
  <2>4. QED BY <2>2, <2>3
<1>26. \A b \in Blocks : key'[b] \in {NoKey, key[b]}
  BY <1>4
<1>27. QED BY <1>17, <1>18, <1>20, <1>21, <1>22, <1>23, <1>24, <1>25, <1>26

\* An invalid block of a request that waits for a load is at one of its invalid positions,
\* unless the request knows already that it ends before that block; and then what it
\* counts reaches beyond the beginning of each of them.
LEMMA RemotePositions ==
    ASSUME TypeOK, NEW r \in Requests
    PROVE  /\ \A i \in DOMAIN table[r] : table[r][i] \in report.invalid =>
                 \/ i \in InvalidPositions(r, TRUE)
                 \/ r \in failed_recving_kv_req_ids /\ req[r].computed <= (i - 1) * BlockSize
           /\ r \in failed_recving_kv_req_ids =>
                 \A i \in InvalidPositions(r, TRUE) : (i - 1) * BlockSize <= req[r].computed
<1> DEFINE failed == r \in failed_recving_kv_req_ids
           l == Len(table[r])
           n == IF failed THEN req[r].computed ELSE l * BlockSize
           m == CeilDiv(n, BlockSize)
<1>1. BlockSize \in Nat /\ BlockSize > 0 /\ l \in Nat /\ req[r].computed \in Int
      /\ DOMAIN table[r] = 1 .. l
  BY ConstantTypes, StateTypes
<1>2. n \in Int
  <2>1. l * BlockSize \in Int
    BY <1>1
  <2>2. QED BY <1>1, <2>1
<1>3. InvalidPositions(r, TRUE) = {i \in 1 .. Least(m, l) : table[r][i] \in report.invalid}
  BY DEF InvalidPositions
<1>4. (~failed => n = l * BlockSize) /\ (failed => n = req[r].computed)
  OBVIOUS
<1> HIDE DEF n
<1>5. m \in Int /\ n <= m * BlockSize /\ (m - 1) * BlockSize < n
  BY <1>1, <1>2, CeilDivFacts
<1> HIDE DEF m, failed, l
<1>6. ASSUME NEW i \in 1 .. l, ~(i <= m) PROVE failed /\ req[r].computed <= (i - 1) * BlockSize
  <2> DEFINE x == m * BlockSize
             h == i - 1
             y == h * BlockSize
             z == l * BlockSize
  <2>1. h \in Int /\ i \in Int /\ m <= h /\ m < l
    BY <1>1, <1>5, <1>6
  <2>2. x \in Int /\ y \in Int /\ z \in Int
    BY <1>1, <1>5, <2>1
  <2>3. ~(h < m)
    BY <1>5, <2>1
  <2> HIDE DEF h
  <2>4. ~(y < x) /\ x < z
    BY <1>1, <1>5, <2>1, <2>3, Monotone
  <2>5. n <= x
    BY <1>5
  <2> HIDE DEF x, y, z
  <2>6. n <= y /\ n < z
    BY <1>2, <2>2, <2>4, <2>5
  <2>7. failed /\ req[r].computed <= y
    BY <1>2, <1>4, <2>2, <2>6 DEF z
  <2>8. QED BY <2>7 DEF y, h
<1>7. ASSUME NEW i \in DOMAIN table[r], table[r][i] \in report.invalid
      PROVE  \/ i \in InvalidPositions(r, TRUE)
             \/ failed /\ req[r].computed <= (i - 1) * BlockSize
  <2>1. i \in 1 .. l
    BY <1>1
  <2>2. CASE i <= m
    <3>1. i \in 1 .. Least(m, l)
      BY <1>1, <1>5, <2>1, <2>2 DEF Least
    <3>2. QED BY <1>3, <1>7, <3>1
  <2>3. QED BY <1>6, <2>1, <2>2
<1>8. ASSUME failed, NEW i \in InvalidPositions(r, TRUE) PROVE (i - 1) * BlockSize <= req[r].computed
  <2> DEFINE h == i - 1
             k == m - 1
  <2>1. h \in Int /\ k \in Int /\ h <= k
    <3>1. i \in 1 .. Least(m, l)
      BY <1>3
    <3>2. i \in Int /\ i <= m
      BY <1>1, <1>5, <3>1 DEF Least
    <3>3. QED BY <1>5, <3>2
  <2>2. ~(k < h)
    BY <2>1
  <2>3. k * BlockSize < n
    BY <1>5
  <2> HIDE DEF h, k
  <2>4. ~(k * BlockSize < h * BlockSize) /\ k * BlockSize \in Int /\ h * BlockSize \in Int
    BY <1>1, <2>1, <2>2, Monotone
  <2>5. h * BlockSize <= req[r].computed
    BY <1>1, <1>2, <1>4, <1>8, <2>3, <2>4
  <2>6. QED BY <2>5 DEF h
<1>9. QED BY <1>7, <1>8 DEF failed

LEMMA EntriesOfHandleInvalidBlocks ==
    TransferInv /\ EntriesInv /\ HandleInvalidBlocks => EntriesInv'
<1> SUFFICES ASSUME TransferInv, EntriesInv, HandleInvalidBlocks PROVE EntriesInv'
  OBVIOUS
<1>1. /\ phase = "invalid" /\ phase' = "answers" /\ cfg' = cfg
      /\ running' = running /\ waiting' = waiting /\ table' = table
      /\ filled' = filled /\ load' = load /\ report' = report
  BY DEF HandleInvalidBlocks, workerVars
<1> SUFFICES ASSUME Careful PROVE InOrder' /\ RightEntries'
  BY <1>1 DEF EntriesInv, Careful
<1>2. InOrder /\ RightEntries /\ TypeOK /\ ScheduleStages /\ LoadsUnderWay
  BY DEF EntriesInv, TransferInv
<1>3. PICK count \in [Requests -> Int], hits \in SUBSET Requests :
         /\ req' = [r \in Requests |-> [req[r] EXCEPT !.computed = count[r]]]
         /\ sch'.pending = {r \in Requests : sch.num[r] > 0} \ hits
         /\ sch'.failing = IF cfg.recompute THEN {} ELSE hits
         /\ failed_recving_kv_req_ids' = IF cfg.recompute THEN failed_recving_kv_req_ids \cup hits
                                        ELSE failed_recving_kv_req_ids
         /\ \A r \in Requests \ hits : count[r] = req[r].computed
         /\ \A r \in hits : \/ Hit(r) /\ ~cfg.async
                            \/ req[r].status = "WAITING_FOR_REMOTE_KVS" /\ cfg.async
         /\ \A r \in Requests : Hit(r) => r \in hits
         /\ \A r \in Requests : req[r].status = "WAITING_FOR_REMOTE_KVS" =>
               (r \in hits <=> InvalidPositions(r, TRUE) # {})
         /\ \A r \in hits : \A async \in BOOLEAN :
               async = (req[r].status = "WAITING_FOR_REMOTE_KVS") =>
                  \E first \in InvalidPositions(r, async) :
                     /\ \A i \in InvalidPositions(r, async) : first <= i
                     /\ count[r] = (first - 1) * BlockSize
                     /\ ~async => \A k \in first .. Len(table[r]) : key'[table[r][k]] = NoKey
         /\ \A b \in Blocks : key'[b] \in {NoKey, key[b]}
  BY <1>2, HandledFacts
<1>4. \A r \in Requests :
         /\ req'[r].status = req[r].status /\ req'[r].tokens = req[r].tokens
         /\ req'[r].cached = req[r].cached /\ req'[r].preempted = req[r].preempted
         /\ req'[r].wrong = req[r].wrong /\ req'[r].computed = count[r]
  <2>1. \A r \in Requests : req[r] \in RequestType
    BY <1>2 DEF TypeOK, RequestType
  <2>2. QED BY <1>3, <2>1 DEF RequestType
<1>5. \E pending, failing : sch' = [sch EXCEPT !.pending = pending, !.failing = failing]
  BY DEF HandleInvalidBlocks
<1>6. sch'.skipped = sch.skipped /\ sch'.num = sch.num /\ sch'.sync = sch.sync
      /\ sch'.right = sch.right
  BY <1>2, <1>5 DEF TypeOK
<1>7. \A r \in Requests : /\ Before(r) = req[r].computed /\ Behind(r) = req[r].computed
                          /\ Before(r)' = count[r] /\ Behind(r)' = count[r]
  BY <1>1, <1>4 DEF Before, Behind, Planning
<1>8. \A b \in Blocks : ~Coming(b)
  BY <1>1 DEF Coming, Planning
<1>9. \A r \in Requests : \A i \in DOMAIN table[r] : i \in 1 .. Len(table[r]) /\ table[r][i] \in Blocks
  BY <1>2, StateTypes
<1>10. \A r \in hits : Hit(r) => ~cfg.recompute /\ req[r].status = "RUNNING"
  BY <1>3 DEF Careful, Hit
<1>11. \A r \in Requests : Counted(r)'
  <2> TAKE r \in Requests
  <2> SUFFICES ASSUME req[r].status \in Counts, NEW i \in DOMAIN table[r], r \notin sch'.failing
               PROVE  Within(count[r], i) <= filled[table[r][i]]
    BY <1>1, <1>4, <1>7 DEF Counted, Within
  <2>1. ~Hit(r) /\ r \notin hits
    BY <1>3, <1>10 DEF Counts, Hit
  <2>2. Within(req[r].computed, i) <= filled[table[r][i]]
    BY <1>1, <1>2, <1>7, <1>8, <1>9, <2>1 DEF RightEntries, Counted
  <2>3. QED BY <1>3, <2>1, <2>2
<1>12. \A r \in Requests : Loaded(r)'
  <2> TAKE r \in Requests
  <2> SUFFICES ASSUME req[r].status = "WAITING_FOR_REMOTE_KVS" PROVE Loaded(r)'
    BY <1>4 DEF Loaded
  <2>1. /\ Least(Len(table[r]) * BlockSize, req[r].tokens) <= PromptLen[r]
        /\ \A i \in DOMAIN table[r] :
           \/ Within(PromptLen[r], i) <= filled[table[r][i]]
           \/ i \in DOMAIN load[r]
           \/ table[r][i] \in report.invalid
           \/ r \in failed_recving_kv_req_ids /\ req[r].computed <= (i - 1) * BlockSize
    BY <1>1, <1>2, <1>8, <1>9 DEF RightEntries, Loaded
  <2>2. CASE r \notin hits
    <3>1. InvalidPositions(r, TRUE) = {}
      BY <1>3, <2>2
    <3>2. \A i \in DOMAIN table[r] : table[r][i] \in report.invalid =>
             r \in failed_recving_kv_req_ids /\ req[r].computed <= (i - 1) * BlockSize
      BY <1>2, <3>1, RemotePositions
    <3>3. count[r] = req[r].computed /\ failed_recving_kv_req_ids \subseteq failed_recving_kv_req_ids'
      BY <1>3, <2>2
    <3>4. \A i \in DOMAIN table[r] :
           \/ Within(PromptLen[r], i) <= filled[table[r][i]]
           \/ i \in DOMAIN load[r]
           \/ r \in failed_recving_kv_req_ids' /\ count[r] <= (i - 1) * BlockSize
      BY <2>1, <3>2, <3>3
    <3>5. QED BY <1>1, <1>4, <2>1, <3>4 DEF Loaded, Within
  <2>3. CASE r \in hits /\ ~cfg.recompute
    <3>1. r \in sch'.failing
      BY <1>3, <2>3
    <3>2. QED BY <1>1, <1>4, <2>1, <3>1 DEF Loaded
  <2>4. CASE r \in hits /\ cfg.recompute
    <3>1. r \in failed_recving_kv_req_ids'
      BY <1>3, <2>4
    <3>2. PICK first \in InvalidPositions(r, TRUE) :
                     /\ \A i \in InvalidPositions(r, TRUE) : first <= i
                     /\ count[r] = (first - 1) * BlockSize
      BY <1>3, <2>4
    <3>3. first \in Nat /\ count[r] \in Int /\ BlockSize \in Nat /\ BlockSize > 0
          /\ req[r].computed \in Int
      BY <1>2, InvalidPositionsFacts, ConstantTypes, StateTypes
    <3>4. ASSUME NEW i \in DOMAIN table[r],
                 \/ table[r][i] \in report.invalid
                 \/ r \in failed_recving_kv_req_ids /\ req[r].computed <= (i - 1) * BlockSize
          PROVE  count[r] <= (i - 1) * BlockSize
      <4>1. i \in Nat
        BY <1>9
      <4>2. CASE i \in InvalidPositions(r, TRUE)
        <5> DEFINE h == i - 1
                   g == first - 1
        <5>1. h \in Int /\ g \in Int /\ ~(h < g)
          <6>1. first <= i
            BY <3>2, <4>2
          <6>2. QED BY <3>3, <4>1, <6>1
        <5> HIDE DEF h, g
        <5>2. ~(h * BlockSize < g * BlockSize) /\ h * BlockSize \in Int /\ g * BlockSize \in Int
          BY <3>3, <5>1, Monotone
        <5>3. count[r] = g * BlockSize
          BY <3>2 DEF g
        <5>4. count[r] <= h * BlockSize
          BY <5>2, <5>3
        <5>5. QED BY <5>4 DEF h
      <4>3. CASE r \in failed_recving_kv_req_ids /\ req[r].computed <= (i - 1) * BlockSize
        <5>1. count[r] <= req[r].computed
          BY <1>2, <3>2, <4>3, RemotePositions
        <5> DEFINE y == (i - 1) * BlockSize
        <5>2. y \in Int /\ req[r].computed <= y
          BY <3>3, <4>1, <4>3
        <5> HIDE DEF y
        <5>3. count[r] <= y
          BY <3>3, <5>1, <5>2
        <5>4. QED BY <5>3 DEF y
      <4>4. QED BY <1>2, <3>4, <4>2, <4>3, RemotePositions
    <3>5. \A i \in DOMAIN table[r] :
           \/ Within(PromptLen[r], i) <= filled[table[r][i]]
           \/ i \in DOMAIN load[r]
           \/ r \in failed_recving_kv_req_ids' /\ count[r] <= (i - 1) * BlockSize
      BY <2>1, <3>1, <3>4
    <3>6. QED BY <1>1, <1>4, <2>1, <3>5 DEF Loaded, Within
  <2>5. QED BY <2>2, <2>3, <2>4
<1>13. \A b \in Blocks : Offered(b)'
  <2> SUFFICES ASSUME NEW b \in Blocks, key'[b] # NoKey PROVE filled[b] = BlockSize
    BY <1>1 DEF Offered, NoKey, Blocks
  <2>1. key'[b] = key[b]
    BY <1>3
  <2> SUFFICES ASSUME filled[b] # BlockSize PROVE FALSE
    OBVIOUS
  <2>2. \E r \in Requests : \E i \in DOMAIN table[r] :
              /\ Hit(r) /\ table[r][i] = b
              /\ \E j \in InvalidPositions(r, FALSE) : j <= i
    BY <1>2, <1>8, <2>1 DEF RightEntries, Offered
  <2>3. PICK r \in Requests : \E i \in DOMAIN table[r] :
              /\ Hit(r) /\ table[r][i] = b
              /\ \E j \in InvalidPositions(r, FALSE) : j <= i
    BY <2>2
  <2>4. PICK i \in DOMAIN table[r] : /\ Hit(r) /\ table[r][i] = b
                                     /\ \E j \in InvalidPositions(r, FALSE) : j <= i
    BY <2>3
  <2>5. r \in hits /\ req[r].status = "RUNNING"
    BY <1>3, <2>4 DEF Hit
  <2>6. PICK first \in InvalidPositions(r, FALSE) :
            /\ \A k \in InvalidPositions(r, FALSE) : first <= k
            /\ \A k \in first .. Len(table[r]) : key'[table[r][k]] = NoKey
    <3>1. FALSE = (req[r].status = "WAITING_FOR_REMOTE_KVS")
      BY <2>5
    <3>2. QED BY <1>3, <2>5, <3>1
  <2>7. i \in first .. Len(table[r])
    <3>1. PICK j \in InvalidPositions(r, FALSE) : j <= i
      BY <2>4
    <3>2. first <= j /\ first \in Nat /\ j \in Nat
      BY <1>2, <2>6, <3>1, InvalidPositionsFacts
    <3>3. QED BY <1>9, <3>1, <3>2
  <2>8. QED BY <2>4, <2>6, <2>7
<1>14. RightAnswers' /\ NoWrongAnswer'
  <2>1. \A r \in Requests : sch.num[r] > 0 /\ r \notin sch.right => Hit(r)
    BY <1>1, <1>2 DEF RightEntries, RightAnswers
  <2>2. sch'.pending \subseteq sch'.right
    BY <1>3, <1>6, <2>1
  <2>3. QED BY <1>1, <1>2, <1>4, <2>2 DEF RightAnswers, RightEntries, NoWrongAnswer
<1>15. RightEntries'
  <2>1. Blocks' = Blocks
    BY <1>1 DEF Blocks
  <2>2. QED BY <1>11, <1>12, <1>13, <1>14, <2>1 DEF RightEntries
<1>16. \A r \in Requests : req[r].status \in Counts => count[r] <= Len(table[r]) * BlockSize
  <2> SUFFICES ASSUME NEW r \in Requests, req[r].status \in Counts
               PROVE  count[r] <= Len(table[r]) * BlockSize
    OBVIOUS
  <2>1. CASE r \notin hits
    BY <1>2, <1>3, <2>1 DEF InOrder, TablesInOrder
  <2>2. CASE r \in hits
    <3>1. FALSE = (req[r].status = "WAITING_FOR_REMOTE_KVS")
      BY DEF Counts
    <3>2. PICK first \in InvalidPositions(r, FALSE) : count[r] = (first - 1) * BlockSize
      BY <1>3, <2>2, <3>1
    <3> DEFINE l == Len(table[r])
               g == first - 1
    <3>3. l \in Int /\ g \in Int /\ ~(l < g) /\ BlockSize \in Nat /\ BlockSize > 0
      <4>1. first \in Nat /\ first \in 1 .. Len(table[r]) /\ Len(table[r]) \in Nat
        BY <1>2, <3>2, InvalidPositionsFacts, StateTypes
      <4>2. QED BY <4>1, ConstantTypes
    <3>4. count[r] = g * BlockSize
      BY <3>2
    <3> HIDE DEF l, g
    <3>5. ~(l * BlockSize < g * BlockSize) /\ l * BlockSize \in Int /\ g * BlockSize \in Int
      BY <3>3, Monotone
    <3>6. count[r] <= l * BlockSize
      BY <3>4, <3>5
    <3>7. QED BY <3>6 DEF l
  <2>3. QED BY <2>1, <2>2
<1>17. InOrder'
  <2>1. Listed'
    BY <1>1, <1>2, <1>4, <1>6 DEF InOrder, Listed
  <2>2. TablesInOrder'
    BY <1>1, <1>2, <1>4, <1>7, <1>16 DEF InOrder, TablesInOrder
  <2>3. FailuresRemembered'
    <3> SUFFICES ASSUME NEW r \in failed_recving_kv_req_ids'
                 PROVE  req'[r].status \in {"WAITING_FOR_REMOTE_KVS", "FINISHED"}
      BY DEF FailuresRemembered
    <3>1. CASE r \in failed_recving_kv_req_ids
      <4>1. r \in Requests
        BY <1>2, <3>1 DEF TypeOK
      <4>2. QED BY <1>2, <1>4, <3>1, <4>1 DEF InOrder, FailuresRemembered
    <3>2. CASE r \in hits /\ cfg.recompute
      <4>1. r \in Requests /\ req[r].status = "WAITING_FOR_REMOTE_KVS"
        BY <1>3, <1>10, <3>2
      <4>2. QED BY <1>4, <4>1
    <3>3. QED BY <1>3, <3>1, <3>2
  <2>4. InvalidIsRemote'
    BY <1>1 DEF InvalidIsRemote
  <2>5. StepLoads'
    <3>1. phase' \notin Planning \cup {"execute"} /\ phase' # "execute"
      BY <1>1 DEF Planning
    <3>2. QED BY <1>1, <1>2, <1>4, <3>1 DEF InOrder, StepLoads
  <2>6. OwnBlocks'
    BY <1>1, <1>2, <1>3, TablesShrink DEF InOrder
  <2>7. QED BY <2>1, <2>2, <2>3, <2>4, <2>5, <2>6 DEF InOrder
<1>18. QED BY <1>15, <1>17

\* Answers and the end of an update: some requests finish, and nothing else is given up
\* that entries were promised to.
LEMMA FinishingEntries ==
    ASSUME TypeOK, InOrder, RightEntries, NEW some \in SUBSET Requests,
           phase = "answers", phase' \in {"answers", "engine"},
           UNCHANGED <<cfg, key, filled, load, failed_recving_kv_req_ids>>,
           \A s \in Requests :
              /\ req'[s].status = IF s \in some THEN "FINISHED" ELSE req[s].status
              /\ req'[s].computed = req[s].computed /\ req'[s].cached = req[s].cached
              /\ req'[s].preempted = req[s].preempted /\ req'[s].wrong = req[s].wrong
              /\ req[s].status \in Waits => req'[s].tokens = req[s].tokens
              /\ table'[s] = table[s] \/ table'[s] = <<>>
              /\ s \notin some /\ req[s].status \in Counts \cup Waits => table'[s] = table[s]
              /\ s \notin some /\ s \in ToSet(running) => s \in ToSet(running')
              /\ s \notin some /\ s \in ToSet(sch.skipped) \cup ToSet(waiting) =>
                    s \in ToSet(sch'.skipped) \cup ToSet(waiting'),
           phase' = "answers" => /\ sch'.failing = sch.failing /\ sch'.right = sch.right
                                 /\ sch'.pending \subseteq sch.pending,
           phase' = "engine" => sch.failing \subseteq some
    PROVE  InOrder' /\ RightEntries'
<1>1. /\ phase' \notin Planning \cup {"execute", "invalid"}
      /\ phase \notin Planning \cup {"execute", "invalid"} /\ Blocks' = Blocks
  BY DEF Planning, Blocks
<1>2. \A s \in Requests :
         /\ Before(s) = req[s].computed /\ Behind(s) = req[s].computed
         /\ Before(s)' = req[s].computed /\ Behind(s)' = req[s].computed
  BY <1>1 DEF Before, Behind
<1>3. \A b \in Blocks : ~Coming(b)
  BY <1>1 DEF Coming
<1>4. \A s \in Requests : \A i \in DOMAIN table[s] : table[s][i] \in Blocks
  BY StateTypes
<1>5. \A s \in Requests : Counted(s)'
  <2> SUFFICES ASSUME NEW s \in Requests, req'[s].status \in Counts PROVE Counted(s)'
    BY DEF Counted
  <2>1. s \notin some /\ req[s].status \in Counts /\ table'[s] = table[s]
    BY DEF Counts
  <2>2. \A i \in DOMAIN table[s] :
           \/ Within(req[s].computed, i) <= filled[table[s][i]]
           \/ s \in sch.failing
    BY <1>1, <1>2, <1>3, <1>4, <2>1 DEF RightEntries, Counted
  <2>3. s \in sch.failing => phase' = "answers" /\ s \in sch'.failing
    BY <2>1
  <2>4. QED BY <1>2, <2>1, <2>2, <2>3 DEF Counted, Within
<1>6. \A s \in Requests : Loaded(s)'
  <2> SUFFICES ASSUME NEW s \in Requests, req'[s].status = "WAITING_FOR_REMOTE_KVS" PROVE Loaded(s)'
    BY DEF Loaded
  <2>1. /\ s \notin some /\ req[s].status = "WAITING_FOR_REMOTE_KVS" /\ table'[s] = table[s]
        /\ req'[s].tokens = req[s].tokens /\ req'[s].computed = req[s].computed
    BY DEF Waits
  <2>2. /\ Least(Len(table[s]) * BlockSize, req[s].tokens) <= PromptLen[s]
        /\ \A i \in DOMAIN table[s] :
           \/ Within(PromptLen[s], i) <= filled[table[s][i]]
           \/ i \in DOMAIN load[s]
           \/ s \in failed_recving_kv_req_ids /\ req[s].computed <= (i - 1) * BlockSize
           \/ s \in sch.failing
    BY <1>1, <1>3, <1>4, <2>1 DEF RightEntries, Loaded
  <2>3. s \in sch.failing => phase' = "answers" /\ s \in sch'.failing
    BY <2>1
  <2>4. QED BY <2>1, <2>2, <2>3 DEF Loaded, Within
<1>7. \A b \in Blocks : Offered(b)'
  BY <1>1, <1>3 DEF RightEntries, Offered, NoKey
<1>8. RightAnswers' /\ NoWrongAnswer'
  BY <1>1 DEF RightEntries, RightAnswers, NoWrongAnswer
<1>9. RightEntries'
  BY <1>1, <1>5, <1>6, <1>7, <1>8 DEF RightEntries
<1>10. InOrder'
  <2>1. Listed'
    BY DEF InOrder, Listed, Waits
  <2>2. TablesInOrder'
    <3> SUFFICES ASSUME NEW s \in Requests
                 PROVE  /\ IsInjective(table'[s])
                        /\ req'[s].status \in Counts => req[s].computed <= Len(table'[s]) * BlockSize
      BY <1>2 DEF TablesInOrder
    <3>1. IsInjective(table'[s])
      BY DEF InOrder, TablesInOrder, IsInjective
    <3>2. req'[s].status \in Counts => s \notin some /\ req[s].status \in Counts /\ table'[s] = table[s]
      BY DEF Counts
    <3>3. QED BY <3>1, <3>2 DEF InOrder, TablesInOrder
  <2>3. FailuresRemembered'
    <3>1. failed_recving_kv_req_ids \subseteq Requests
      BY DEF TypeOK
    <3>2. QED BY <3>1 DEF InOrder, FailuresRemembered
  <2>4. InvalidIsRemote'
    BY <1>1 DEF InvalidIsRemote
  <2>5. StepLoads'
    <3>1. \A s \in Requests : req'[s].status \in Waits \cup {"NONE"} => req'[s].status = req[s].status
      BY DEF Waits
    <3>2. QED BY <1>1, <3>1 DEF InOrder, StepLoads
  <2>6. OwnBlocks'
    BY TablesShrink DEF InOrder
  <2>7. QED BY <2>1, <2>2, <2>3, <2>4, <2>5, <2>6 DEF InOrder
<1>11. QED BY <1>9, <1>10

LEMMA EntriesOfAnswer ==
    \A r \in Requests : TransferInv /\ EntriesInv /\ Answer(r) => EntriesInv'
<1> SUFFICES ASSUME NEW r \in Requests, TransferInv, EntriesInv, Answer(r) PROVE EntriesInv'
  OBVIOUS
<1> DEFINE samples == req[r].computed = req[r].tokens
           ends == samples /\ req[r].tokens + 1 - PromptLen[r] = MaxTokens[r]
<1>1. /\ phase = "answers" /\ phase' = "answers" /\ r \in sch.pending
      /\ sch' = [sch EXCEPT !.pending = @ \ {r}]
      /\ req' = [req EXCEPT
                 ![r].tokens = IF samples THEN @ + 1 ELSE @,
                 ![r].wrong = @ \/ (samples /\ r \notin sch.right),
                 ![r].status = IF ends THEN "FINISHED" ELSE @]
      /\ running' = IF ends THEN Without(running, r) ELSE running
      /\ FreeRequests(IF ends THEN {r} ELSE {})
      /\ waiting' = waiting
      /\ UNCHANGED <<cfg, key, filled, load, failed_recving_kv_req_ids>>
  BY DEF Answer, recvVars
<1> SUFFICES ASSUME Careful PROVE InOrder' /\ RightEntries'
  BY <1>1 DEF EntriesInv, Careful
<1>2. InOrder /\ RightEntries /\ TypeOK /\ QueuesAgree
  BY DEF EntriesInv, TransferInv
<1>3. PICK some : some = IF ends THEN {r} ELSE {}
  OBVIOUS
<1>4. some \in SUBSET Requests /\ FreeRequests(some) /\ (r \in some <=> ends)
      /\ \A s \in Requests : s # r => s \notin some
  BY <1>1, <1>3
<1>5. req[r].status \in Waits => ~samples
  BY <1>2, StateTypes DEF TransferInv, RemoteHasWork, WaitingHasWork, Waits
<1>6. sch'.skipped = sch.skipped /\ sch'.failing = sch.failing /\ sch'.right = sch.right
      /\ sch'.pending = sch.pending \ {r}
  BY <1>1, <1>2 DEF TypeOK
<1>7. r \in sch.right
  BY <1>1, <1>2 DEF RightEntries, RightAnswers
<1> HIDE DEF samples, ends
<1>8. \A s \in Requests : s # r => req'[s] = req[s]
  BY <1>1, <1>2 DEF TypeOK
<1>9. /\ req'[r].computed = req[r].computed /\ req'[r].cached = req[r].cached
      /\ req'[r].preempted = req[r].preempted
      /\ req'[r].status = IF ends THEN "FINISHED" ELSE req[r].status
      /\ req'[r].tokens = IF samples THEN req[r].tokens + 1 ELSE req[r].tokens
      /\ req'[r].wrong = (req[r].wrong \/ (samples /\ r \notin sch.right))
  BY <1>1, <1>2 DEF TypeOK
<1>10. req'[r].wrong = req[r].wrong
  <2>1. req[r].wrong \in BOOLEAN
    BY <1>2, StateTypes
  <2>2. QED BY <1>7, <1>9, <2>1
<1>11. PICK keeps \in SUBSET some :
           \A s \in Requests : table'[s] = IF s \in some \ keeps THEN <<>> ELSE table[s]
  <2>1. TypeOK /\ some \in SUBSET Requests /\ FreeRequests(some)
    BY <1>2, <1>4
  <2>2. \E keeps \in SUBSET some :
           /\ held' = held \cup keeps /\ some \cap loading \subseteq keeps
           /\ \A s \in Requests : table'[s] = IF s \in some \ keeps THEN <<>> ELSE table[s]
    BY ONLY <2>1, FreeFacts
  <2>3. QED BY ONLY <2>2
<1>12. \A s \in Requests : s \notin some /\ s \in ToSet(running) => s \in ToSet(running')
  <2>1. CASE ends
    <3>1. running \in Seq(Requests) /\ NoDuplicates(running)
      BY <1>2, QueueFacts DEF TypeOK
    <3>2. ToSet(running') = ToSet(running) \ {r}
      BY <1>1, <2>1, <3>1, WithoutElements
    <3>3. QED BY <1>4, <2>1, <3>2
  <2>2. CASE ~ends
    BY <1>1, <2>2
  <2>3. QED BY <2>1, <2>2
<1>13. \A s \in Requests :
              /\ req'[s].status = IF s \in some THEN "FINISHED" ELSE req[s].status
              /\ req'[s].computed = req[s].computed /\ req'[s].cached = req[s].cached
              /\ req'[s].preempted = req[s].preempted /\ req'[s].wrong = req[s].wrong
              /\ req[s].status \in Waits => req'[s].tokens = req[s].tokens
              /\ table'[s] = table[s] \/ table'[s] = <<>>
              /\ s \notin some /\ req[s].status \in Counts \cup Waits => table'[s] = table[s]
              /\ s \notin some /\ s \in ToSet(running) => s \in ToSet(running')
              /\ s \notin some /\ s \in ToSet(sch.skipped) \cup ToSet(waiting) =>
                    s \in ToSet(sch'.skipped) \cup ToSet(waiting')
  <2> TAKE s \in Requests
  <2>1. CASE s = r
    BY <1>1, <1>4, <1>5, <1>6, <1>9, <1>10, <1>11, <1>12, <2>1
  <2>2. CASE s # r
    <3>1. req'[s] = req[s] /\ s \notin some /\ table'[s] = table[s]
      BY <1>4, <1>8, <1>11, <2>2
    <3>2. s \in ToSet(sch.skipped) \cup ToSet(waiting) => s \in ToSet(sch'.skipped) \cup ToSet(waiting')
      BY <1>1, <1>6
    <3>3. QED BY <1>12, <3>1, <3>2
  <2>3. QED BY <2>1, <2>2
<1>14. /\ phase' \in {"answers", "engine"} /\ phase' # "engine"
       /\ sch'.pending \subseteq sch.pending
  BY <1>1, <1>6
<1>15. QED BY <1>1, <1>2, <1>4, <1>6, <1>13, <1>14, FinishingEntries

LEMMA EntriesOfEndUpdate ==
    TransferInv /\ EntriesInv /\ EndUpdate => EntriesInv'
<1> SUFFICES ASSUME TransferInv, EntriesInv, EndUpdate PROVE EntriesInv'
  OBVIOUS
<1>1. PICK some : some = sch.failing
  OBVIOUS
<1>2. /\ phase = "answers" /\ phase' = "engine" /\ sch' = NoSchedule
      /\ req' = [r \in Requests |->
                 IF r \in some THEN [req[r] EXCEPT !.status = "FINISHED"] ELSE req[r]]
      /\ running' = Only(running, Requests \ some)
      /\ waiting' = Only(waiting, Requests \ some)
      /\ \E keeps \in SUBSET some :
            table' = [r \in Requests |->
              IF r \in (some \ keeps) \cup report.sending THEN <<>> ELSE table[r]]
      /\ UNCHANGED <<cfg, key, filled, load, failed_recving_kv_req_ids>>
  BY <1>1 DEF EndUpdate
<1> SUFFICES ASSUME Careful PROVE InOrder' /\ RightEntries'
  BY <1>2 DEF EntriesInv, Careful
<1>3. InOrder /\ RightEntries /\ TypeOK /\ QueuesAgree /\ ScheduleStages /\ LoadsUnderWay
  BY DEF EntriesInv, TransferInv
<1>4. some \in SUBSET Requests
  BY <1>1, <1>3 DEF TypeOK
<1>5. PICK keeps \in SUBSET some :
          table' = [r \in Requests |->
              IF r \in (some \ keeps) \cup report.sending THEN <<>> ELSE table[r]]
  BY <1>2
<1>6. \A s \in Requests : s \in report.sending => req[s].status = "FINISHED"
  BY <1>3 DEF LoadsUnderWay
<1>7. /\ ToSet(running') = ToSet(running) \cap (Requests \ some)
      /\ ToSet(waiting') = ToSet(waiting) \cap (Requests \ some)
  <2>1. running \in Seq(Requests) /\ waiting \in Seq(Requests)
    BY <1>3 DEF TypeOK
  <2>2. QED BY <1>2, <2>1, OnlyElements
<1>8. sch.skipped = <<>> /\ ToSet(<<>>) = {}
  BY <1>2, <1>3 DEF ScheduleStages, ToSet
<1>9. \A s \in Requests :
         /\ req'[s].status = IF s \in some THEN "FINISHED" ELSE req[s].status
         /\ req'[s].computed = req[s].computed /\ req'[s].cached = req[s].cached
         /\ req'[s].preempted = req[s].preempted /\ req'[s].wrong = req[s].wrong
         /\ req'[s].tokens = req[s].tokens
  <2>1. \A s \in Requests : req[s] \in RequestType
    BY <1>3 DEF TypeOK, RequestType
  <2>2. QED BY <1>2, <2>1 DEF RequestType
<1>10. \A s \in Requests :
              /\ req'[s].status = IF s \in some THEN "FINISHED" ELSE req[s].status
              /\ req'[s].computed = req[s].computed /\ req'[s].cached = req[s].cached
              /\ req'[s].preempted = req[s].preempted /\ req'[s].wrong = req[s].wrong
              /\ req[s].status \in Waits => req'[s].tokens = req[s].tokens
              /\ table'[s] = table[s] \/ table'[s] = <<>>
              /\ s \notin some /\ req[s].status \in Counts \cup Waits => table'[s] = table[s]
              /\ s \notin some /\ s \in ToSet(running) => s \in ToSet(running')
              /\ s \notin some /\ s \in ToSet(sch.skipped) \cup ToSet(waiting) =>
                    s \in ToSet(sch'.skipped) \cup ToSet(waiting')
  <2> TAKE s \in Requests
  <2>1. /\ table'[s] = table[s] \/ table'[s] = <<>>
        /\ s \notin some /\ req[s].status \in Counts \cup Waits => table'[s] = table[s]
    BY <1>5, <1>6 DEF Counts, Waits
  <2>2. s \notin some => /\ s \in ToSet(running) => s \in ToSet(running')
                         /\ s \in ToSet(sch.skipped) \cup ToSet(waiting) =>
                              s \in ToSet(sch'.skipped) \cup ToSet(waiting')
    BY <1>7, <1>8
  <2>3. QED BY <1>9, <2>1, <2>2
<1>11. phase' \in {"answers", "engine"} /\ phase' # "answers" /\ sch.failing \subseteq some
  BY <1>1, <1>2
<1>12. QED BY <1>2, <1>3, <1>4, <1>10, <1>11, FinishingEntries

--------------------------------------------------------------------------------
(* Right entries: the theorems *)

LEMMA EntriesOfInit == Init => EntriesInv
<1> SUFFICES ASSUME Init PROVE InOrder /\ RightEntries
  BY DEF EntriesInv
<1>1. /\ phase = "engine" /\ sch = NoSchedule /\ failed_recving_kv_req_ids = {}
      /\ \A r \in Requests : table[r] = <<>> /\ req[r] = NewRequest(r)
      /\ \A b \in Blocks : key[b] = NoKey
  BY DEF Init
<1>2. \A r \in Requests : /\ req[r].status = "NONE" /\ ~req[r].wrong
                          /\ req[r].cached = NotScheduledYet
  <2> TAKE r \in Requests
  <2>1. req[r] = [status |-> "NONE", tokens |-> PromptLen[r], computed |-> 0,
                  cached |-> NotScheduledYet, preempted |-> FALSE, wrong |-> FALSE]
    BY <1>1 DEF NewRequest
  <2>2. QED BY <2>1
<1>3. \A r \in Requests : DOMAIN table[r] = {} /\ Held(r) = {}
  BY <1>1 DEF Held
<1>4. RightEntries
  BY <1>1, <1>2 DEF RightEntries, Counted, Loaded, Offered, RightAnswers, NoWrongAnswer, Counts
<1>5. InOrder
  <2>1. Listed /\ FailuresRemembered /\ InvalidIsRemote
    BY <1>1, <1>2 DEF Listed, FailuresRemembered, InvalidIsRemote, Waits
  <2>2. TablesInOrder
    BY <1>2, <1>3 DEF TablesInOrder, Counts, IsInjective
  <2>3. StepLoads /\ OwnBlocks
    BY <1>1, <1>2, <1>3 DEF StepLoads, OwnBlocks, Planning
  <2>4. QED BY <2>1, <2>2, <2>3 DEF InOrder
<1>6. QED BY <1>4, <1>5

LEMMA EntriesOfNext == TransferInv /\ EntriesInv /\ [Next]_vars => EntriesInv'
<1> SUFFICES ASSUME TransferInv, EntriesInv, [Next]_vars PROVE EntriesInv'
  OBVIOUS
<1>1. CASE EngineStep
  BY <1>1, EntriesOfBeginSchedule, EntriesOfRunningSchedule, EntriesOfRunningPreempt,
     EntriesOfRunningDone, EntriesOfRemoteReady, EntriesOfSkipping, EntriesOfWaitingLoad,
     EntriesOfWaitingAdmit, EntriesOfLeaving, EntriesOfEndSchedule,
     EntriesOfExecute, EntriesOfHandleInvalidBlocks, EntriesOfAnswer, EntriesOfEndUpdate
  DEF EngineStep
<1>2. CASE WorkerStep
  BY <1>2, EntriesOfLoadFails, EntriesOfLoadEnds, EntriesOfSendEnds DEF WorkerStep
<1>3. CASE ClientStep
  BY <1>3, EntriesOfAddRequest, EntriesOfAbort DEF ClientStep
<1>4. CASE UNCHANGED vars
  <2>1. /\ UNCHANGED <<cfg, req, waiting, running, table, key, filled, phase, sch>>
        /\ UNCHANGED <<failed_recving_kv_req_ids, load, report>>
    BY <1>4 DEF vars, engineVars, cacheVars, recvVars, workerVars
  <2>2. InOrder' = InOrder
    BY <2>1 DEF InOrder, Listed, TablesInOrder, FailuresRemembered, InvalidIsRemote, StepLoads,
       OwnBlocks, Before, Behind, Held, Key
  <2>3. RightEntries' = RightEntries
    BY <2>1 DEF RightEntries, Counted, Loaded, Offered, RightAnswers, NoWrongAnswer, Before, Behind,
       Coming, Brings, Hit, InvalidPositions, Blocks
  <2>4. QED BY <2>1, <2>2, <2>3 DEF EntriesInv, Careful
<1>5. QED BY <1>1, <1>2, <1>3, <1>4 DEF Next

\* The second inductive invariant, for every careful deployment, any number of requests and
\* blocks, and any number of failing loads: what somebody counts, and what the cache
\* offers, is there, or the step under way brings it, or it is known to have failed.
THEOREM EntriesInvariant == Spec => []EntriesInv
BY TransferInvariant, EntriesOfInit, EntriesOfNext, PTL DEF Spec

\* Between two steps, in a careful deployment, no request counts a token as computed and
\* the cache offers no block whose entries are not there, also after failed loads
\* (_update_requests_with_invalid_blocks, evict_blocks, cache_blocks).
THEOREM PromisedEntriesAreThere == Spec => [](Careful => EntriesAreThere)
<1>1. TransferInv /\ EntriesInv => (Careful => EntriesAreThere)
  <2> SUFFICES ASSUME TransferInv, EntriesInv, Careful, phase = "engine"
               PROVE  EntriesAreThere
    BY DEF EntriesAreThere, ComputedIsThere, CacheIsRight
  <2>1. RightEntries /\ TypeOK
    BY DEF EntriesInv, TransferInv
  <2>2. \A b : ~Coming(b)
    BY DEF Coming, Planning
  <2>3. ASSUME NEW r \in Requests, Live(r), req[r].status # "WAITING_FOR_REMOTE_KVS",
               NEW i \in DOMAIN table[r]
        PROVE  ~(filled[table[r][i]] < Within(req[r].computed, i))
    <3>1. req[r].status \in Counts
      <4>1. req[r].status \in Statuses
        BY <2>1, StateTypes
      <4>2. QED BY <2>3, <4>1 DEF Statuses, Counts, Live
    <3>2. Before(r) = req[r].computed
      BY DEF Before
    <3>3. Within(req[r].computed, i) <= filled[table[r][i]]
      BY <2>1, <2>2, <3>1, <3>2 DEF RightEntries, Counted
    <3>4. filled[table[r][i]] \in 0 .. BlockSize /\ Within(req[r].computed, i) \in 0 .. BlockSize
      <4>1. i \in Int /\ table[r][i] \in Blocks /\ req[r].computed \in Int
        BY <2>1, StateTypes
      <4>2. QED BY <2>1, <4>1, WithinType DEF TypeOK
    <3>5. BlockSize \in Nat
      BY ConstantTypes
    <3>6. QED BY <3>3, <3>4, <3>5
  <2>4. ASSUME NEW b \in Blocks, key[b] # NoKey PROVE ~(filled[b] < BlockSize)
    <3>1. filled[b] = BlockSize
      BY <2>1, <2>2, <2>4 DEF RightEntries, Offered
    <3>2. BlockSize \in Nat
      BY ConstantTypes
    <3>3. QED BY <3>1, <3>2
  <2>5. QED BY <2>3, <2>4 DEF EntriesAreThere, ComputedIsThere, CacheIsRight
<1>2. QED BY <1>1, TransferInvariant, EntriesInvariant, PTL

\* In a careful deployment no client gets an answer that was computed from wrong entries:
\* update_from_output skips the answers of affected requests.
THEOREM NoAnswerIsWrong == Spec => [](Careful => NoWrongAnswer)
<1>1. EntriesInv => (Careful => NoWrongAnswer)
  BY DEF EntriesInv, RightEntries
<1>2. QED BY <1>1, EntriesInvariant, PTL
================================================================================
