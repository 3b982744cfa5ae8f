-------------------------- MODULE SparseBackendProofs --------------------------
(***************************************************************************)
(* Theorems about MiniMax's sparse attention, for every deployment, length *)
(* and batch: where the forwards store their results, over which positions *)
(* the index head attends, and that no key of a rejected token counts.     *)
(* First which positions the kernels read.                                 *)
(***************************************************************************)
EXTENDS SparseBackend, RequestQueueLemmas, FiniteSetTheorems, TLAPS

--------------------------------------------------------------------------------
(* Arithmetic *)

LEMMA CeilDivBounds ==
    ASSUME NEW a \in Nat, NEW b \in Nat \ {0}
    PROVE  /\ CeilDiv(a, b) \in Nat /\ a <= CeilDiv(a, b) * b /\ (a > 0 => CeilDiv(a, b) > 0)
           /\ \A c \in Nat : a <= c * b => CeilDiv(a, b) <= c
           /\ \A c \in Nat : c < CeilDiv(a, b) => c * b < a
BY RoundedUp DEF CeilDiv

\* A set of integers that is bounded, with a member above 0, has its greatest as Max.
LEMMA MaxOfIntegers ==
    ASSUME NEW n \in Nat, NEW T \in SUBSET Int, \A y \in T : y <= n, \E y \in T : y > 0
    PROVE  Max(T) \in Nat \ {0}
<1> DEFINE P == T \cap (0 .. n)
<1>1. P \in SUBSET (0 .. n) /\ P # {}
  OBVIOUS
<1>2. PICK z \in P : \A y \in P : z >= y
  <2> HIDE DEF P
  <2>1. QED BY <1>1, MaxIsGreatest
<1>3. z \in T /\ z > 0
  BY <1>2
<1>4. \A y \in T : z >= y
  <2>1. ASSUME NEW y \in T PROVE z >= y
    <3>1. y \in Int /\ y <= n
      OBVIOUS
    <3>2. CASE y >= 0
      BY <1>2, <3>1, <3>2
    <3>3. CASE y < 0
      BY <1>2, <3>1, <3>3
    <3>4. QED BY <3>1, <3>2, <3>3
  <2>2. QED BY <2>1
<1>5. Max(T) \in T /\ \A y \in T : Max(T) >= y
  BY <1>3, <1>4 DEF Max
<1>6. PICK m : m = Max(T)
  OBVIOUS
<1>7. m \in Int /\ z \in Int /\ m >= z /\ z > 0
  BY <1>3, <1>5, <1>6
<1>8. QED BY <1>6, <1>7

\* The launchers divide the work into some chunks.
LEMMA ChunksPositive ==
    ASSUME NEW c, NEW most \in Nat, NEW rows \in Nat, c.grid \in Nat
    PROVE  Chunks(c, most, rows) \in Nat \ {0}
<1> DEFINE q == c.grid \div Most(1, rows)
           target == Most(1, Least(most, q))
           T == {2 ^ i : i \in {j \in 0 .. target : 2 ^ j <= target}}
<1>1. Most(1, rows) \in Nat \ {0}
  BY DEF Most
<1>2. q \in Nat
  BY <1>1, DivBounds
<1>3. target \in Nat /\ target >= 1
  <2> HIDE DEF q
  <2>1. QED BY <1>2 DEF Most, Least
<1> HIDE DEF target
<1>4. \A j \in 0 .. target : 2 ^ j \in Int
  BY <1>3, SMT
<1>5. 2 ^ 0 = 1
  BY SMT
<1>6. T \in SUBSET Int /\ \A y \in T : y <= target
  BY <1>4
<1>7. 1 \in T
  <2>1. 0 \in {j \in 0 .. target : 2 ^ j <= target}
    BY <1>3, <1>5
  <2>2. QED BY <1>5, <2>1
<1>8. Max(T) \in Nat \ {0}
  <2> HIDE DEF T
  <2>1. \E y \in T : y > 0
    BY <1>7
  <2>2. QED BY <1>3, <1>6, <2>1, MaxOfIntegers
<1>9. QED BY <1>8 DEF Chunks, target, q

\* A position of a part of its own each: as many pairs as positions.
LEMMA OnePartEach ==
    ASSUME NEW n \in Nat, NEW part, NEW A, \A p \in 0 .. n : <<part[p], p>> \in A,
           \A x \in A : \E p \in 0 .. n : x = <<part[p], p>>
    PROVE  Positions(A) = 0 .. n /\ Cardinality(A) = n + 1
<1>1. Positions(A) = 0 .. n
  <2>1. \A tp \in A : tp[2] \in 0 .. n
    OBVIOUS
  <2>2. ASSUME NEW p \in 0 .. n PROVE p \in Positions(A)
    <3>1. <<part[p], p>> \in A /\ <<part[p], p>>[2] = p
      OBVIOUS
    <3>2. QED BY <3>1 DEF Positions
  <2>3. QED BY <2>1, <2>2 DEF Positions
<1>2. IsFiniteSet(0 .. n) /\ Cardinality(0 .. n) = n + 1
  BY FS_Interval
<1> DEFINE f == [p \in 0 .. n |-> <<part[p], p>>]
<1>3. f \in Bijection(0 .. n, A)
  BY DEF Bijection, Injection, Surjection, IsInjective
<1>4. ExistsBijection(0 .. n, A)
  BY <1>3 DEF ExistsBijection
<1>5. Cardinality(A) = Cardinality(0 .. n)
  BY <1>2, <1>4, FS_Bijection
<1>6. QED BY <1>1, <1>2, <1>5

--------------------------------------------------------------------------------
(* What the kernels read *)

\* The program of a query masks no position up to its own and every one behind it:
\* tiles in front of the diagonal end before the program's first query.
LEMMA SeenTokensExact ==
    ASSUME NEW c, c.tile \in Nat \ {0}, c.qtile \in Nat \ {0},
           NEW prefix \in Nat, NEW q \in Nat, NEW n \in Nat, prefix + q < n
    PROVE  SeenTokens(c, prefix, q, n) = 0 .. prefix + q
<1>1. PICK tile \in Nat \ {0}, qtile \in Nat \ {0} : tile = c.tile /\ qtile = c.qtile
  OBVIOUS
<1>2. PICK program, first, after :
         /\ program = q \div qtile /\ first = program * qtile
         /\ after = (program + 1) * qtile
  OBVIOUS
<1>3. /\ program \in Nat /\ first \in Nat /\ after \in Nat
      /\ first <= q /\ q < after
  <2>1. /\ program \in Nat /\ program * qtile <= q /\ q < program * qtile + qtile
    BY <1>2, DivBounds
  <2>2. program * qtile \in Nat /\ (program + 1) * qtile = program * qtile + qtile
    BY <2>1
  <2>3. QED BY <1>2, <2>1, <2>2
<1>4. PICK d, diagonal : d = (prefix + first) \div tile /\ diagonal = d * tile
  OBVIOUS
<1>5. d \in Nat /\ diagonal \in Nat /\ diagonal <= prefix + first
  BY <1>2, <1>3, <1>4, DivBounds
<1>6. PICK hi, top : hi = Least(n, prefix + after) /\ top = CeilDiv(hi, tile) * tile
  OBVIOUS
<1>7. hi \in Nat /\ top \in Nat /\ hi <= top /\ prefix + q < hi
  <2>1. hi \in Nat /\ prefix + q < hi
    BY <1>3, <1>6 DEF Least
  <2>2. QED BY <1>6, <2>1, CeilDivBounds
<1>8. SeenTokens(c, prefix, q, n) =
        {p \in 0 .. top - 1 : p < n /\ ((p \div tile) * tile >= diagonal => p <= prefix + q)}
  BY <1>1, <1>2, <1>4, <1>6 DEF SeenTokens
<1>9. ASSUME NEW p \in 0 .. prefix + q PROVE p \in SeenTokens(c, prefix, q, n)
  BY <1>7, <1>8
<1>10. ASSUME NEW p \in Nat, (p \div tile) * tile < diagonal
       PROVE  p < diagonal
  <2>1. PICK k : k = p \div tile
    OBVIOUS
  <2>2. k \in Nat /\ p < k * tile + tile /\ k * tile < d * tile
    BY <1>4, <1>10, <2>1, DivBounds
  <2>3. ~(d <= k)
    BY <1>5, <2>2, TimesGrows
  <2>4. k + 1 <= d /\ k + 1 \in Nat /\ (k + 1) * tile = k * tile + tile
    BY <1>5, <2>2, <2>3
  <2>5. (k + 1) * tile <= d * tile
    BY <1>5, <2>4, TimesGrows
  <2>6. k * tile \in Nat
    BY <2>2
  <2>7. QED BY <1>4, <1>5, <2>2, <2>4, <2>5, <2>6
<1>11. ASSUME NEW p \in SeenTokens(c, prefix, q, n) PROVE p \in 0 .. prefix + q
  <2>1. p \in Nat /\ ((p \div tile) * tile >= diagonal => p <= prefix + q)
    BY <1>7, <1>8
  <2>2. CASE p < diagonal
    BY <1>3, <1>5, <2>1, <2>2
  <2>3. CASE ~(p < diagonal)
    <3>1. (p \div tile) * tile \in Nat
      BY <2>1, DivBounds
    <3>2. ~((p \div tile) * tile < diagonal)
      BY <1>10, <2>1, <2>3
    <3>3. (p \div tile) * tile >= diagonal
      BY <1>5, <3>1, <3>2
    <3>4. QED BY <2>1, <3>3
  <2>4. QED BY <2>2, <2>3
<1>12. QED BY <1>9, <1>11

\* Prefill and verification attend to every position up to the query's own.
LEMMA IndexPrefillExact ==
    ASSUME NEW c, c.tile \in Nat \ {0}, c.qtile \in Nat \ {0},
           NEW prefix \in Nat, NEW q \in Nat, NEW n \in Nat, prefix + q < n
    PROVE  /\ Positions(IndexPrefill(c, prefix, q, n)) = 0 .. prefix + q
           /\ Cardinality(IndexPrefill(c, prefix, q, n)) = prefix + q + 1
<1> DEFINE part == [p \in 0 .. prefix + q |-> p \div c.tile]
           A == IndexPrefill(c, prefix, q, n)
           m == prefix + q
<1>1. A = {<<part[p], p>> : p \in 0 .. m}
  BY SeenTokensExact DEF IndexPrefill
<1>2. m \in Nat
  OBVIOUS
<1> HIDE DEF A, part, m
<1>3. Positions(A) = 0 .. m /\ Cardinality(A) = m + 1
  <2>1. \A p \in 0 .. m : <<part[p], p>> \in A
    BY <1>1
  <2>2. \A x \in A : \E p \in 0 .. m : x = <<part[p], p>>
    BY <1>1
  <2>3. QED BY ONLY <1>2, <2>1, <2>2, OnePartEach
<1>4. QED BY <1>3 DEF A, m

\* Of the chunks of a decode exactly those that the merge reads hold blocks, and
\* together they hold each position once.
LEMMA IndexDecodeExact ==
    ASSUME NEW c, c.block \in Nat \ {0}, c.context \in Nat,
           NEW tokens \in Nat \ {0}, tokens <= c.context, NEW n \in Nat \ {0}
    PROVE  /\ Positions(IndexDecode(c, tokens, n)) = 0 .. tokens - 1
           /\ Cardinality(IndexDecode(c, tokens, n)) = tokens
<1>0. PICK block \in Nat \ {0} : block = c.block
  OBVIOUS
<1>1. PICK num, size, last :
         /\ num = Blocks(c, tokens) /\ size = CeilDiv(num, n) /\ last = CeilDiv(num, size)
  OBVIOUS
<1>2. num \in Nat \ {0} /\ tokens <= num * block
  <2>1. num = CeilDiv(tokens, block) /\ tokens \in Nat /\ tokens > 0
    BY <1>0, <1>1 DEF Blocks
  <2>2. num \in Nat /\ num > 0 /\ tokens <= num * block
    BY <2>1, CeilDivBounds
  <2>3. QED BY <2>1, <2>2
<1>3. size \in Nat \ {0} /\ num <= size * n
  <2>1. size \in Nat /\ size > 0 /\ num <= size * n
    BY <1>1, <1>2, CeilDivBounds
  <2>2. QED BY <2>1
<1>4. /\ last \in Nat /\ last <= n
      /\ \A ch \in Nat : ch < last => ch * size < num
      /\ \A ch \in Nat : ch * size < num => ch < last
  <2>1. /\ last \in Nat /\ num <= last * size
        /\ \A k \in Nat : num <= k * size => last <= k
        /\ \A k \in Nat : k < last => k * size < num
    BY <1>1, <1>2, <1>3, CeilDivBounds
  <2>2. num <= n * size
    BY <1>3
  <2>3. last <= n
    BY <2>1, <2>2
  <2>4. ASSUME NEW ch \in Nat, ch * size < num PROVE ch < last
    <3>1. CASE last <= ch
      <4>1. last * size <= ch * size /\ last * size \in Nat /\ ch * size \in Nat
        BY <1>3, <2>1, <3>1, TimesGrows
      <4>2. QED BY <1>2, <2>1, <2>4, <4>1
    <3>2. QED BY <2>1, <3>1
  <2>5. QED BY <2>1, <2>3, <2>4
<1> DEFINE own == [p \in 0 .. tokens - 1 |-> (p \div block) \div size]
<1>5. ASSUME NEW ch \in 0 .. last - 1
      PROVE  /\ ch \in 0 .. n - 1 /\ FirstBlock(c, tokens, ch, n) < EndBlock(c, tokens, ch, n)
             /\ ChunkTokens(c, tokens, ch, n) = {p \in 0 .. tokens - 1 : own[p] = ch}
  <2>1. PICK first, end : /\ first = ch * size
                          /\ end = Least(first + size, num)
    OBVIOUS
  <2>2. /\ FirstBlock(c, tokens, ch, n) = first /\ EndBlock(c, tokens, ch, n) = end
    BY <1>1, <2>1 DEF FirstBlock, EndBlock
  <2>3. ch \in Nat /\ ch < last /\ first \in Nat /\ first < num
    BY <1>3, <1>4, <2>1
  <2>4. end \in Nat /\ first < end /\ end <= num /\ end <= first + size
    BY <1>2, <1>3, <2>1, <2>3 DEF Least
  <2>5. PICK low, high : low = first * block /\ high = end * block
    OBVIOUS
  <2>6. ChunkTokens(c, tokens, ch, n) =
          {p \in 0 .. c.context - 1 : p >= low /\ p < Least(high, tokens)}
    BY <1>0, <2>2, <2>4, <2>5 DEF ChunkTokens
  <2>7. low \in Nat /\ high \in Nat
    BY <2>3, <2>4, <2>5
  <2>8. ASSUME NEW p \in 0 .. tokens - 1
        PROVE  (p >= low /\ p < high) <=> own[p] = ch
    <3>1. PICK b : b = p \div block
      OBVIOUS
    <3>2. PICK bs : bs = b * block
      OBVIOUS
    <3>3. p \in Nat /\ b \in Nat /\ bs \in Nat /\ bs <= p /\ p < bs + block
      BY <3>1, <3>2, DivBounds
    <3>4. b < num
      <4>1. CASE num <= b
        <5>1. num * block <= b * block
          BY <1>2, <3>3, <4>1, TimesGrows
        <5>2. num * block \in Nat
          BY <1>2
        <5>3. QED BY <1>2, <3>2, <3>3, <5>1, <5>2
      <4>2. QED BY <1>2, <3>3, <4>1
    <3>5. p >= low <=> b >= first
      <4>1. first <= b => first * block <= b * block
        BY <2>3, <3>3, TimesGrows
      <4>2. b + 1 <= first => (b + 1) * block <= first * block
        BY <2>3, <3>3, TimesGrows
      <4>3. (b + 1) * block = bs + block
        BY <3>2, <3>3
      <4>4. QED BY <2>3, <2>5, <2>7, <3>2, <3>3, <4>1, <4>2, <4>3
    <3>6. p < high <=> b < end
      <4>1. end <= b => end * block <= b * block
        BY <2>4, <3>3, TimesGrows
      <4>2. b + 1 <= end => (b + 1) * block <= end * block
        BY <2>4, <3>3, TimesGrows
      <4>3. (b + 1) * block = bs + block
        BY <3>2, <3>3
      <4>4. QED BY <2>4, <2>5, <2>7, <3>2, <3>3, <4>1, <4>2, <4>3
    <3>7. PICK o, os : o = b \div size /\ os = o * size
      OBVIOUS
    <3>8. o \in Nat /\ os \in Nat /\ os <= b /\ b < os + size
      BY <1>3, <3>3, <3>7, DivBounds
    <3>9. (b >= first /\ b < first + size) <=> o = ch
      <4>1. ch + 1 <= o => (ch + 1) * size <= o * size
        BY <1>3, <2>3, <3>8, TimesGrows
      <4>2. o + 1 <= ch => (o + 1) * size <= ch * size
        BY <1>3, <2>3, <3>8, TimesGrows
      <4>3. (ch + 1) * size = first + size /\ (o + 1) * size = os + size
        BY <1>3, <2>1, <2>3, <3>7, <3>8
      <4>4. o = ch => os = first
        BY <2>1, <3>7
      <4>5. QED BY <1>3, <2>1, <2>3, <3>3, <3>7, <3>8, <4>1, <4>2, <4>3, <4>4
    <3>10. b < end <=> b < first + size
      BY <1>2, <1>3, <2>1, <2>3, <3>3, <3>4 DEF Least
    <3>11. own[p] = o
      BY <3>1, <3>7
    <3>12. QED BY <3>5, <3>6, <3>9, <3>10, <3>11
  <2>9. ASSUME NEW p
        PROVE  p \in ChunkTokens(c, tokens, ch, n) <=> p \in 0 .. tokens - 1 /\ own[p] = ch
    <3>1. p \in ChunkTokens(c, tokens, ch, n) <=> p \in 0 .. tokens - 1 /\ p >= low /\ p < high
      BY <2>6, <2>7 DEF Least
    <3> HIDE DEF own
    <3>2. QED BY <2>8, <3>1
  <2>10. ch \in 0 .. n - 1
    BY <1>4, <2>3
  <2> HIDE DEF own
  <2>11. QED BY <2>2, <2>4, <2>9, <2>10
<1>6. \A p \in 0 .. tokens - 1 : own[p] \in 0 .. last - 1
  <2>1. ASSUME NEW p \in 0 .. tokens - 1 PROVE own[p] \in 0 .. last - 1
    <3>1. PICK b, o : b = p \div block /\ o = b \div size
      OBVIOUS
    <3>2. p \in Nat /\ b \in Nat /\ b * block <= p /\ p < num * block
      BY <1>2, <3>1, DivBounds
    <3>3. b < num
      BY <1>2, <3>1, <3>2, DivBounds
    <3>4. o \in Nat /\ o * size <= b
      BY <1>3, <3>1, <3>2, DivBounds
    <3>5. o * size \in Nat
      BY <1>3, <3>4
    <3>6. o < last
      BY <1>2, <1>4, <3>2, <3>3, <3>4, <3>5
    <3>7. QED BY <1>4, <3>1, <3>4, <3>6
  <2>2. QED BY <2>1
<1> HIDE DEF own
<1>7. IndexDecode(c, tokens, n) = {<<own[p], p>> : p \in 0 .. tokens - 1}
  <2>1. MergedChunks(c, tokens, n) = 0 .. last - 1
    BY <1>1 DEF MergedChunks
  <2> DEFINE parts == DecodeParts(c, tokens, n)
  <2>2. \A ch \in 0 .. last - 1 :
           /\ ch \in DOMAIN parts
           /\ parts[ch] = {<<ch, p>> : p \in ChunkTokens(c, tokens, ch, n)}
    BY <1>5 DEF DecodeParts
  <2> HIDE DEF parts
  <2>3. IndexDecode(c, tokens, n) = UNION {parts[ch] : ch \in 0 .. last - 1}
    <3>1. IndexDecode(c, tokens, n) =
             UNION {IF ch \in DOMAIN parts THEN parts[ch] ELSE {<<ch, -1>>} : ch \in 0 .. last - 1}
      BY <2>1 DEF IndexDecode, parts
    <3>2. QED BY <2>2, <3>1
  <2>4. ASSUME NEW x \in IndexDecode(c, tokens, n)
        PROVE  x \in {<<own[p], p>> : p \in 0 .. tokens - 1}
    <3>1. PICK ch \in 0 .. last - 1 : x \in parts[ch]
      BY <2>3
    <3>2. PICK p \in ChunkTokens(c, tokens, ch, n) : x = <<ch, p>>
      BY <2>2, <3>1
    <3>3. p \in 0 .. tokens - 1 /\ own[p] = ch
      BY <1>5, <3>2
    <3>4. QED BY <3>2, <3>3
  <2>5. ASSUME NEW p \in 0 .. tokens - 1
        PROVE  <<own[p], p>> \in IndexDecode(c, tokens, n)
    <3>1. own[p] \in 0 .. last - 1 /\ p \in ChunkTokens(c, tokens, own[p], n)
      BY <1>5, <1>6
    <3>2. <<own[p], p>> \in parts[own[p]]
      BY <2>2, <3>1
    <3>3. QED BY <2>3, <3>1, <3>2
  <2>6. QED BY <2>4, <2>5
<1>8. tokens - 1 \in Nat /\ (tokens - 1) + 1 = tokens
  OBVIOUS
<1> DEFINE m == tokens - 1
           A == IndexDecode(c, tokens, n)
<1>9. m \in Nat /\ A = {<<own[p], p>> : p \in 0 .. m}
  BY <1>7, <1>8
<1> HIDE DEF m, A
<1>10. Positions(A) = 0 .. m /\ Cardinality(A) = m + 1
  <2>1. \A p \in 0 .. m : <<own[p], p>> \in A
    BY <1>9
  <2>2. \A x \in A : \E p \in 0 .. m : x = <<own[p], p>>
    BY <1>9
  <2>3. QED BY ONLY <1>9, <2>1, <2>2, OnePartEach
<1>11. QED BY <1>8, <1>10 DEF m, A

--------------------------------------------------------------------------------
(* What a forward is given *)

\* The numbers of a deployment.
LEMMA ConfigFacts ==
    ASSUME BackendInv
    PROVE  /\ cfg.block \in Nat \ {0} /\ cfg.tile \in Nat \ {0} /\ cfg.qtile \in Nat \ {0}
           /\ cfg.grid \in Nat \ {0} /\ cfg.most \in Nat \ {0} /\ cfg.context \in Nat \ {0}
           /\ cfg.batch \in Nat \ {0} /\ cfg.chunk \in Nat \ {0} /\ cfg.drafts \in Nat
           /\ cfg.graphs \subseteq Nat \ {0} /\ IsFiniteSet(cfg.graphs)
           /\ cfg.drafts = 0 => PowerOfTwo(cfg.topk) = cfg.topk
           /\ DOMAIN keyof \subseteq Requests
<1>1. cfg \in Configs /\ keyof \in cfg.keys
  BY DEF BackendInv
<1>2. QED BY <1>1, ConfigAssumption

\* A batch is a sequence of different requests.
LEMMA BatchFacts ==
    ASSUME BackendInv, NEW n \in Nat, NEW batch \in Batches(n)
    PROVE  /\ Len(batch) \in Nat \ {0} /\ DOMAIN batch = 1 .. Len(batch)
           /\ \A i \in DOMAIN batch : batch[i] \in Requests /\ len[batch[i]] \in Nat
           /\ \A i, j \in DOMAIN batch : batch[i] = batch[j] => i = j
<1>1. PICK k \in 1 .. n : batch \in [1 .. k -> DOMAIN keyof] /\ IsInjective(batch)
  BY DEF Batches
<1>2. k \in Nat \ {0} /\ DOMAIN batch = 1 .. k
  BY <1>1
<1>3. Len(batch) = k
  BY <1>1, <1>2
<1>4. \A i \in DOMAIN batch : batch[i] \in Requests
  BY <1>1, <1>2, ConfigFacts
<1>5. len \in [Requests -> Nat]
  BY DEF BackendInv, LengthsFit
<1>6. \A i, j \in DOMAIN batch : batch[i] = batch[j] => i = j
  BY <1>1 DEF IsInjective
<1>7. QED BY <1>2, <1>3, <1>4, <1>5, <1>6

\* The buffers have a column for the block of every position, those of the drafts behind
\* the longest context included.
LEMMA ColumnsFit ==
    ASSUME BackendInv, NEW p \in Nat, p < cfg.context + cfg.drafts
    PROVE  p \div cfg.block < UpperBlocks
<1>1. PICK more \in Nat : /\ UpperBlocks = CeilDiv(cfg.context + more, cfg.block)
                         /\ cfg.drafts <= more
  <2>1. cfg.drafts \in Nat /\ 8 \in Nat
    BY ConfigFacts
  <2>2. CASE cfg.drafts > 0
    BY <2>1, <2>2 DEF UpperBlocks, Blocks
  <2>3. CASE ~(cfg.drafts > 0)
    BY <2>1, <2>3 DEF UpperBlocks, Blocks
  <2>4. QED BY <2>2, <2>3
<1>2. PICK context \in Nat, block \in Nat \ {0} : context = cfg.context /\ block = cfg.block
  BY ConfigFacts
<1>3. PICK upper, all : upper = CeilDiv(context + more, block) /\ all = upper * block
  OBVIOUS
<1>4. context + more \in Nat /\ p < context + more
  BY <1>1, <1>2, ConfigFacts
<1>5. upper \in Nat /\ context + more <= all
  BY <1>2, <1>3, <1>4, CeilDivBounds
<1>6. p < upper * block
  BY <1>2, <1>3, <1>4, <1>5
<1>7. p \div block < upper
  BY <1>5, <1>6, DivBounds
<1>8. QED BY <1>1, <1>2, <1>3, <1>7

\* The rows of a request end before those of the requests behind it begin.
LEMMA RowsApart ==
    ASSUME NEW k \in Nat, NEW lens, \A i \in 1 .. k : lens[i] \in Nat,
           NEW i \in 1 .. k, NEW j \in i + 1 .. k + 1
    PROVE  /\ FirstRow(lens, i) \in Nat /\ FirstRow(lens, j) \in Nat
           /\ FirstRow(lens, i) + lens[i] <= FirstRow(lens, j)
<1>1. PICK S, T, E : S = 1 .. k /\ T = 1 .. j - 1 /\ E = 1 .. i - 1
  OBVIOUS
<1>2. /\ IsFiniteSet(S) /\ IsFiniteSet(T) /\ IsFiniteSet(E)
      /\ T \in SUBSET S /\ E \in SUBSET T /\ i \in T /\ i \notin E
  <2>1. k \in Int /\ j - 1 \in Int /\ i - 1 \in Int /\ 1 \in Int
    OBVIOUS
  <2>2. IsFiniteSet(S) /\ IsFiniteSet(T) /\ IsFiniteSet(E)
    BY <1>1, <2>1, FS_Interval
  <2>3. T \in SUBSET S /\ E \in SUBSET T /\ i \in T /\ i \notin E
    BY <1>1
  <2>4. QED BY <2>2, <2>3
<1>3. /\ \A x \in S : lens[x] \in Nat
      /\ \A x \in T : lens[x] \in Nat
      /\ \A x \in E : lens[x] \in Nat
  BY <1>1, <1>2
<1>4. /\ FirstRow(lens, j) = Cardinality(UnitsOver(lens, T))
      /\ FirstRow(lens, i) = Cardinality(UnitsOver(lens, E))
  BY <1>1, <1>2, <1>3, FoldSum DEF FirstRow, SumFunctionOnSet
<1>5. /\ Cardinality(UnitsOver(lens, E)) \in Nat /\ Cardinality(UnitsOver(lens, T)) \in Nat
      /\ Cardinality(UnitsOver(lens, E)) + lens[i] <= Cardinality(UnitsOver(lens, T))
  BY <1>2, <1>3, UnitsGrow
<1>6. QED BY <1>4, <1>5

\* The same of rows that all have the same length.
LEMMA EqualRowsApart ==
    ASSUME NEW d \in Nat, NEW i \in Nat, NEW j \in Nat, i < j
    PROVE  i * d \in Nat /\ j * d \in Nat /\ i * d + d <= j * d
<1>1. (i + 1) * d <= j * d
  BY TimesGrows
<1>2. (i + 1) * d = i * d + d
  OBVIOUS
<1>3. QED BY <1>1, <1>2

--------------------------------------------------------------------------------
(* The forwards *)

\* Prefill.
LEMMA ExtendStores ==
    ASSUME BackendInv, NEW batch \in Batches(cfg.batch),
           NEW news \in [DOMAIN batch -> 1 .. cfg.chunk], Extend(batch, news)
    PROVE  StoresInBounds' /\ IndexAttendsAll'
<1> DEFINE k == Len(batch)
           total(i) == len[batch[i]] + news[i]
           stored(i) == Stored(batch[i], len[batch[i]],
                               OwnKeys(batch[i], len[batch[i]], news[i]))
           lines == AllRows(news, Max(Range(news)), FALSE)
           width == ScoreWidth(Max({total(i) : i \in DOMAIN batch}))
           P(i, q) == PrefillQuery(batch[i], stored(i), len[batch[i]], q, total(i),
                                   FirstRow(news, i) + q, lines, width)
<1>1. /\ k \in Nat \ {0} /\ DOMAIN batch = 1 .. k
      /\ \A i \in 1 .. k : batch[i] \in Requests /\ len[batch[i]] \in Nat
  BY ConfigFacts, BatchFacts
<1>2. \A i \in 1 .. k : news[i] \in Nat \ {0}
  <2>1. cfg.chunk \in Nat
    BY ConfigFacts
  <2>2. \A i \in 1 .. k : news[i] \in 1 .. cfg.chunk
    BY <1>1
  <2>3. QED BY ONLY <2>1, <2>2
<1>3. lines = FirstRow(news, k + 1)
  <2>1. Len(news) = k
    BY <1>1
  <2>2. QED BY <2>1 DEF AllRows
<1>4. width = UpperBlocks
  BY DEF ScoreWidth
<1>5. out' = UNION {{P(i, q) : q \in 0 .. news[i] - 1} : i \in DOMAIN batch}
  BY DEF Extend
<1>6. \A i \in 1 .. k : total(i) \in Nat /\ total(i) <= cfg.context
  <2>1. \A i \in 1 .. k : total(i) <= cfg.context
    BY <1>1 DEF Extend
  <2>2. \A i \in 1 .. k : total(i) \in Nat
    BY <1>1, <1>2
  <2>3. QED BY <2>1, <2>2
<1> HIDE DEF k, lines, width
<1>7. ASSUME NEW i \in 1 .. k, NEW q \in 0 .. news[i] - 1
      PROVE  /\ P(i, q).line = FirstRow(news, i) + q /\ FirstRow(news, i) \in Nat
             /\ P(i, q).lines = lines /\ lines \in Nat /\ P(i, q).width = UpperBlocks
             /\ FirstRow(news, i) + q < lines
             /\ \A x \in P(i, q).columns : x < UpperBlocks
             /\ P(i, q).entries \subseteq 0 .. cfg.topk - 1
             /\ Positions(P(i, q).index) = 0 .. P(i, q).pos
             /\ Cardinality(P(i, q).index) = P(i, q).pos + 1
  <2>1. /\ P(i, q).line = FirstRow(news, i) + q /\ P(i, q).lines = lines
        /\ P(i, q).width = width /\ P(i, q).pos = len[batch[i]] + q
        /\ P(i, q).columns = ScoreColumns(cfg, len[batch[i]], q, total(i))
        /\ P(i, q).index = IndexPrefill(cfg, len[batch[i]], q, total(i))
        /\ P(i, q).entries = 0 .. cfg.topk - 1
    BY DEF PrefillQuery, Query, PrefillStores
  <2>2. FirstRow(news, i) \in Nat /\ lines \in Nat /\ FirstRow(news, i) + news[i] <= lines
    <3>1. k \in Nat /\ (\A x \in 1 .. k : news[x] \in Nat) /\ k + 1 \in i + 1 .. k + 1
      BY <1>1, <1>2
    <3>2. QED BY <1>3, <3>1, RowsApart
  <2>3. FirstRow(news, i) + q < lines
    BY <1>2, <2>2
  <2>4. ASSUME NEW x \in ScoreColumns(cfg, len[batch[i]], q, total(i))
        PROVE  x < UpperBlocks
    <3>1. PICK p \in 0 .. total(i) - 1 : x = p \div cfg.block
      BY DEF ScoreColumns
    <3>2. p \in Nat /\ p < cfg.context + cfg.drafts
      BY <1>6, ConfigFacts
    <3>3. QED BY <3>1, <3>2, ColumnsFit
  <2>5. PICK prefix, n : prefix = len[batch[i]] /\ n = total(i)
    OBVIOUS
  <2>6. prefix \in Nat /\ q \in Nat /\ n \in Nat /\ prefix + q < n
    BY <1>1, <1>2, <2>5
  <2>7. /\ Positions(IndexPrefill(cfg, prefix, q, n)) = 0 .. prefix + q
        /\ Cardinality(IndexPrefill(cfg, prefix, q, n)) = prefix + q + 1
    <3>1. cfg.tile \in Nat \ {0} /\ cfg.qtile \in Nat \ {0}
      BY ConfigFacts
    <3>2. QED BY ONLY <2>6, <3>1, IndexPrefillExact
  <2>8. QED BY <1>4, <2>1, <2>2, <2>3, <2>4, <2>5, <2>7
<1>8. ASSUME NEW i \in 1 .. k, NEW q \in 0 .. news[i] - 1,
             NEW j \in 1 .. k, NEW u \in 0 .. news[j] - 1,
             FirstRow(news, i) + q = FirstRow(news, j) + u
      PROVE  i = j /\ q = u
  <2>1. k \in Nat /\ (\A x \in 1 .. k : news[x] \in Nat)
    BY <1>1, <1>2
  <2>2. CASE i < j
    <3>1. j \in i + 1 .. k + 1
      BY <2>1, <2>2
    <3>2. /\ FirstRow(news, i) + news[i] <= FirstRow(news, j)
          /\ FirstRow(news, i) \in Nat /\ FirstRow(news, j) \in Nat
      BY <2>1, <3>1, RowsApart
    <3>3. news[i] \in Nat /\ news[j] \in Nat
      BY <2>1
    <3>4. QED BY <1>8, <3>2, <3>3
  <2>3. CASE j < i
    <3>1. i \in j + 1 .. k + 1
      BY <2>1, <2>3
    <3>2. /\ FirstRow(news, j) + news[j] <= FirstRow(news, i)
          /\ FirstRow(news, i) \in Nat /\ FirstRow(news, j) \in Nat
      BY <2>1, <3>1, RowsApart
    <3>3. news[i] \in Nat /\ news[j] \in Nat
      BY <2>1
    <3>4. QED BY <1>8, <3>2, <3>3
  <2>4. CASE i = j
    <3>1. FirstRow(news, i) \in Nat
      BY <1>7
    <3>2. news[i] \in Nat
      BY <2>1
    <3>3. QED BY <1>8, <2>4, <3>1, <3>2
  <2>5. QED BY <2>2, <2>3, <2>4
<1> HIDE DEF P
<1>9. \A o \in out' : \E i \in 1 .. k : \E q \in 0 .. news[i] - 1 : o = P(i, q)
  BY <1>1, <1>5
<1>10. IndexAttendsAll'
  BY <1>7, <1>9 DEF IndexAttendsAll
<1>11. \A o \in out' : /\ o.line < o.lines /\ \A x \in o.columns : x < o.width
                       /\ o.entries \subseteq 0 .. cfg.topk - 1
  BY <1>7, <1>9
<1>13. cfg' = cfg
  BY DEF Extend
<1>12. ASSUME NEW o \in out', NEW v \in out', o.line = v.line PROVE o = v
  <2>1. PICK i \in 1 .. k : \E q \in 0 .. news[i] - 1 : o = P(i, q)
    BY <1>9
  <2>2. PICK q \in 0 .. news[i] - 1 : o = P(i, q)
    BY <2>1
  <2>3. PICK j \in 1 .. k : \E u \in 0 .. news[j] - 1 : v = P(j, u)
    BY <1>9
  <2>4. PICK u \in 0 .. news[j] - 1 : v = P(j, u)
    BY <2>3
  <2>5. i = j /\ q = u
    BY <1>7, <1>8, <1>12, <2>2, <2>4
  <2>6. QED BY <2>2, <2>4, <2>5
<1>14. QED BY <1>10, <1>11, <1>12, <1>13 DEF StoresInBounds

\* A batch is padded to the size of a graph that has room for it, or runs eagerly.
LEMMA PaddedFits ==
    ASSUME BackendInv, NEW n \in Nat \ {0}
    PROVE  /\ PaddedSize(n) \in Nat
           /\ PaddedSize(n) # 0 => PaddedSize(n) \in DOMAIN graphs /\ n <= PaddedSize(n)
<1>1. PICK T : T = {b \in DOMAIN graphs : b >= n}
  OBVIOUS
<1>2. T \in SUBSET Nat
  BY <1>1, ConfigFacts DEF BackendInv, GraphsFit
<1>3. CASE T = {}
  BY <1>1, <1>3 DEF PaddedSize
<1>4. CASE T # {}
  <2>1. PaddedSize(n) = Min(T)
    BY <1>1, <1>4 DEF PaddedSize
  <2>2. Min(T) \in T
    BY <1>2, <1>4, MinIsLeast
  <2>3. QED BY <1>1, <1>2, <2>1, <2>2
<1>5. QED BY <1>3, <1>4

\* Decode, eagerly or replayed.
LEMMA DecodeStores ==
    ASSUME BackendInv, NEW batch \in Batches(cfg.batch), Decode(batch)
    PROVE  StoresInBounds' /\ IndexAttendsAll'
<1> DEFINE k == Len(batch)
           bs == IF PaddedSize(k) = 0 THEN k ELSE PaddedSize(k)
           P(i) == DecodeQuery(batch[i], Stored(batch[i], len[batch[i]], OwnKeys(batch[i], len[batch[i]], 1)),
                               i, len[batch[i]] + 1, bs)
<1>1. /\ k \in Nat \ {0} /\ DOMAIN batch = 1 .. k
      /\ \A i \in 1 .. k : batch[i] \in Requests /\ len[batch[i]] \in Nat
  BY ConfigFacts, BatchFacts
<1>2. bs \in Nat /\ k <= bs
  BY <1>1, PaddedFits
<1>3. out' = {P(i) : i \in DOMAIN batch}
  BY DEF Decode
<1>4. \A i \in 1 .. k : len[batch[i]] < cfg.context
  BY <1>1 DEF Decode, Range
<1> HIDE DEF k, bs
<1>5. ASSUME NEW i \in 1 .. k
      PROVE  /\ P(i).line = i - 1 /\ P(i).line < P(i).lines
             /\ \A x \in P(i).columns : x < P(i).width
             /\ P(i).entries \subseteq 0 .. cfg.topk - 1
             /\ Positions(P(i).index) = 0 .. P(i).pos
             /\ Cardinality(P(i).index) = P(i).pos + 1
  <2>1. PICK n \in Nat : n = len[batch[i]] + 1
    BY <1>1
  <2>2. n > 0 /\ n <= cfg.context /\ cfg.context \in Nat
    BY <1>1, <1>4, <2>1, ConfigFacts
  <2>3. /\ P(i).line = i - 1 /\ P(i).lines = bs /\ P(i).pos = n - 1
        /\ P(i).width = Blocks(cfg, cfg.context)
        /\ P(i).columns = 0 .. Blocks(cfg, n) - 1
        /\ P(i).index = IndexDecode(cfg, n, Chunks(cfg, cfg.most, bs))
        /\ P(i).entries = MergeStores(cfg)
    BY <2>1 DEF DecodeQuery, Query
  <2>4. PICK block \in Nat \ {0}, context \in Nat : block = cfg.block /\ context = cfg.context
    BY ConfigFacts
  <2>5. PICK all : all = CeilDiv(context, block)
    OBVIOUS
  <2>6. all \in Nat /\ context <= all * block /\ all * block \in Nat
    BY <2>4, <2>5, CeilDivBounds
  <2>7. n <= all * block
    BY <2>2, <2>4, <2>6
  <2>8. CeilDiv(n, block) \in Nat /\ CeilDiv(n, block) <= all
    BY <2>6, <2>7, CeilDivBounds
  <2>9. \A x \in P(i).columns : x < P(i).width
    BY <2>3, <2>4, <2>5, <2>6, <2>8 DEF Blocks
  <2>10. PICK chunks : chunks = Chunks(cfg, cfg.most, bs)
    OBVIOUS
  <2>11. chunks \in Nat \ {0}
    <3>1. cfg.most \in Nat /\ cfg.grid \in Nat
      BY ConfigFacts
    <3>2. QED BY ONLY <1>2, <2>10, <3>1, ChunksPositive
  <2>12. n \in Nat \ {0}
    BY <2>2
  <2>13. /\ Positions(IndexDecode(cfg, n, chunks)) = 0 .. n - 1
         /\ Cardinality(IndexDecode(cfg, n, chunks)) = n
    BY ONLY <2>2, <2>4, <2>11, <2>12, IndexDecodeExact
  <2>14. P(i).line < P(i).lines
    BY <1>1, <1>2, <2>3
  <2>15. n = (n - 1) + 1
    OBVIOUS
  <2>16. MergeStores(cfg) = 0 .. cfg.topk - 1
    BY ConfigFacts DEF MergeStores, Decode
  <2> HIDE DEF P
  <2>17. QED BY <2>16, <2>3, <2>9, <2>10, <2>13, <2>14, <2>15
<1> HIDE DEF P
<1>6. \A o \in out' : \E i \in 1 .. k : o = P(i)
  BY <1>1, <1>3
<1>7. IndexAttendsAll'
  BY <1>5, <1>6 DEF IndexAttendsAll
<1>8. /\ cfg' = cfg
      /\ \A o \in out' : /\ o.line < o.lines /\ \A x \in o.columns : x < o.width
                         /\ o.entries \subseteq 0 .. cfg.topk - 1
  BY <1>5, <1>6 DEF Decode
<1>9. ASSUME NEW o \in out', NEW v \in out', o.line = v.line PROVE o = v
  <2>1. PICK i \in 1 .. k : o = P(i)
    BY <1>6
  <2>2. PICK j \in 1 .. k : v = P(j)
    BY <1>6
  <2>3. i - 1 = j - 1
    BY <1>5, <1>9, <2>1, <2>2
  <2>4. i = j
    BY <2>3
  <2>5. QED BY <2>1, <2>2, <2>4
<1>10. QED BY <1>7, <1>8, <1>9 DEF StoresInBounds

\* The buffers that a batch of size bs fills hold its lengths and row numbers.
LEMMA FilledBuffers ==
    ASSUME BackendInv, buffers # None, NEW bs \in Nat \ {0}, bs <= Max(cfg.graphs),
           Max(cfg.graphs) \in Nat,
           NEW prefixes, \A i \in 1 .. bs : prefixes[i] \in Nat
    PROVE  LET filled == FillBuffers(bs, prefixes)
           IN  /\ filled \in [size : {Max(cfg.graphs)}, ext : [1 .. Max(cfg.graphs) -> Nat],
                              cu : [1 .. Max(cfg.graphs) + 1 -> Nat],
                              seq : [1 .. Max(cfg.graphs) -> Nat]]
               /\ \A i \in 1 .. bs : /\ filled.seq[i] = prefixes[i] + cfg.drafts
                                     /\ filled.cu[i] = (i - 1) * cfg.drafts
<1>1. PICK m \in Nat, d \in Nat : m = Max(cfg.graphs) /\ d = cfg.drafts
  BY ConfigFacts
<1>2. /\ buffers.ext \in [1 .. m -> Nat] /\ buffers.cu \in [1 .. m + 1 -> Nat]
      /\ buffers.seq \in [1 .. m -> Nat]
      /\ buffers \in [size : {m}, ext : [1 .. m -> Nat], cu : [1 .. m + 1 -> Nat],
                      seq : [1 .. m -> Nat]]
  BY <1>1 DEF BackendInv, BuffersFit
<1> DEFINE ext == Overwrite(buffers.ext, [i \in 1 .. bs |-> cfg.drafts])
           cu == Overwrite(buffers.cu, [i \in 1 .. bs + 1 |-> (i - 1) * cfg.drafts])
           seq == Overwrite(buffers.seq, [i \in 1 .. bs |-> prefixes[i] + cfg.drafts])
<1>3. ext \in [1 .. m -> Nat]
  BY <1>1, <1>2 DEF Overwrite
<1>4. cu \in [1 .. m + 1 -> Nat] /\ \A i \in 1 .. bs : cu[i] = (i - 1) * d
  <2>1. \A i \in 1 .. bs + 1 : (i - 1) * d \in Nat
    <3>1. \A i \in 1 .. bs + 1 : i - 1 \in Nat
      OBVIOUS
    <3>2. QED BY <3>1
  <2>2. \A i \in 1 .. m + 1 : cu[i] = IF i \in 1 .. bs + 1 THEN (i - 1) * d ELSE buffers.cu[i]
    BY <1>1, <1>2 DEF Overwrite
  <2>3. DOMAIN cu = 1 .. m + 1 /\ cu = [i \in 1 .. m + 1 |-> cu[i]]
    BY <1>2 DEF Overwrite
  <2> HIDE DEF cu
  <2>4. \A i \in 1 .. m + 1 : cu[i] \in Nat
    BY <1>2, <2>1, <2>2
  <2>5. \A i \in 1 .. bs : i \in 1 .. m + 1 /\ i \in 1 .. bs + 1
    BY <1>1
  <2>6. QED BY <2>2, <2>3, <2>4, <2>5
<1>5. seq \in [1 .. m -> Nat] /\ \A i \in 1 .. bs : seq[i] = prefixes[i] + d
  <2>1. \A i \in 1 .. m : seq[i] = IF i \in 1 .. bs THEN prefixes[i] + d ELSE buffers.seq[i]
    BY <1>1, <1>2 DEF Overwrite
  <2>2. DOMAIN seq = 1 .. m /\ seq = [i \in 1 .. m |-> seq[i]]
    BY <1>2 DEF Overwrite
  <2> HIDE DEF seq
  <2>3. \A i \in 1 .. m : seq[i] \in Nat
    <3>1. \A i \in 1 .. bs : prefixes[i] + d \in Nat
      OBVIOUS
    <3>2. \A i \in 1 .. m : buffers.seq[i] \in Nat
      BY <1>2
    <3>3. QED BY <2>1, <3>1, <3>2
  <2>4. \A i \in 1 .. bs : i \in 1 .. m
    BY <1>1
  <2>5. QED BY <2>1, <2>2, <2>3, <2>4
<1> HIDE DEF ext, cu, seq
<1>6. FillBuffers(bs, prefixes) = [buffers EXCEPT !.ext = ext, !.cu = cu, !.seq = seq]
  BY DEF FillBuffers, ext, cu, seq
<1>7. /\ FillBuffers(bs, prefixes) \in [size : {m}, ext : [1 .. m -> Nat], cu : [1 .. m + 1 -> Nat],
                                        seq : [1 .. m -> Nat]]
      /\ FillBuffers(bs, prefixes).cu = cu /\ FillBuffers(bs, prefixes).seq = seq
  BY <1>2, <1>3, <1>4, <1>5, <1>6
<1>8. QED BY <1>1, <1>4, <1>5, <1>7

\* The largest recorded size is the greatest of them.
LEMMA LargestGraph ==
    ASSUME BackendInv, cfg.graphs # {}
    PROVE  /\ Max(cfg.graphs) \in cfg.graphs /\ Max(cfg.graphs) \in Nat \ {0}
           /\ \A b \in cfg.graphs : b <= Max(cfg.graphs)
<1>1. PICK G : G = cfg.graphs
  OBVIOUS
<1>2. G \subseteq Nat \ {0} /\ IsFiniteSet(G) /\ G # {}
  BY <1>1, ConfigFacts
<1> DEFINE Bounded == {T \in SUBSET G : \E n \in Nat : T \subseteq 0 .. n}
<1>3. ASSUME NEW T \in SUBSET G, \A x \in T : T \ {x} \in Bounded PROVE T \in Bounded
  <2>1. CASE T = {}
    <3>1. T \subseteq 0 .. 0
      BY <2>1
    <3>2. QED BY <3>1
  <2>2. CASE T # {}
    <3>1. PICK x \in T : x \in Nat
      BY <1>2, <2>2
    <3>2. PICK n \in Nat : T \ {x} \subseteq 0 .. n
      BY <1>3, <3>1
    <3>3. T \subseteq 0 .. n + x /\ n + x \in Nat
      BY <3>1, <3>2
    <3>4. QED BY <3>3
  <2>3. QED BY <2>1, <2>2
<1>4. G \in Bounded
  <2> HIDE DEF Bounded
  <2>1. SUBSET G \subseteq Bounded
    BY <1>2, <1>3, SubsetInduction
  <2>2. QED BY <2>1
<1>5. PICK n \in Nat : G \subseteq 0 .. n
  BY <1>4
<1>6. Max(G) \in G /\ \A y \in G : Max(G) >= y
  BY <1>2, <1>5, MaxIsGreatest
<1>7. QED BY <1>1, <1>2, <1>6

\* What Verify writes to the buffers when it replays a graph.
LEMMA ReplayBuffers ==
    ASSUME BackendInv, NEW n \in Nat \ {0}, PaddedSize(n) # 0,
           NEW prefixes, \A i \in 1 .. PaddedSize(n) : prefixes[i] \in Nat
    PROVE  /\ buffers # None
           /\ graphs[PaddedSize(n)].width = UpperBlocks
           /\ graphs[PaddedSize(n)].rows = PaddedSize(n) * cfg.drafts
           /\ LET filled == FillBuffers(PaddedSize(n), prefixes)
              IN  /\ filled \in [size : {Max(cfg.graphs)}, ext : [1 .. Max(cfg.graphs) -> Nat],
                                 cu : [1 .. Max(cfg.graphs) + 1 -> Nat],
                                 seq : [1 .. Max(cfg.graphs) -> Nat]]
                  /\ \A i \in 1 .. PaddedSize(n) :
                        /\ filled.seq[i] = prefixes[i] + cfg.drafts
                        /\ filled.cu[i] = (i - 1) * cfg.drafts
<1>1. PICK size : size = PaddedSize(n)
  OBVIOUS
<1>2. size \in Nat \ {0} /\ size \in DOMAIN graphs
  BY <1>1, PaddedFits
<1>3. /\ size \in cfg.graphs /\ buffers # None
      /\ graphs[size].width = UpperBlocks /\ graphs[size].rows = size * cfg.drafts
  BY <1>2 DEF BackendInv, GraphsFit
<1>4. size <= Max(cfg.graphs) /\ Max(cfg.graphs) \in Nat
  BY <1>3, LargestGraph
<1>5. \A i \in 1 .. size : prefixes[i] \in Nat
  BY <1>1
<1>6. LET filled == FillBuffers(size, prefixes)
      IN  /\ filled \in [size : {Max(cfg.graphs)}, ext : [1 .. Max(cfg.graphs) -> Nat],
                         cu : [1 .. Max(cfg.graphs) + 1 -> Nat],
                         seq : [1 .. Max(cfg.graphs) -> Nat]]
          /\ \A i \in 1 .. size : /\ filled.seq[i] = prefixes[i] + cfg.drafts
                                  /\ filled.cu[i] = (i - 1) * cfg.drafts
  BY <1>2, <1>3, <1>4, <1>5, FilledBuffers
<1>7. QED BY <1>1, <1>3, <1>6

\* Verification, eagerly or replayed.
LEMMA VerifyStores ==
    ASSUME BackendInv, NEW batch \in Batches(cfg.batch),
           NEW taken \in [DOMAIN batch -> 1 .. cfg.drafts], Verify(batch, taken)
    PROVE  StoresInBounds' /\ IndexAttendsAll'
<1> DEFINE k == Len(batch)
           d == cfg.drafts
           size == PaddedSize(k)
           prefixes == [i \in 1 .. size |-> IF i <= k THEN len[batch[i]] ELSE Fill]
           filled == IF size = 0 THEN buffers ELSE FillBuffers(size, prefixes)
           length(i) == IF size = 0 THEN len[batch[i]] + d ELSE filled.seq[i]
           width == IF size = 0 THEN ScoreWidth(Max({length(i) : i \in DOMAIN batch}))
                    ELSE graphs[size].width
           lines == IF size = 0 THEN k * d ELSE graphs[size].rows
           first(i) == IF size = 0 THEN (i - 1) * d ELSE filled.cu[i]
           drafted(i) == [j \in 1 .. cfg.drafts |->
                            IF j <= taken[i] THEN keyof[batch[i]][len[batch[i]] + j - 1]
                            ELSE Rejected]
           stored(i) == Stored(batch[i], len[batch[i]], drafted(i))
           P(i, q) == VerifyQuery(batch[i], stored(i), len[batch[i]], q, length(i),
                                  first(i) + q, lines, width)
<1>1. /\ k \in Nat \ {0} /\ DOMAIN batch = 1 .. k /\ d \in Nat
      /\ \A i \in 1 .. k : batch[i] \in Requests /\ len[batch[i]] \in Nat
  BY ConfigFacts, BatchFacts
<1>2. out' = UNION {{P(i, q) : q \in 0 .. d - 1} : i \in DOMAIN batch}
  BY DEF Verify
<1>3. \A i \in 1 .. k : len[batch[i]] <= cfg.context
  BY <1>1 DEF Verify, Range
<1>4. size \in Nat /\ (size # 0 => k <= size)
  BY <1>1, PaddedFits
<1>5. \A i \in 1 .. size : prefixes[i] \in Nat
  BY <1>1, <1>4 DEF Fill
<1>6. /\ width = UpperBlocks
      /\ \E n \in Nat : lines = n * d /\ k <= n
      /\ \A i \in 1 .. k : length(i) = len[batch[i]] + d /\ first(i) = (i - 1) * d
  <2>1. CASE size = 0
    <3>1. width = UpperBlocks
      BY <2>1 DEF ScoreWidth
    <3>2. lines = k * d
      BY <2>1
    <3>3. \A i \in 1 .. k : length(i) = len[batch[i]] + d /\ first(i) = (i - 1) * d
      BY <2>1
    <3> HIDE DEF k, d, length, first, width, lines
    <3>4. QED BY <1>1, <3>1, <3>2, <3>3
  <2>2. CASE size # 0
    <3> HIDE DEF prefixes, k
    <3>1. /\ graphs[size].width = UpperBlocks /\ graphs[size].rows = size * d
          /\ \A i \in 1 .. size : /\ FillBuffers(size, prefixes).seq[i] = prefixes[i] + d
                                  /\ FillBuffers(size, prefixes).cu[i] = (i - 1) * d
      BY <1>1, <1>5, <2>2, ReplayBuffers
    <3>2. filled = FillBuffers(size, prefixes)
      BY <2>2
    <3>3. width = UpperBlocks /\ lines = size * d
      BY <2>2, <3>1
    <3>4. \A i \in 1 .. k : i \in 1 .. size /\ prefixes[i] = len[batch[i]]
      BY <1>1, <1>4, <2>2 DEF prefixes
    <3>5. \A i \in 1 .. k : length(i) = filled.seq[i] /\ first(i) = filled.cu[i]
      BY <2>2
    <3> HIDE DEF size, filled, length, first, d, width, lines
    <3>6. \A i \in 1 .. k : length(i) = len[batch[i]] + d /\ first(i) = (i - 1) * d
      BY <3>1, <3>2, <3>4, <3>5
    <3>7. QED BY <1>4, <2>2, <3>3, <3>6
  <2>3. QED BY <2>1, <2>2
<1> HIDE DEF k, size, filled, length, width, lines, first, prefixes
<1>7. ASSUME NEW i \in 1 .. k, NEW q \in 0 .. d - 1
      PROVE  /\ P(i, q).line = (i - 1) * d + q
             /\ P(i, q).line < P(i, q).lines
             /\ \A x \in P(i, q).columns : x < P(i, q).width
             /\ P(i, q).entries \subseteq 0 .. cfg.topk - 1
             /\ Positions(P(i, q).index) = 0 .. P(i, q).pos
             /\ Cardinality(P(i, q).index) = P(i, q).pos + 1
  <2>1. PICK prefix \in Nat : prefix = len[batch[i]]
    BY <1>1
  <2>2. PICK n \in Nat : n = prefix + d
    BY <1>1
  <2>3. length(i) = n /\ n <= cfg.context + d /\ prefix + q < n /\ q \in Nat
    <3>1. length(i) = n /\ n <= cfg.context + d
      <4>1. length(i) = n /\ prefix <= cfg.context
        BY <1>3, <1>6, <2>1, <2>2
      <4>2. cfg.context \in Nat /\ d \in Nat
        BY <1>1, ConfigFacts
      <4> HIDE DEF d
      <4>3. QED BY ONLY <2>2, <4>1, <4>2
    <3>2. d \in Nat /\ q \in 0 .. d - 1
      BY <1>1
    <3>3. QED BY ONLY <2>1, <2>2, <3>1, <3>2
  <2>4. /\ P(i, q).line = (i - 1) * d + q /\ P(i, q).lines = lines
        /\ P(i, q).width = width /\ P(i, q).pos = prefix + q
        /\ P(i, q).columns = ScoreColumns(cfg, prefix, q, n)
        /\ P(i, q).index = IndexPrefill(cfg, prefix, q, n)
        /\ P(i, q).entries = 0 .. cfg.topk - 1
    BY <1>6, <2>1, <2>3 DEF VerifyQuery, Query, IndexVerify, PrefillStores
  <2>5. (i - 1) * d + q < lines
    <3>1. PICK m \in Nat : lines = m * d /\ k <= m
      BY <1>6
    <3>2. i - 1 \in Nat /\ i - 1 < m
      BY <1>1, <3>1
    <3>3. PICK j : j = i - 1
      OBVIOUS
    <3>4. j \in Nat /\ j < m
      BY <3>2, <3>3
    <3>5. j * d \in Nat /\ m * d \in Nat /\ j * d + d <= m * d
      BY <1>1, <3>4, EqualRowsApart
    <3>6. j * d + q < m * d
      BY <1>1, <3>5
    <3>7. QED BY <3>1, <3>3, <3>6
  <2>6. ASSUME NEW x \in ScoreColumns(cfg, prefix, q, n) PROVE x < width
    <3>1. PICK p \in 0 .. n - 1 : x = p \div cfg.block
      BY DEF ScoreColumns
    <3>2. p \in Nat /\ p < cfg.context + cfg.drafts
      BY <2>3, ConfigFacts
    <3>3. QED BY <1>6, <3>1, <3>2, ColumnsFit
  <2>7. /\ Positions(IndexPrefill(cfg, prefix, q, n)) = 0 .. prefix + q
        /\ Cardinality(IndexPrefill(cfg, prefix, q, n)) = prefix + q + 1
    <3>1. cfg.tile \in Nat \ {0} /\ cfg.qtile \in Nat \ {0}
      BY ConfigFacts
    <3>2. QED BY ONLY <2>3, <3>1, IndexPrefillExact
  <2> HIDE DEF P
  <2>8. QED BY <2>4, <2>5, <2>6, <2>7
<1>8. ASSUME NEW i \in 1 .. k, NEW q \in 0 .. d - 1, NEW j \in 1 .. k, NEW u \in 0 .. d - 1,
             (i - 1) * d + q = (j - 1) * d + u
      PROVE  i = j /\ q = u
  <2>1. PICK a, b : a = i - 1 /\ b = j - 1
    OBVIOUS
  <2>2. a \in Nat /\ b \in Nat /\ a * d + q = b * d + u
    BY <1>1, <1>8, <2>1
  <2>3. a < b => a * d \in Nat /\ b * d \in Nat /\ a * d + d <= b * d
    BY <1>1, <2>2, EqualRowsApart
  <2>4. b < a => a * d \in Nat /\ b * d \in Nat /\ b * d + d <= a * d
    BY <1>1, <2>2, EqualRowsApart
  <2>5. a * d \in Nat /\ b * d \in Nat
    <3>1. d \in Nat
      BY <1>1
    <3>2. QED BY ONLY <2>2, <3>1
  <2>6. PICK x \in Nat, y \in Nat : x = a * d /\ y = b * d
    BY <2>5
  <2>12. q \in Nat /\ u \in Nat /\ q < d /\ u < d /\ d \in Nat
    BY <1>1
  <2>13. x + q = y + u
    BY ONLY <2>2, <2>6
  <2>14. (a < b => x + d <= y) /\ (b < a => y + d <= x)
    BY ONLY <2>3, <2>4, <2>6
  <2>7. ~(a < b)
    BY ONLY <2>6, <2>12, <2>13, <2>14
  <2>8. ~(b < a)
    BY ONLY <2>6, <2>12, <2>13, <2>14
  <2>9. a = b
    BY <2>2, <2>7, <2>8
  <2>10. q = u
    BY <2>2, <2>6, <2>9
  <2>11. QED BY <2>1, <2>9, <2>10
<1> HIDE DEF P, d
<1>9. \A o \in out' : \E i \in 1 .. k : \E q \in 0 .. d - 1 : o = P(i, q)
  BY <1>1, <1>2
<1>10. IndexAttendsAll'
  BY <1>7, <1>9 DEF IndexAttendsAll
<1>11. \A o \in out' : /\ o.line < o.lines /\ \A x \in o.columns : x < o.width
                       /\ o.entries \subseteq 0 .. cfg.topk - 1
  BY <1>7, <1>9
<1>13. cfg' = cfg
  BY DEF Verify
<1>12. ASSUME NEW o \in out', NEW v \in out', o.line = v.line PROVE o = v
  <2>1. PICK i \in 1 .. k : \E q \in 0 .. d - 1 : o = P(i, q)
    BY <1>9
  <2>2. PICK q \in 0 .. d - 1 : o = P(i, q)
    BY <2>1
  <2>3. PICK j \in 1 .. k : \E u \in 0 .. d - 1 : v = P(j, u)
    BY <1>9
  <2>4. PICK u \in 0 .. d - 1 : v = P(j, u)
    BY <2>3
  <2>5. i = j /\ q = u
    BY <1>7, <1>8, <1>12, <2>2, <2>4
  <2>6. QED BY <2>2, <2>4, <2>5
<1>14. QED BY <1>10, <1>11, <1>12, <1>13 DEF StoresInBounds

--------------------------------------------------------------------------------
(* The keys *)

\* The keys of a request are its own up to its length after it has grown by g of the
\* tokens stored, of which the first g are its own.
LEMMA OwnKeysStored ==
    ASSUME BackendInv, NEW r \in Requests, NEW new, Len(new) \in Nat, NEW g \in 0 .. Len(new),
           \A j \in 1 .. g : new[j] = keyof[r][len[r] + j - 1]
    PROVE  \A p \in 0 .. len[r] + g - 1 :
              /\ p \in DOMAIN Stored(r, len[r], new)
              /\ Stored(r, len[r], new)[p] = keyof[r][p]
<1>1. len[r] \in Nat
  BY DEF BackendInv, LengthsFit
<1>2. \A p \in 0 .. len[r] - 1 : p \in DOMAIN cache[r] /\ cache[r][p] = keyof[r][p]
  BY DEF BackendInv, RejectedKeysGone
<1>3. ASSUME NEW p \in 0 .. len[r] + g - 1
      PROVE  /\ p \in DOMAIN Stored(r, len[r], new)
             /\ Stored(r, len[r], new)[p] = keyof[r][p]
  <2>0. p \in Nat
    BY <1>1
  <2> DEFINE D == DOMAIN cache[r] \cup len[r] .. len[r] + Len(new) - 1
  <2>a. Stored(r, len[r], new) =
          [x \in D |-> IF x >= len[r] /\ x < len[r] + Len(new) THEN new[x - len[r] + 1]
                       ELSE cache[r][x]]
    BY DEF Stored
  <2> HIDE DEF D
  <2>1. CASE p < len[r]
    <3>1. p \in DOMAIN cache[r] /\ cache[r][p] = keyof[r][p]
      BY <1>1, <1>2, <2>0, <2>1
    <3>2. p \in D /\ ~(p >= len[r])
      BY <1>1, <2>1, <3>1 DEF D
    <3>3. QED BY <2>a, <3>1, <3>2
  <2>2. CASE ~(p < len[r])
    <3>1. p >= len[r] /\ p < len[r] + Len(new) /\ p - len[r] + 1 \in 1 .. g
      BY <1>1, <2>2
    <3>2. PICK j \in 1 .. g : j = p - len[r] + 1
      BY <3>1
    <3>3. len[r] + j - 1 = p
      BY <1>1, <3>2
    <3>4. new[j] = keyof[r][p]
      BY <3>3
    <3>5. /\ p \in DOMAIN Stored(r, len[r], new)
          /\ Stored(r, len[r], new)[p] = new[p - len[r] + 1]
      <4>1. p \in D
        BY <1>1, <3>1 DEF D
      <4>2. QED BY <2>a, <3>1, <4>1
    <3>6. QED BY <3>2, <3>4, <3>5
  <2>3. QED BY <2>1, <2>2
<1>4. QED BY <1>3

\* A step that leaves the keys of a request and its length alone, or stores its own.
LEMMA KeysStay ==
    ASSUME BackendInv, NEW r \in Requests, len'[r] = len[r], cache'[r] = cache[r],
           keyof' = keyof
    PROVE  \A p \in 0 .. len'[r] - 1 : p \in DOMAIN cache'[r] /\ cache'[r][p] = keyof'[r][p]
BY DEF BackendInv, RejectedKeysGone

LEMMA KeysGrow ==
    ASSUME BackendInv, NEW r \in Requests, NEW new, Len(new) \in Nat, NEW g \in 0 .. Len(new),
           \A j \in 1 .. g : new[j] = keyof[r][len[r] + j - 1],
           len'[r] = len[r] + g, cache'[r] = Stored(r, len[r], new), keyof' = keyof
    PROVE  \A p \in 0 .. len'[r] - 1 : p \in DOMAIN cache'[r] /\ cache'[r][p] = keyof'[r][p]
<1>1. \A p \in 0 .. len[r] + g - 1 :
        /\ p \in DOMAIN Stored(r, len[r], new)
        /\ Stored(r, len[r], new)[p] = keyof[r][p]
  BY OwnKeysStored
<1>2. ASSUME NEW p \in 0 .. len'[r] - 1
      PROVE  p \in DOMAIN cache'[r] /\ cache'[r][p] = keyof'[r][p]
  <2>1. p \in 0 .. len[r] + g - 1
    <3>1. len[r] \in Nat
      BY DEF BackendInv, LengthsFit
    <3>2. QED BY <3>1
  <2>2. p \in DOMAIN Stored(r, len[r], new) /\ Stored(r, len[r], new)[p] = keyof[r][p]
    BY <1>1, <2>1
  <2>3. keyof'[r] = keyof[r]
    OBVIOUS
  <2>4. QED BY <2>2, <2>3
<1>3. QED BY <1>2

LEMMA ExtendKeys ==
    ASSUME BackendInv, NEW batch \in Batches(cfg.batch),
           NEW news \in [DOMAIN batch -> 1 .. cfg.chunk], Extend(batch, news)
    PROVE  LengthsFit' /\ RejectedKeysGone'
<1>1. /\ \A i \in DOMAIN batch : batch[i] \in Requests /\ len[batch[i]] \in Nat
      /\ \A i, j \in DOMAIN batch : batch[i] = batch[j] => i = j
  BY ConfigFacts, BatchFacts
<1>2. \A i \in DOMAIN batch : news[i] \in Nat
  BY ConfigFacts
<1> DEFINE total(i) == len[batch[i]] + news[i]
           stored(i) == Stored(batch[i], len[batch[i]],
                               OwnKeys(batch[i], len[batch[i]], news[i]))
           at(r) == CHOOSE i \in DOMAIN batch : batch[i] = r
<1>3. /\ cache' = [r \in Requests |-> IF r \in Range(batch) THEN stored(at(r)) ELSE cache[r]]
      /\ len' = [r \in Requests |-> IF r \in Range(batch) THEN total(at(r)) ELSE len[r]]
      /\ keyof' = keyof
  BY DEF Extend
<1>4. \A r \in Range(batch) : at(r) \in DOMAIN batch /\ batch[at(r)] = r
  BY DEF Range
<1> HIDE DEF at
<1>5. ASSUME NEW r \in Requests
      PROVE  /\ len'[r] \in Nat
             /\ \A p \in 0 .. len'[r] - 1 : p \in DOMAIN cache'[r] /\ cache'[r][p] = keyof'[r][p]
  <2>1. CASE r \notin Range(batch)
    <3>1. len'[r] = len[r] /\ cache'[r] = cache[r] /\ len[r] \in Nat
      BY <1>3, <2>1 DEF BackendInv, LengthsFit
    <3>2. QED BY <1>3, <3>1, KeysStay
  <2>2. CASE r \in Range(batch)
    <3>1. PICK i \in DOMAIN batch : i = at(r) /\ batch[i] = r
      BY <1>4, <2>2
    <3>2. PICK n \in Nat : n = news[i]
      BY <1>2
    <3>3. PICK new : new = OwnKeys(r, len[r], n)
      OBVIOUS
    <3>4. len'[r] = len[r] + n /\ cache'[r] = Stored(r, len[r], new) /\ len[r] \in Nat
      BY <1>1, <1>3, <2>2, <3>1, <3>2, <3>3
    <3>5. /\ Len(new) = n
          /\ \A j \in 1 .. n : new[j] = keyof[r][len[r] + j - 1]
      BY <3>3 DEF OwnKeys
    <3>6. n \in 0 .. n
      BY <3>2
    <3>7. Len(new) \in Nat /\ n \in 0 .. Len(new)
      BY <3>5, <3>6
    <3>8. \A p \in 0 .. len'[r] - 1 : p \in DOMAIN cache'[r] /\ cache'[r][p] = keyof'[r][p]
      BY <1>3, <3>4, <3>5, <3>7, KeysGrow
    <3>9. len'[r] \in Nat
      BY <3>2, <3>4
    <3>10. QED BY <3>8, <3>9
  <2>3. QED BY <2>1, <2>2
<1>6. DOMAIN len' = Requests /\ DOMAIN cache' = Requests /\ len' = [r \in Requests |-> len'[r]]
  BY <1>3
<1>7. QED BY <1>5, <1>6 DEF LengthsFit, RejectedKeysGone

LEMMA DecodeKeys ==
    ASSUME BackendInv, NEW batch \in Batches(cfg.batch), Decode(batch)
    PROVE  LengthsFit' /\ RejectedKeysGone'
<1> DEFINE stored(r) == Stored(r, len[r], OwnKeys(r, len[r], 1))
<1>1. /\ cache' = [r \in Requests |-> IF r \in Range(batch) THEN stored(r) ELSE cache[r]]
      /\ len' = [r \in Requests |-> IF r \in Range(batch) THEN len[r] + 1 ELSE len[r]]
      /\ keyof' = keyof
  BY DEF Decode
<1>2. ASSUME NEW r \in Requests
      PROVE  /\ len'[r] \in Nat
             /\ \A p \in 0 .. len'[r] - 1 : p \in DOMAIN cache'[r] /\ cache'[r][p] = keyof'[r][p]
  <2>0. len[r] \in Nat
    BY DEF BackendInv, LengthsFit
  <2>1. CASE r \notin Range(batch)
    <3>1. len'[r] = len[r] /\ cache'[r] = cache[r]
      BY <1>1, <2>1
    <3>2. QED BY <1>1, <2>0, <3>1, KeysStay
  <2>2. CASE r \in Range(batch)
    <3>1. PICK new : new = OwnKeys(r, len[r], 1)
      OBVIOUS
    <3>2. len'[r] = len[r] + 1 /\ cache'[r] = Stored(r, len[r], new)
      BY <1>1, <2>2, <3>1
    <3>3. /\ Len(new) = 1
          /\ \A j \in 1 .. 1 : new[j] = keyof[r][len[r] + j - 1]
      BY <3>1 DEF OwnKeys
    <3>4. 1 \in Nat /\ 1 \in 0 .. 1
      OBVIOUS
    <3>5. Len(new) \in Nat /\ 1 \in 0 .. Len(new)
      BY <3>3, <3>4
    <3>6. \A p \in 0 .. len'[r] - 1 : p \in DOMAIN cache'[r] /\ cache'[r][p] = keyof'[r][p]
      BY <1>1, <3>2, <3>3, <3>5, KeysGrow
    <3>7. len'[r] \in Nat
      BY <2>0, <3>2
    <3>8. QED BY <3>6, <3>7
  <2>3. QED BY <2>1, <2>2
<1>3. DOMAIN len' = Requests /\ DOMAIN cache' = Requests /\ len' = [r \in Requests |-> len'[r]]
  BY <1>1
<1>4. QED BY <1>2, <1>3 DEF LengthsFit, RejectedKeysGone

LEMMA VerifyKeys ==
    ASSUME BackendInv, NEW batch \in Batches(cfg.batch),
           NEW taken \in [DOMAIN batch -> 1 .. cfg.drafts], Verify(batch, taken)
    PROVE  LengthsFit' /\ RejectedKeysGone'
<1>1. /\ \A i \in DOMAIN batch : batch[i] \in Requests /\ len[batch[i]] \in Nat
      /\ \A i, j \in DOMAIN batch : batch[i] = batch[j] => i = j
  BY ConfigFacts, BatchFacts
<1>2. PICK d \in Nat : d = cfg.drafts
  BY ConfigFacts
<1> DEFINE drafted(i) == [j \in 1 .. cfg.drafts |->
                            IF j <= taken[i] THEN keyof[batch[i]][len[batch[i]] + j - 1]
                            ELSE Rejected]
           stored(i) == Stored(batch[i], len[batch[i]], drafted(i))
           at(r) == CHOOSE i \in DOMAIN batch : batch[i] = r
<1>3. /\ cache' = [r \in Requests |-> IF r \in Range(batch) THEN stored(at(r)) ELSE cache[r]]
      /\ len' = [r \in Requests |-> IF r \in Range(batch) THEN len[r] + taken[at(r)] ELSE len[r]]
      /\ keyof' = keyof
  BY DEF Verify
<1>4. \A r \in Range(batch) : at(r) \in DOMAIN batch /\ batch[at(r)] = r
  BY DEF Range
<1> HIDE DEF at
<1>5. ASSUME NEW r \in Requests
      PROVE  /\ len'[r] \in Nat
             /\ \A p \in 0 .. len'[r] - 1 : p \in DOMAIN cache'[r] /\ cache'[r][p] = keyof'[r][p]
  <2>1. CASE r \notin Range(batch)
    <3>1. len'[r] = len[r] /\ cache'[r] = cache[r] /\ len[r] \in Nat
      BY <1>3, <2>1 DEF BackendInv, LengthsFit
    <3>2. QED BY <1>3, <3>1, KeysStay
  <2>2. CASE r \in Range(batch)
    <3>1. PICK i \in DOMAIN batch : i = at(r) /\ batch[i] = r
      BY <1>4, <2>2
    <3>2. PICK g \in 1 .. d : g = taken[i]
      BY <1>2
    <3>3. PICK new : new = drafted(i)
      OBVIOUS
    <3>4. len'[r] = len[r] + g /\ cache'[r] = Stored(r, len[r], new) /\ len[r] \in Nat
      BY <1>1, <1>3, <2>2, <3>1, <3>2, <3>3
    <3>5. /\ Len(new) = d
          /\ \A j \in 1 .. g : new[j] = keyof[r][len[r] + j - 1]
      BY <1>2, <3>1, <3>2, <3>3
    <3>6. g \in 0 .. d
      BY <1>2, <3>2
    <3>7. Len(new) \in Nat /\ g \in 0 .. Len(new)
      BY <3>5, <3>6
    <3>8. \A p \in 0 .. len'[r] - 1 : p \in DOMAIN cache'[r] /\ cache'[r][p] = keyof'[r][p]
      BY <1>3, <3>4, <3>5, <3>7, KeysGrow
    <3>9. len'[r] \in Nat
      BY <3>2, <3>4
    <3>10. QED BY <3>8, <3>9
  <2>3. QED BY <2>1, <2>2
<1>6. DOMAIN len' = Requests /\ DOMAIN cache' = Requests /\ len' = [r \in Requests |-> len'[r]]
  BY <1>3
<1>7. QED BY <1>5, <1>6 DEF LengthsFit, RejectedKeysGone

\* A verification that fails has stored keys, but behind the lengths.
LEMMA OverflowKeys ==
    ASSUME BackendInv, NEW batch \in Batches(cfg.batch), VerifyOverflows(batch)
    PROVE  LengthsFit' /\ RejectedKeysGone'
<1>1. /\ cache' = [r \in Requests |->
                     IF r \in Range(batch)
                     THEN Stored(r, len[r], OwnKeys(r, len[r], cfg.drafts)) ELSE cache[r]]
      /\ len' = len /\ keyof' = keyof
  BY DEF VerifyOverflows
<1>2. len \in [Requests -> Nat]
  BY DEF BackendInv, LengthsFit
<1>3. ASSUME NEW r \in Requests
      PROVE  \A p \in 0 .. len'[r] - 1 : p \in DOMAIN cache'[r] /\ cache'[r][p] = keyof'[r][p]
  <2>1. CASE r \notin Range(batch)
    <3>1. len'[r] = len[r] /\ cache'[r] = cache[r]
      BY <1>1, <2>1
    <3>2. QED BY <1>1, <3>1, KeysStay
  <2>2. CASE r \in Range(batch)
    <3>1. PICK n \in Nat : n = cfg.drafts
      BY ConfigFacts
    <3>2. PICK new : new = OwnKeys(r, len[r], n)
      OBVIOUS
    <3>3. len'[r] = len[r] + 0 /\ cache'[r] = Stored(r, len[r], new)
      BY <1>1, <1>2, <2>2, <3>1, <3>2
    <3>4. /\ Len(new) = n
          /\ \A j \in 1 .. 0 : new[j] = keyof[r][len[r] + j - 1]
      BY <3>2 DEF OwnKeys
    <3>5. 0 \in 0 .. n
      BY <3>1
    <3>6. QED BY <1>1, <3>1, <3>3, <3>4, <3>5, KeysGrow
  <2>3. QED BY <2>1, <2>2
<1>4. DOMAIN cache' = Requests
  BY <1>1
<1>5. QED BY <1>1, <1>2, <1>3, <1>4 DEF LengthsFit, RejectedKeysGone

LEMMA FinishKeys ==
    ASSUME BackendInv, NEW r \in Requests, Finish(r)
    PROVE  LengthsFit' /\ RejectedKeysGone'
<1>1. /\ len' = [len EXCEPT ![r] = 0] /\ cache' = [cache EXCEPT ![r] = <<>>] /\ keyof' = keyof
  BY DEF Finish
<1>2. len \in [Requests -> Nat] /\ DOMAIN cache = Requests
  BY DEF BackendInv, LengthsFit
<1>3. ASSUME NEW q \in Requests
      PROVE  \A p \in 0 .. len'[q] - 1 : p \in DOMAIN cache'[q] /\ cache'[q][p] = keyof'[q][p]
  <2>1. CASE q = r
    <3>1. len'[q] = 0
      BY <1>1, <1>2, <2>1
    <3>2. QED BY <3>1
  <2>2. CASE q # r
    <3>1. len'[q] = len[q] /\ cache'[q] = cache[q]
      BY <1>1, <1>2, <2>2
    <3>2. QED BY <1>1, <3>1, KeysStay
  <2>3. QED BY <2>1, <2>2
<1>4. len' \in [Requests -> Nat] /\ DOMAIN cache' = Requests
  BY <1>1, <1>2
<1>5. QED BY <1>3, <1>4 DEF LengthsFit, RejectedKeysGone

--------------------------------------------------------------------------------
(* The buffers and the graphs *)

\* Actions that leave them alone.
LEMMA GraphsStay ==
    ASSUME BackendInv, cfg' = cfg, graphs' = graphs, buffers' = buffers
    PROVE  BuffersFit' /\ GraphsFit'
<1>1. BuffersFit'
  BY DEF BackendInv, BuffersFit, None
<1>2. UpperBlocks' = UpperBlocks
  BY DEF UpperBlocks, Blocks
<1>3. GraphsFit'
  BY <1>2 DEF BackendInv, GraphsFit, None
<1>4. QED BY <1>1, <1>3

LEMMA InitGraphsFit ==
    ASSUME BackendInv, InitGraphState
    PROVE  BuffersFit' /\ GraphsFit'
<1>1. /\ buffers = None /\ cfg.graphs # {} /\ cfg' = cfg /\ graphs' = graphs
      /\ buffers' = [size |-> Max(cfg.graphs),
                     ext |-> [i \in 1 .. Max(cfg.graphs) |-> 0],
                     cu |-> [i \in 1 .. Max(cfg.graphs) + 1 |-> 0],
                     seq |-> [i \in 1 .. Max(cfg.graphs) |-> 0]]
  BY DEF InitGraphState
<1>2. PICK m : m = Max(cfg.graphs)
  OBVIOUS
<1>3. buffers' \in [size : {m}, ext : [1 .. m -> Nat], cu : [1 .. m + 1 -> Nat],
                    seq : [1 .. m -> Nat]]
  BY <1>1, <1>2
<1>4. BuffersFit'
  BY <1>1, <1>2, <1>3 DEF BuffersFit
<1>5. DOMAIN graphs = {}
  BY <1>1 DEF BackendInv, GraphsFit
<1>6. GraphsFit'
  BY <1>1, <1>5 DEF GraphsFit
<1>7. QED BY <1>4, <1>6

\* A graph is recorded for lengths of the fill value and the sizes of any length.
LEMMA CaptureFits ==
    ASSUME BackendInv, NEW bs \in cfg.graphs, Capture(bs)
    PROVE  BuffersFit' /\ GraphsFit'
<1> DEFINE fills == [i \in 1 .. bs |-> Fill]
           entry == [width |-> ScoreWidth(Fill + cfg.drafts),
                     rows |-> AllRows([i \in 1 .. bs |-> cfg.drafts], cfg.drafts, TRUE)]
<1>1. /\ buffers # None /\ cfg' = cfg
      /\ buffers' = IF cfg.drafts > 0 THEN FillBuffers(bs, fills) ELSE buffers
      /\ graphs' = [b \in DOMAIN graphs \cup {bs} |-> IF b # bs THEN graphs[b] ELSE entry]
  BY DEF Capture
<1>2. /\ bs \in Nat \ {0} /\ bs <= Max(cfg.graphs) /\ Max(cfg.graphs) \in Nat
  BY ConfigFacts, LargestGraph
<1>3. \A i \in 1 .. bs : fills[i] \in Nat
  BY DEF Fill
<1>4. buffers' \in [size : {Max(cfg.graphs)}, ext : [1 .. Max(cfg.graphs) -> Nat],
                    cu : [1 .. Max(cfg.graphs) + 1 -> Nat],
                    seq : [1 .. Max(cfg.graphs) -> Nat]]
  <2>1. CASE cfg.drafts > 0
    <3> HIDE DEF fills
    <3>1. FillBuffers(bs, fills) \in [size : {Max(cfg.graphs)}, ext : [1 .. Max(cfg.graphs) -> Nat],
                                      cu : [1 .. Max(cfg.graphs) + 1 -> Nat],
                                      seq : [1 .. Max(cfg.graphs) -> Nat]]
      BY <1>1, <1>2, <1>3, FilledBuffers
    <3>2. buffers' = FillBuffers(bs, fills)
      BY <1>1, <2>1
    <3>3. QED BY <3>1, <3>2
  <2>2. CASE ~(cfg.drafts > 0)
    <3>1. buffers' = buffers
      BY <1>1, <2>2
    <3>2. QED BY <1>1, <3>1 DEF BackendInv, BuffersFit
  <2>3. QED BY <2>1, <2>2
<1>5. BuffersFit'
  BY <1>1, <1>4 DEF BuffersFit
<1>6. entry.width = UpperBlocks /\ entry.rows = bs * cfg.drafts
  <2>1. entry.width = UpperBlocks
    BY DEF ScoreWidth
  <2>2. Len([i \in 1 .. bs |-> cfg.drafts]) = bs
    BY <1>2
  <2>3. entry.rows = Len([i \in 1 .. bs |-> cfg.drafts]) * cfg.drafts
    BY DEF AllRows
  <2>4. QED BY <2>1, <2>2, <2>3
<1> HIDE DEF entry
<1>7. UpperBlocks' = UpperBlocks
  BY <1>1 DEF UpperBlocks, Blocks
<1>8. buffers' # None
  <2>1. PICK m : m = Max(cfg.graphs)
    OBVIOUS
  <2>2. DOMAIN buffers' = {"size", "ext", "cu", "seq"}
    BY <1>4, <2>1
  <2>3. DOMAIN None = {"none"}
    BY DEF None
  <2>4. QED BY <2>2, <2>3
<1>9. GraphsFit'
  <2>1. DOMAIN graphs' = DOMAIN graphs \cup {bs}
    BY <1>1
  <2>2. DOMAIN graphs \subseteq cfg.graphs
    BY DEF BackendInv, GraphsFit
  <2>3. ASSUME NEW b \in DOMAIN graphs'
        PROVE  graphs'[b].width = UpperBlocks /\ graphs'[b].rows = b * cfg.drafts
    <3>1. CASE b = bs
      BY <1>1, <1>6, <2>1, <3>1
    <3>2. CASE b # bs
      <4>1. b \in DOMAIN graphs /\ graphs'[b] = graphs[b]
        BY <1>1, <2>1, <3>2
      <4>2. QED BY <4>1 DEF BackendInv, GraphsFit
    <3>3. QED BY <3>1, <3>2
  <2>4. QED BY <1>1, <1>7, <1>8, <2>1, <2>2, <2>3 DEF GraphsFit
<1>10. QED BY <1>5, <1>9

\* Verification rewrites the buffers for the batch it replays.
LEMMA VerifyFits ==
    ASSUME BackendInv, NEW batch \in Batches(cfg.batch),
           NEW taken \in [DOMAIN batch -> 1 .. cfg.drafts], Verify(batch, taken)
    PROVE  BuffersFit' /\ GraphsFit'
<1> DEFINE k == Len(batch)
           size == PaddedSize(k)
           prefixes == [i \in 1 .. size |-> IF i <= k THEN len[batch[i]] ELSE Fill]
<1>1. /\ cfg' = cfg /\ graphs' = graphs
      /\ buffers' = IF size = 0 THEN buffers ELSE FillBuffers(size, prefixes)
  BY DEF Verify
<1>2. /\ k \in Nat \ {0} /\ DOMAIN batch = 1 .. k
      /\ \A i \in 1 .. k : len[batch[i]] \in Nat
  BY ConfigFacts, BatchFacts
<1>3. CASE size = 0
  BY <1>1, <1>3, GraphsStay
<1>4. CASE size # 0
  <2>1. size \in Nat
    BY <1>2, PaddedFits
  <2>2. \A i \in 1 .. size : prefixes[i] \in Nat
    BY <1>2, <2>1 DEF Fill
  <2> HIDE DEF k, prefixes
  <2>3. /\ buffers # None
        /\ FillBuffers(size, prefixes) \in
             [size : {Max(cfg.graphs)}, ext : [1 .. Max(cfg.graphs) -> Nat],
              cu : [1 .. Max(cfg.graphs) + 1 -> Nat], seq : [1 .. Max(cfg.graphs) -> Nat]]
    BY <1>2, <1>4, <2>2, ReplayBuffers
  <2>4. buffers' = FillBuffers(size, prefixes)
    BY <1>1, <1>4
  <2>5. BuffersFit'
    BY <1>1, <2>3, <2>4 DEF BuffersFit
  <2>6. buffers' # None
    <3>1. PICK m : m = Max(cfg.graphs)
      OBVIOUS
    <3>2. DOMAIN buffers' = {"size", "ext", "cu", "seq"}
      BY <2>3, <2>4, <3>1
    <3>3. DOMAIN None = {"none"}
      BY DEF None
    <3>4. QED BY <3>2, <3>3
  <2>7. UpperBlocks' = UpperBlocks
    BY <1>1 DEF UpperBlocks, Blocks
  <2>8. GraphsFit'
    BY <1>1, <2>6, <2>7 DEF BackendInv, GraphsFit
  <2>9. QED BY <2>5, <2>8
<1>5. QED BY <1>3, <1>4

--------------------------------------------------------------------------------
(* The invariant *)

\* What a step leaves alone stays as it should be.
LEMMA KeysUnchanged ==
    ASSUME BackendInv, len' = len, cache' = cache, keyof' = keyof
    PROVE  LengthsFit' /\ RejectedKeysGone'
BY DEF BackendInv, LengthsFit, RejectedKeysGone

LEMMA OutputStays ==
    ASSUME StoresInBounds, IndexAttendsAll, out' = out \/ out' = {}, cfg' = cfg
    PROVE  StoresInBounds' /\ IndexAttendsAll'
BY DEF StoresInBounds, IndexAttendsAll

LEMMA InitBackend ==
    ASSUME Init
    PROVE  BackendInv /\ StoresInBounds /\ IndexAttendsAll
<1>1. /\ cfg \in Configs /\ keyof \in cfg.keys /\ buffers = None /\ graphs = <<>> /\ out = {}
      /\ len = [r \in Requests |-> 0] /\ cache = [r \in Requests |-> <<>>]
  BY DEF Init
<1>2. LengthsFit
  BY <1>1 DEF LengthsFit
<1>3. BuffersFit
  BY <1>1 DEF BuffersFit
<1>4. GraphsFit
  <2>1. DOMAIN graphs = {}
    BY <1>1
  <2>2. QED BY <2>1 DEF GraphsFit
<1>5. RejectedKeysGone
  <2>1. \A r \in Requests : 0 .. len[r] - 1 = {}
    BY <1>1
  <2>2. QED BY <2>1 DEF RejectedKeysGone
<1>6. StoresInBounds /\ IndexAttendsAll
  BY <1>1 DEF StoresInBounds, IndexAttendsAll
<1>7. QED BY <1>1, <1>2, <1>3, <1>4, <1>5, <1>6 DEF BackendInv

LEMMA NextBackend ==
    ASSUME BackendInv, StoresInBounds, IndexAttendsAll, [Next]_vars
    PROVE  BackendInv' /\ StoresInBounds' /\ IndexAttendsAll'
<1>1. ASSUME cfg' = cfg, keyof' = keyof, LengthsFit', RejectedKeysGone', BuffersFit', GraphsFit'
      PROVE  BackendInv'
  BY <1>1 DEF BackendInv
<1>2. CASE InitGraphState
  <2>1. UNCHANGED <<cfg, keyof, len, cache, out>>
    BY <1>2 DEF InitGraphState
  <2>2. BuffersFit' /\ GraphsFit'
    BY <1>2, InitGraphsFit
  <2>3. QED BY <1>1, <2>1, <2>2, KeysUnchanged, OutputStays
<1>3. ASSUME NEW bs \in cfg.graphs, Capture(bs)
      PROVE  BackendInv' /\ StoresInBounds' /\ IndexAttendsAll'
  <2>1. UNCHANGED <<cfg, keyof, len, cache, out>>
    BY <1>3 DEF Capture
  <2>2. BuffersFit' /\ GraphsFit'
    BY <1>3, CaptureFits
  <2>3. QED BY <1>1, <2>1, <2>2, KeysUnchanged, OutputStays
<1>4. ASSUME NEW r \in Requests, Finish(r)
      PROVE  BackendInv' /\ StoresInBounds' /\ IndexAttendsAll'
  <2>1. UNCHANGED <<cfg, keyof, buffers, graphs>> /\ out' = {}
    BY <1>4 DEF Finish
  <2>2. LengthsFit' /\ RejectedKeysGone'
    BY <1>4, FinishKeys
  <2>3. QED BY <1>1, <2>1, <2>2, GraphsStay, OutputStays
<1>5. ASSUME NEW batch \in Batches(cfg.batch), NEW news \in [DOMAIN batch -> 1 .. cfg.chunk],
             Extend(batch, news)
      PROVE  BackendInv' /\ StoresInBounds' /\ IndexAttendsAll'
  <2>1. UNCHANGED <<cfg, keyof, buffers, graphs>>
    BY <1>5 DEF Extend
  <2>2. LengthsFit' /\ RejectedKeysGone'
    BY <1>5, ExtendKeys
  <2>3. StoresInBounds' /\ IndexAttendsAll'
    BY <1>5, ExtendStores
  <2>4. QED BY <1>1, <2>1, <2>2, <2>3, GraphsStay
<1>6. ASSUME NEW batch \in Batches(cfg.batch), Decode(batch)
      PROVE  BackendInv' /\ StoresInBounds' /\ IndexAttendsAll'
  <2>1. UNCHANGED <<cfg, keyof, buffers, graphs>>
    BY <1>6 DEF Decode
  <2>2. LengthsFit' /\ RejectedKeysGone'
    BY <1>6, DecodeKeys
  <2>3. StoresInBounds' /\ IndexAttendsAll'
    BY <1>6, DecodeStores
  <2>4. QED BY <1>1, <2>1, <2>2, <2>3, GraphsStay
<1>7. ASSUME NEW batch \in Batches(cfg.batch), NEW taken \in [DOMAIN batch -> 1 .. cfg.drafts],
             Verify(batch, taken)
      PROVE  BackendInv' /\ StoresInBounds' /\ IndexAttendsAll'
  <2>1. UNCHANGED <<cfg, keyof>>
    BY <1>7 DEF Verify
  <2>2. LengthsFit' /\ RejectedKeysGone'
    BY <1>7, VerifyKeys
  <2>3. StoresInBounds' /\ IndexAttendsAll'
    BY <1>7, VerifyStores
  <2>4. BuffersFit' /\ GraphsFit'
    BY <1>7, VerifyFits
  <2>5. QED BY <1>1, <2>1, <2>2, <2>3, <2>4
<1>8. ASSUME NEW batch \in Batches(cfg.batch), VerifyOverflows(batch)
      PROVE  BackendInv' /\ StoresInBounds' /\ IndexAttendsAll'
  <2>1. UNCHANGED <<cfg, keyof, buffers, graphs>> /\ out' = {}
    BY <1>8 DEF VerifyOverflows
  <2>2. LengthsFit' /\ RejectedKeysGone'
    BY <1>8, OverflowKeys
  <2>3. QED BY <1>1, <2>1, <2>2, GraphsStay, OutputStays
<1>9. CASE UNCHANGED vars
  <2>1. UNCHANGED <<cfg, keyof, len, cache, buffers, graphs, out>>
    BY <1>9 DEF vars
  <2>2. QED BY <1>1, <2>1, KeysUnchanged, GraphsStay, OutputStays
<1>10. QED BY <1>2, <1>3, <1>4, <1>5, <1>6, <1>7, <1>8, <1>9 DEF Next

--------------------------------------------------------------------------------
(* Theorems *)

\* In every reachable state the lengths, the buffers and the recorded graphs are such
\* that a forward may rely on them (init_forward_metadata*, init_cuda_graph_state), the
\* cache holds the own keys of each request, and the last forward stored and attended as
\* it should.
THEOREM BackendInvariant == Spec => [](BackendInv /\ StoresInBounds /\ IndexAttendsAll)
<1>1. Init => BackendInv /\ StoresInBounds /\ IndexAttendsAll
  BY InitBackend
<1>2. BackendInv /\ StoresInBounds /\ IndexAttendsAll /\ [Next]_vars
        => (BackendInv /\ StoresInBounds /\ IndexAttendsAll)'
  BY NextBackend
<1>3. QED BY <1>1, <1>2, PTL DEF Spec

\* Each query of a forward, eager or replayed, stores into a row of its own and within
\* the score buffer, whatever the lengths were when the graph was recorded
\* (score_max_seqblock_k, _verify_cu_seqlens_buf).
THEOREM StoresStayInBounds == Spec => []StoresInBounds
BY BackendInvariant, PTL

\* No position that counts as accepted holds the key of a rejected draft token, however
\* much each verification took (_forward_verify).
THEOREM NoRejectedKeyCounts == Spec => []RejectedKeysGone
<1>1. BackendInv => RejectedKeysGone
  BY DEF BackendInv
<1>2. QED BY <1>1, BackendInvariant, PTL

\* The index head of prefill, decode and verification attends to every position up to
\* the query's own, to each once and to no other, for any block, tile and program size
\* and any number of chunks (minimax_sparse_decode, _flash_attn_fwd_with_block_score_kernel).
THEOREM IndexHeadAttendsAll == Spec => []IndexAttendsAll
BY BackendInvariant, PTL
================================================================================
