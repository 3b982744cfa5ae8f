------------------------- MODULE GlmAttentionProofs --------------------------
(***************************************************************************)
(* The server calls the sparse MLA kernels with a batch of one item.  For  *)
(* such a call, whatever the device, the number of rows and of heads, the  *)
(* tail kernels are never chosen, the splits divide every row whose length *)
(* is a multiple of 32 tiles, and the columns of the output are in order,  *)
(* which they are not in every item of a larger batch.                     *)
(*                                                                         *)
(* Hence a layer of a forward fails at most where the indexer's decode     *)
(* kernel is given several tokens of a request: ForwardInv.  However the   *)
(* indexer cuts a batch into chunks, and a chunk into slices, the logits   *)
(* of a slice fit the buffer.                                              *)
(***************************************************************************)
EXTENDS GlmAttention, RequestQueueLemmas

Splits == {1, 2, 4, 8, 16, 32}

LEMMA SplitListSplits ==
    ASSUME NEW key
    PROVE  SplitList(key) \subseteq Splits
BY DEF SplitList, Splits

LEMMA BestSplitsSplits ==
    ASSUME NEW key, NEW base \in Splits
    PROVE  BestSplits(key, base) \subseteq Splits
BY SplitListSplits DEF BestSplits

LEMMA MaxOfOne == Max({1}) = 1
BY DEF Max

\* The greatest common divisor with one is one.
LEMMA GcdOne ==
    ASSUME NEW n \in {1, 2, 4, 8}
    PROVE  Gcd(1, n) = 1
<1>1. \A d \in 1 .. n : 1 % d = 0 => d = 1
  BY SMT
<1>2. {d \in 1 .. n : 1 % d = 0 /\ n % d = 0} = {1}
  <2>1. 1 \in 1 .. n /\ 1 % 1 = 0 /\ n % 1 = 0
    BY SMT
  <2> QED BY <1>1, <2>1
<1> QED BY <1>2, MaxOfOne DEF Gcd

LEMMA DivisorAtMost ==
    ASSUME NEW n \in Nat \ {0}, NEW per \in Nat \ {0}, n % per = 0
    PROVE  per <= n
BY SMT

\* What every choice for a batch of one looks like.
Fits(c) == c.tail = 0 /\ c.split \in Splits

\* A batch of one item in a count of compute units: either the item fills it, and
\* there is a head and no tail, or it is all tail.
LEMMA StreamKFits ==
    ASSUME NEW per \in Nat \ {0}, NEW n \in {72, 36, 18, 9, 64, 32, 16, 8},
           n % per = 0,
           \/ CuCount = 72 /\ n \in {72, 36, 18, 9}
           \/ CuCount = 64 /\ n \in {64, 32, 16, 8},
           NEW c \in StreamK(per, n)
    PROVE  Fits(c)
<1>1. per <= n
  BY DivisorAtMost
<1> DEFINE rest == per % n
           full == per - rest
           base == (CuCount \div n) \div Gcd(full \div n, CuCount \div n)
           heads == IF full > 0 THEN BestSplits(full, base) ELSE {0}
           tails == IF rest > 0 THEN BestSplits(rest, 1) ELSE {0}
           apart == {ht \in heads \X tails : ht[1] # 0 /\ ht[1] # ht[2]}
<1>2. StreamK(per, n) =
        {Config(t, 0, per) : t \in {u \in tails : u \in heads \/ 0 \in heads}}
        \cup {Config(ht[1], ht[2], full) : ht \in {p \in apart : p[2] # 1}}
        \cup {Config(s, 0, per) : s \in IF \E ht \in apart : ht[2] = 1
                                       THEN BestSplits(per, 1) ELSE {}}
  BY DEF StreamK
<1>3. 1 \in Splits /\ 0 \notin Splits
  BY DEF Splits
<1>4. BestSplits(per, 1) \subseteq Splits /\ BestSplits(rest, 1) \subseteq Splits
  BY <1>3, BestSplitsSplits
<1>5. CASE per < n
  <2>1. rest = per /\ full = 0
    BY <1>5
  <2>2. heads = {0} /\ tails = BestSplits(rest, 1)
    BY <2>1
  <2> HIDE DEF heads, tails, rest, full, base
  <2>3. apart = {}
    BY <2>2
  <2> HIDE DEF apart
  <2>4. PICK s \in Splits : c = Config(s, 0, per)
    BY <1>2, <1>4, <2>2, <2>3
  <2> QED BY <2>4 DEF Fits, Config
<1>6. CASE per = n
  <2>1. rest = 0 /\ full = n
    BY <1>6
  <2>2. CuCount \div n \in {1, 2, 4, 8} /\ full \div n = 1
    BY <2>1
  <2>3. base \in {1, 2, 4, 8}
    <3>1. Gcd(1, CuCount \div n) = 1
      BY <2>2, GcdOne
    <3> QED BY <2>2, <3>1
  <2>4. heads \subseteq Splits /\ tails = {0}
    <3>1. base \in Splits
      BY <2>3 DEF Splits
    <3>2. BestSplits(full, base) \subseteq Splits
      BY <3>1, BestSplitsSplits
    <3> QED BY <2>1, <3>2
  <2> HIDE DEF heads, tails, rest, full, base
  <2>5. {u \in tails : u \in heads \/ 0 \in heads} = {}
    BY <1>3, <2>4
  <2>6. \A ht \in apart : ht[1] \in Splits /\ ht[2] = 0
    BY <2>4
  <2> HIDE DEF apart
  <2>7. CASE \E ht \in {p \in apart : p[2] # 1} : c = Config(ht[1], ht[2], full)
    BY <2>6, <2>7 DEF Fits, Config
  <2>8. CASE \E s \in BestSplits(per, 1) : c = Config(s, 0, per)
    BY <1>4, <2>8 DEF Fits, Config
  <2> QED BY <1>2, <2>5, <2>7, <2>8
<1> QED BY <1>1, <1>5, <1>6

\* The server's calls, a batch of one item, never get a tail, and are split 1, 2, 4,
\* 8, 16 or 32 times, on every device and for every number of rows and heads.
THEOREM SingleBatchHasNoTail ==
    ASSUME NEW seq \in Nat \ {0}, NEW heads \in Nat \ {0}, NEW c \in Configs(1, seq, heads)
    PROVE  c.tail = 0 /\ c.split \in Splits
<1> DEFINE per == seq * CeilDiv(heads, BlockM(heads))
<1>0. CuCount \in Nat \ {0}
  BY KernelAssumption
<1>1. per \in Nat \ {0} /\ 1 * per = per
  <2>1. CeilDiv(heads, BlockM(heads)) \in Nat \ {0}
    BY DEF CeilDiv, BlockM
  <2> HIDE DEF CeilDiv, BlockM
  <2> DEFINE k == CeilDiv(heads, BlockM(heads))
  <2>2. k \in Nat \ {0}
    BY <2>1
  <2> HIDE DEF k
  <2>3. seq * k \in Nat \ {0}
    BY <2>2
  <2> QED BY <2>3 DEF k
<1> HIDE DEF per
<1>2. CASE c \in StreamKConfigs(1, seq, heads)
  <2>1. CASE per \in Measured /\ per = 1 /\ BlockM(heads) = 16 /\ c = Config(MeasuredSplit(per), 0, per)
    BY <2>1 DEF Config, MeasuredSplit, Splits
  <2>2. CASE c = Config(1, 0, 1)
    BY <2>2 DEF Config, Splits
  <2>3. CASE \E n \in Counts : \E d \in StreamK(per, n) :
                n % per = 0 /\ c = [d EXCEPT !.head = @ \div per]
    <3>0. PICK n \in Counts : \E d \in StreamK(per, n) : n % per = 0 /\ c = [d EXCEPT !.head = @ \div per]
      BY <2>3
    <3>1. PICK d \in StreamK(per, n) : n % per = 0 /\ c = [d EXCEPT !.head = @ \div per]
      BY <3>0
    <3>2. \/ CuCount = 72 /\ n \in {72, 36, 18, 9}
          \/ CuCount = 64 /\ n \in {64, 32, 16, 8}
      BY DEF Counts
    <3>3. d.tail = 0 /\ d.split \in Splits
      BY <1>1, <3>1, <3>2, StreamKFits DEF Fits
    <3>4. c.tail = d.tail /\ c.split = d.split
      <4>1. \E s, t, h : d = Config(s, t, h)
        BY DEF StreamK
      <4> QED BY <3>1, <4>1 DEF Config
    <3> QED BY <3>3, <3>4
  <2>4. CASE \E s \in BestSplits(per, 1) : c = Config(s, 0, 1)
    BY <2>4, BestSplitsSplits DEF Config, Splits
  <2> QED BY <1>1, <1>2, <2>1, <2>2, <2>3, <2>4 DEF StreamKConfigs, per
<1>3. CASE c = FastConfig(1, seq, heads)
  <2> DEFINE fills == {s \in {1, 2, 4, 8, 16} : per * s > CuCount}
  <2>1. fills # {} => Min(fills) \in fills
    <3>1. SUFFICES ASSUME fills # {}
                   PROVE  \E x \in fills : \A y \in fills : x <= y
      BY DEF Min
    <3> QED BY <3>1
  <2>2. c = Config(IF fills = {} THEN 32 ELSE Min(fills), 0, 1)
    BY <1>1, <1>3 DEF FastConfig, per
  <2> QED BY <2>1, <2>2 DEF Config, Splits
<1> QED BY <1>2, <1>3 DEF Configs

LEMMA MultipleMod ==
    ASSUME NEW a \in Nat, NEW b \in Nat \ {0}
    PROVE  (a * b) % b = 0
BY SMT

\* Every choice the server's calls can get passes the assertions on the way to the
\* launch, when a row is a multiple of 32 tiles long and the heads fill their tiles.
THEOREM SingleBatchLaunches ==
    ASSUME NEW seq \in Nat \ {0}, NEW heads \in Nat \ {0}, NEW k \in Nat,
           heads > MaxBlockM(heads) => heads % MaxBlockM(heads) = 0,
           NEW c \in Configs(1, seq, heads)
    PROVE  Launches(1, heads, 32 * k * BlockI, c)
<1>1. c.tail = 0 /\ c.split \in Splits
  BY SingleBatchHasNoTail
<1>2. BlockI \in Nat \ {0}
  BY KernelAssumption
<1>3. (32 * k * BlockI) % BlockI = 0
  <2>1. 32 * k \in Nat
    OBVIOUS
  <2> QED BY <1>2, <2>1, MultipleMod
<1>4. \A s \in Splits : (32 * k * BlockI) % (s * BlockI) = 0
  <2> TAKE s \in Splits
  <2>1. PICK m \in Nat : 32 = m * s
    <3>1. /\ s = 1 => 32 = 32 * s
          /\ s = 2 => 32 = 16 * s
          /\ s = 4 => 32 = 8 * s
          /\ s = 8 => 32 = 4 * s
          /\ s = 16 => 32 = 2 * s
          /\ s = 32 => 32 = 1 * s
      OBVIOUS
    <3> QED BY <3>1 DEF Splits
  <2>2. s \in Nat \ {0}
    BY DEF Splits
  <2>3. 32 * k * BlockI = (m * k) * (s * BlockI)
    BY <1>2, <2>1, <2>2
  <2>4. m * k \in Nat /\ s * BlockI \in Nat \ {0}
    BY <1>2, <2>2
  <2> QED BY <2>3, <2>4, MultipleMod
<1> QED BY <1>1, <1>3, <1>4 DEF Launches

\* In the server's calls every product of a score and every column of the output
\* takes its own quarter of the keys, although two buffers hold four quarters.
THEOREM SingleBatchInOrder ==
    ASSUME NEW seq \in Nat \ {0}, NEW heads \in Nat \ {0}, NEW row,
           NEW c \in Configs(1, seq, heads)
    PROVE  /\ ItemAttention(row, 1, c, heads).scores = <<0, 1, 2, 3>>
           /\ ItemAttention(row, 1, c, heads).columns = <<0, 1, 2, 3>>
<1>1. c.tail = 0
  BY SingleBatchHasNoTail
<1>2. ItemAttention(row, 1, c, heads) = Attention(row, c.split, heads)
  BY <1>1 DEF ItemAttention
<1>3. ScoreQuarters = <<0, 1, 2, 3>> /\ ValueQuarters = <<0, 1, 2, 3>>
  BY DEF ScoreQuarters, ValueQuarters, LoadedTile
<1>4. StoredColumns(<<0, 1, 2, 3>>, MaxBlockM(heads) > 16) = <<0, 1, 2, 3>>
  BY DEF StoredColumns
<1> QED BY <1>2, <1>3, <1>4 DEF Attention

--------------------------------------------------------------------------------
(* Sums, and sequences in a row *)

LEMMA SumOfNone ==
    ASSUME NEW f
    PROVE  SumFunctionOnSet(f, {}) = 0
<1>1. UnitsOver(f, {}) = {}
  BY DEF UnitsOver
<1>2. SumFunctionOnSet(f, {}) = Cardinality(UnitsOver(f, {}))
  BY FS_EmptySet, FoldSum DEF SumFunctionOnSet
<1>3. QED BY <1>1, <1>2, FS_EmptySet

LEMMA SumIsNat ==
    ASSUME NEW T, IsFiniteSet(T), NEW f, \A x \in T : f[x] \in Nat
    PROVE  SumFunctionOnSet(f, T) \in Nat
<1>1. IsFiniteSet(UnitsOver(f, T))
  BY UnitsFinite
<1>2. SumFunctionOnSet(f, T) = Cardinality(UnitsOver(f, T))
  BY FoldSum DEF SumFunctionOnSet
<1>3. QED BY <1>1, <1>2, FS_CardinalityType

LEMMA SumWith ==
    ASSUME NEW T, IsFiniteSet(T), NEW f, \A x \in T : f[x] \in Nat, NEW x \in T
    PROVE  SumFunctionOnSet(f, T) = SumFunctionOnSet(f, T \ {x}) + f[x]
<1>1. IsFiniteSet(T \ {x})
  BY FS_Subset
<1>2. PICK A, B : A = UnitsOver(f, T \ {x}) /\ B = {x} \X (1 .. f[x])
  OBVIOUS
<1>3. UnitsOver(f, T) = A \cup B /\ A \cap B = {}
  BY <1>2, UnitsWithout
<1>4. IsFiniteSet(A) /\ IsFiniteSet(B) /\ Cardinality(B) = f[x]
  BY <1>1, <1>2, UnitsFinite, UnitsOfOne
<1>5. Cardinality(A \cup B) = Cardinality(A) + Cardinality(B)
  BY ONLY <1>3, <1>4, DisjointUnion
<1>6. /\ SumFunctionOnSet(f, T) = Cardinality(UnitsOver(f, T))
      /\ SumFunctionOnSet(f, T \ {x}) = Cardinality(A)
  BY <1>1, <1>2, FoldSum DEF SumFunctionOnSet
<1>7. QED BY <1>3, <1>4, <1>5, <1>6

\* FlattenSeq has the elements of each sequence.
LEMMA FlattenSeqElements ==
    ASSUME NEW X, NEW seqs \in Seq(Seq(X))
    PROVE  /\ FlattenSeq(seqs) \in Seq(X)
           /\ \A i \in DOMAIN seqs : \A j \in DOMAIN seqs[i] :
                 \E t \in DOMAIN FlattenSeq(seqs) : FlattenSeq(seqs)[t] = seqs[i][j]
<1> DEFINE n == Len(seqs)
           A == Seq(X)
           base == <<>>
           step == [i \in 1 .. n |-> [acc \in A |-> acc \o seqs[i]]]
           Body(f) == [i \in 1 .. n |-> IF i = 1 THEN seqs[i] ELSE f[i - 1] \o seqs[i]]
           iter == CHOOSE f : f = Body(f)
<1>1. n \in Nat /\ DOMAIN seqs = 1 .. n /\ \A i \in 1 .. n : seqs[i] \in A
  OBVIOUS
<1>2. CASE n = 0
  <2>1. FlattenSeq(seqs) = seqs /\ seqs = <<>> /\ DOMAIN seqs = {}
    BY <1>2 DEF FlattenSeq
  <2>2. QED BY <2>1
<1>3. CASE n # 0
  <2>1. FlattenSeq(seqs) = iter[n]
    BY <1>3 DEF FlattenSeq
  <2>2. base \in A /\ step \in [1 .. n -> [A -> A]]
    <3>1. \A acc \in A : \A i \in 1 .. n : acc \o seqs[i] \in A
      BY <1>1, ConcatProperties
    <3>2. base \in A
      OBVIOUS
    <3> HIDE DEF A, base
    <3>3. QED BY <3>1, <3>2
  <2> HIDE DEF n, A, base
  <2>3. PICK g \in [SUBSET (1 .. n) -> A] : IsFold(g, base, step, n)
    <3> HIDE DEF step
    <3>1. QED BY <1>1, <2>2, FoldExists
  <2> DEFINE f == [i \in 1 .. n |-> g[1 .. i]]
  <2>4. ASSUME NEW i \in 1 .. n PROVE g[1 .. i] = g[1 .. i - 1] \o seqs[i]
    <3>1. /\ 1 .. i \in SUBSET (1 .. n) /\ 1 .. i \in SUBSET (0 .. n) /\ i \in 1 .. i
          /\ (1 .. i) \ {i} = 1 .. i - 1
      BY <1>1
    <3>2. Max(1 .. i) = i
      <4>1. Max(1 .. i) \in 1 .. i /\ \A y \in 1 .. i : Max(1 .. i) >= y
        BY <1>1, <3>1, MaxIsGreatest
      <4>2. QED BY <4>1
    <3>3. g[1 .. i] = step[i][g[1 .. i - 1]]
      <4>1. PICK T : T = 1 .. i
        OBVIOUS
      <4>2. T \in SUBSET (1 .. n) /\ T # {} /\ Max(T) = i /\ T \ {i} = 1 .. i - 1
        BY <3>1, <3>2, <4>1
      <4>3. g[T] = step[Max(T)][g[T \ {Max(T)}]]
        BY <2>3, <4>2 DEF IsFold
      <4>4. QED BY <4>1, <4>2, <4>3
    <3>4. g[1 .. i - 1] \in A
      <4>1. 1 .. i - 1 \in SUBSET (1 .. n)
        BY <3>1
      <4>2. QED BY <4>1
    <3>5. QED BY <3>3, <3>4
  <2>5. f = Body(f)
    <3>1. ASSUME NEW i \in 1 .. n PROVE f[i] = Body(f)[i]
      <4>1. CASE i = 1
        <5>1. 1 .. i - 1 = {}
          BY <4>1
        <5>2. g[1 .. i - 1] = <<>>
          BY <2>3, <5>1 DEF IsFold, base
        <5>3. <<>> \o seqs[i] = seqs[i]
          BY <1>1 DEF A
        <5>4. QED BY <2>4, <4>1, <5>2, <5>3
      <4>2. CASE i # 1
        <5>1. i - 1 \in 1 .. n
          BY <1>1, <4>2
        <5>2. QED BY <2>4, <4>2, <5>1
      <4>3. QED BY <4>1, <4>2
    <3>2. QED BY <3>1
  <2> HIDE DEF f
  <2>6. iter = Body(iter)
    BY <2>5
  <2> HIDE DEF iter
  <2>7. ASSUME NEW i \in 1 .. n
        PROVE  iter[i] = IF i = 1 THEN seqs[i] ELSE iter[i - 1] \o seqs[i]
    BY <2>6
  <2> DEFINE Has(s, k) == \A i \in 1 .. k : \A j \in DOMAIN seqs[i] :
                             \E t \in DOMAIN s : s[t] = seqs[i][j]
             Bad == {k \in 1 .. n : ~(iter[k] \in Seq(X) /\ Has(iter[k], k))}
  <2>8. ASSUME NEW k \in 1 .. n, k - 1 \notin Bad PROVE iter[k] \in Seq(X) /\ Has(iter[k], k)
    <3>1. CASE k = 1
      BY <1>1, <2>7, <3>1 DEF A
    <3>2. CASE k # 1
      <4>1. k - 1 \in 1 .. n
        BY <1>1, <3>2
      <4>2. iter[k - 1] \in Seq(X) /\ Has(iter[k - 1], k - 1)
        BY <2>8, <4>1
      <4>3. PICK s, u : s = iter[k - 1] /\ u = seqs[k]
        OBVIOUS
      <4>4. s \in Seq(X) /\ u \in Seq(X) /\ iter[k] = s \o u
        BY <1>1, <2>7, <3>2, <4>2, <4>3 DEF A
      <4>5. /\ s \o u \in Seq(X)
            /\ \A t \in DOMAIN s : t \in DOMAIN (s \o u) /\ (s \o u)[t] = s[t]
            /\ \A t \in DOMAIN u : Len(s) + t \in DOMAIN (s \o u) /\ (s \o u)[Len(s) + t] = u[t]
        BY <4>4
      <4>6. Has(s \o u, k)
        <5>1. SUFFICES ASSUME NEW i \in 1 .. k, NEW j \in DOMAIN seqs[i]
                       PROVE  \E t \in DOMAIN (s \o u) : (s \o u)[t] = seqs[i][j]
          OBVIOUS
        <5>2. CASE i = k
          BY <4>3, <4>5, <5>2
        <5>3. CASE i # k
          <6>1. i \in 1 .. k - 1
            BY <1>1, <5>3
          <6>2. PICK t \in DOMAIN s : s[t] = seqs[i][j]
            BY <4>2, <4>3, <6>1
          <6>3. QED BY <4>5, <6>2
        <5>4. QED BY <5>2, <5>3
      <4>7. QED BY <4>4, <4>5, <4>6
    <3>3. QED BY <3>1, <3>2
  <2>9. Bad = {}
    <3>1. SUFFICES ASSUME Bad # {} PROVE FALSE
      OBVIOUS
    <3>2. Bad \in SUBSET Nat
      BY <1>1
    <3>3. PICK k \in Bad : \A m \in Bad : k <= m
      <4> HIDE DEF Bad
      <4>1. QED BY <3>1, <3>2, LeastNat
    <3>4. k \in 1 .. n /\ ~(iter[k] \in Seq(X) /\ Has(iter[k], k))
      OBVIOUS
    <3>5. k - 1 \notin Bad
      <4> HIDE DEF Bad
      <4>1. ~(k <= k - 1)
        BY <1>1, <3>4
      <4>2. QED BY <3>3, <4>1
    <3>6. QED BY <2>8, <3>4, <3>5
  <2>10. n \in 1 .. n
    BY <1>1, <1>3
  <2>11. iter[n] \in Seq(X) /\ Has(iter[n], n)
    BY <2>9, <2>10
  <2>12. QED BY <1>1, <2>1, <2>11
<1>4. QED BY <1>2, <1>3

--------------------------------------------------------------------------------
(* The slices of the logits *)

LEMMA CeilDivBounds ==
    ASSUME NEW a \in Nat, NEW b \in Nat \ {0}
    PROVE  /\ CeilDiv(a, b) \in Nat /\ a <= CeilDiv(a, b) * b /\ (a > 0 => CeilDiv(a, b) > 0)
           /\ \A c \in Nat : a <= c * b => CeilDiv(a, b) <= c
           /\ \A c \in Nat : c < CeilDiv(a, b) => c * b < a
BY RoundedUp DEF CeilDiv

LEMMA MaxOfTwo ==
    ASSUME NEW a \in Nat, NEW b \in Nat
    PROVE  Max({a, b}) = IF a > b THEN a ELSE b
<1>1. PICK n \in Nat : a <= n /\ b <= n
  <2>1. a + b \in Nat /\ a <= a + b /\ b <= a + b
    OBVIOUS
  <2>2. QED BY <2>1
<1>2. {a, b} \in SUBSET (0 .. n) /\ {a, b} # {}
  BY <1>1
<1>3. PICK T : T = {a, b}
  OBVIOUS
<1>4. Max(T) \in T /\ \A y \in T : Max(T) >= y
  BY <1>1, <1>2, <1>3, MaxIsGreatest
<1>5. QED BY <1>3, <1>4

LEMMA MinOfTwo ==
    ASSUME NEW a \in Nat, NEW b \in Nat
    PROVE  Min({a, b}) = IF a < b THEN a ELSE b
<1>1. PICK T : T = {a, b}
  OBVIOUS
<1>2. Min(T) \in T /\ \A y \in T : Min(T) <= y
  BY <1>1, MinIsLeast
<1>3. QED BY <1>1, <1>2

\* The logits of as many rows as MAX_Q_CHUNK fit, when the keys fit their buffer: x keys
\* take u tiles, and d rows of them fill the buffer, of which e whole tiles are used.
LEMMA RowsFit ==
    ASSUME NEW x \in Nat \ {0}, x <= IndexBuffer, NEW keys, keys = CeilDiv(x, Align) * Align,
           NEW q, q = Max({1, ((LogitsCapacity \div keys) \div Align) * Align})
    PROVE  /\ q \in Nat \ {0}
           /\ \A n \in Nat : n <= q => CeilDiv(n, Align) * Align * keys <= LogitsCapacity
<1>1. /\ IndexBuffer \in Nat /\ LogitsCapacity \in Nat /\ Align \in Nat \ {0}
      /\ Align * (CeilDiv(IndexBuffer, Align) * Align) <= LogitsCapacity
  BY BuffersAssumption
<1>2. PICK u, v : u = CeilDiv(x, Align) /\ v = CeilDiv(IndexBuffer, Align)
  OBVIOUS
<1>3. u \in Nat \ {0} /\ v \in Nat /\ u <= v
  <2>1. u \in Nat /\ u > 0 /\ \A c \in Nat : x <= c * Align => u <= c
    BY <1>1, <1>2, CeilDivBounds
  <2>2. v \in Nat /\ IndexBuffer <= v * Align
    BY <1>1, <1>2, CeilDivBounds
  <2>3. x <= v * Align
    <3>1. PICK p : p = v * Align
      OBVIOUS
    <3>2. p \in Nat
      BY <1>1, <2>2, <3>1
    <3>3. QED BY <1>1, <2>2, <3>1, <3>2
  <2>4. QED BY <2>1, <2>2, <2>3
<1>4. keys \in Nat \ {0} /\ Align * keys <= LogitsCapacity
  <2>1. keys = u * Align
    BY <1>2
  <2>2. keys \in Nat \ {0}
    BY <1>1, <1>3, <2>1
  <2>3. PICK w : w = v * Align
    OBVIOUS
  <2>4. w \in Nat /\ keys <= w
    BY <1>1, <1>3, <2>1, <2>3, TimesGrows
  <2>5. Align * w <= LogitsCapacity
    BY <1>1, <1>2, <2>3
  <2>6. keys * Align <= w * Align
    BY <1>1, <2>2, <2>4, TimesGrows
  <2>7. keys * Align = Align * keys /\ w * Align = Align * w /\ Align * keys \in Nat /\ Align * w \in Nat
    BY <1>1, <2>2, <2>4
  <2>8. QED BY <1>1, <2>2, <2>5, <2>6, <2>7
<1>5. PICK d, e : d = LogitsCapacity \div keys /\ e = d \div Align
  OBVIOUS
<1>6. d \in Nat /\ d * keys <= LogitsCapacity /\ Align <= d
  BY <1>1, <1>4, <1>5, DivBounds
<1>7. e \in Nat \ {0} /\ e * Align <= d
  <2>1. e \in Nat /\ e * Align <= d /\ \A c \in Nat : c * Align <= d => c <= e
    BY <1>1, <1>5, <1>6, DivBounds
  <2>2. 1 * Align <= d
    BY <1>1, <1>6
  <2>3. 1 <= e
    BY <2>1, <2>2
  <2>4. QED BY <2>1, <2>3
<1>8. PICK f : f = e * Align
  OBVIOUS
<1>9. f \in Nat \ {0} /\ f <= d /\ q = f
  <2>1. f \in Nat \ {0} /\ f <= d
    BY <1>1, <1>7, <1>8
  <2>2. q = Max({1, f})
    BY <1>5, <1>8
  <2>3. QED BY <2>1, <2>2, MaxOfTwo
<1>10. ASSUME NEW n \in Nat, n <= q PROVE CeilDiv(n, Align) * Align * keys <= LogitsCapacity
  <2>1. PICK m, g : m = CeilDiv(n, Align) /\ g = m * Align
    OBVIOUS
  <2>2. g \in Nat /\ g <= f
    <3>1. m \in Nat /\ \A c \in Nat : n <= c * Align => m <= c
      BY <1>1, <2>1, CeilDivBounds
    <3>2. m <= e
      BY <1>7, <1>8, <1>9, <1>10, <3>1
    <3>3. m * Align <= e * Align
      BY <1>1, <1>7, <3>1, <3>2, TimesGrows
    <3>4. QED BY <1>1, <1>8, <2>1, <3>1, <3>3
  <2>3. g * keys <= LogitsCapacity
    <3>1. g <= d
      BY <1>6, <1>9, <2>2
    <3>2. g * keys <= d * keys
      BY <1>4, <1>6, <2>2, <3>1, TimesGrows
    <3>3. PICK a, b : a = g * keys /\ b = d * keys
      OBVIOUS
    <3>4. a \in Nat /\ b \in Nat
      BY <1>4, <1>6, <2>2, <3>3
    <3>5. QED BY <1>1, <1>6, <3>2, <3>3, <3>4
  <2>4. QED BY <2>1, <2>3
<1>11. QED BY <1>9, <1>10

--------------------------------------------------------------------------------
(* Parts of the batch *)

Lens == [j \in DOMAIN batch |-> batch[j].len]
KeysOf(C) == SumFunctionOnSet(Lens, C)

LEMMA BatchFacts ==
    ASSUME LengthsFit
    PROVE  /\ Len(batch) \in Nat /\ DOMAIN batch = 1 .. Len(batch)
           /\ \A i \in DOMAIN batch :
                 /\ batch[i].req \in Requests /\ batch[i].n \in Nat \ {0}
                 /\ batch[i].len \in Nat \ {0} /\ Lens[i] = batch[i].len
                 /\ Lens[i] <= IndexBuffer /\ Lens[i] <= PrefillBuffer
<1>1. /\ batch \in Seq([req : Requests, n : Nat \ {0}, len : Nat])
      /\ \A i \in DOMAIN batch :
            batch[i].n <= batch[i].len /\ batch[i].len <= MaxLen[batch[i].req]
  BY DEF LengthsFit
<1>2. Len(batch) \in Nat /\ DOMAIN batch = 1 .. Len(batch)
  BY <1>1
<1>3. ASSUME NEW i \in DOMAIN batch
      PROVE  /\ batch[i].req \in Requests /\ batch[i].n \in Nat \ {0}
             /\ batch[i].len \in Nat \ {0} /\ Lens[i] = batch[i].len
             /\ Lens[i] <= IndexBuffer /\ Lens[i] <= PrefillBuffer
  <2>1. batch[i] \in [req : Requests, n : Nat \ {0}, len : Nat]
    BY <1>1, <1>2, ElementOfSeq
  <2>2. PICK r, n, k : r = batch[i].req /\ n = batch[i].n /\ k = batch[i].len
    OBVIOUS
  <2>3. r \in Requests /\ n \in Nat \ {0} /\ k \in Nat /\ n <= k /\ k <= MaxLen[r]
    BY <1>1, <2>1, <2>2
  <2>4. k \in Nat \ {0}
    BY <2>3
  <2>5. MaxLen[r] \in Nat /\ MaxLen[r] <= IndexBuffer /\ MaxLen[r] <= PrefillBuffer
        /\ IndexBuffer \in Nat /\ PrefillBuffer \in Nat
    BY <2>3, BuffersAssumption, RequestsAssumption
  <2>6. k <= IndexBuffer /\ k <= PrefillBuffer
    BY <2>3, <2>4, <2>5
  <2>7. Lens[i] = k
    BY <2>2 DEF Lens
  <2>8. QED BY <2>2, <2>3, <2>4, <2>6, <2>7
<1>4. QED BY <1>2, <1>3

LEMMA KeysFacts ==
    ASSUME LengthsFit, NEW C \in SUBSET DOMAIN batch
    PROVE  /\ IsFiniteSet(C) /\ KeysOf(C) \in Nat
           /\ \A i \in C : KeysOf(C) = KeysOf(C \ {i}) + Lens[i] /\ KeysOf(C \ {i}) \in Nat
           /\ C # {} => KeysOf(C) > 0
           /\ \A i \in DOMAIN batch : KeysOf({i}) = Lens[i]
<1>1. /\ Len(batch) \in Nat /\ DOMAIN batch = 1 .. Len(batch)
      /\ \A i \in DOMAIN batch : Lens[i] \in Nat \ {0}
  BY BatchFacts
<1>2. \A T \in SUBSET DOMAIN batch : IsFiniteSet(T)
  <2>1. IsFiniteSet(1 .. Len(batch))
    BY <1>1, FS_Interval
  <2>2. QED BY <1>1, <2>1, FS_Subset
<1>3. ASSUME NEW T \in SUBSET DOMAIN batch
      PROVE  KeysOf(T) \in Nat /\ \A i \in T : KeysOf(T) = KeysOf(T \ {i}) + Lens[i]
  <2>1. IsFiniteSet(T) /\ \A x \in T : Lens[x] \in Nat
    BY <1>1, <1>2
  <2>2. QED BY <2>1, SumIsNat, SumWith DEF KeysOf
<1>4. ASSUME NEW i \in C PROVE KeysOf(C) = KeysOf(C \ {i}) + Lens[i] /\ KeysOf(C \ {i}) \in Nat
  BY <1>3
<1>5. C # {} => KeysOf(C) > 0
  <2>1. SUFFICES ASSUME C # {} PROVE KeysOf(C) > 0
    OBVIOUS
  <2>2. PICK i \in C : TRUE
    BY <2>1
  <2>3. Lens[i] \in Nat \ {0}
    BY <1>1
  <2>4. PICK a, b, c : a = KeysOf(C \ {i}) /\ b = Lens[i] /\ c = KeysOf(C)
    OBVIOUS
  <2>5. c = a + b /\ a \in Nat /\ b \in Nat \ {0}
    BY <1>4, <2>2, <2>3, <2>4
  <2>6. c > 0
    BY <2>5
  <2>7. QED BY <2>4, <2>6
<1>6. ASSUME NEW i \in DOMAIN batch PROVE KeysOf({i}) = Lens[i]
  <2>1. KeysOf({i}) = KeysOf({i} \ {i}) + Lens[i]
    BY <1>3
  <2>2. {i} \ {i} = {}
    OBVIOUS
  <2>3. KeysOf({}) = 0
    BY SumOfNone DEF KeysOf
  <2>4. PICK a, b : a = KeysOf({i}) /\ b = Lens[i]
    OBVIOUS
  <2>5. a = 0 + b /\ b \in Nat
    BY <1>1, <2>1, <2>2, <2>3, <2>4
  <2>6. QED BY <2>4, <2>5
<1>7. QED BY <1>2, <1>3, <1>4, <1>5, <1>6

LEMMA StartInFacts ==
    ASSUME LengthsFit, NEW C \in SUBSET DOMAIN batch, NEW i, \A j \in C : j < i
    PROVE  StartIn(C, i) = KeysOf(C)
<1>1. {j \in C : j < i} = C
  OBVIOUS
<1>2. QED BY <1>1 DEF StartIn, KeysOf, Lens

\* Chunks of the first k requests: parts of S that are not empty and whose keys fit.
ChunksOf(acc, k, S, limit) ==
    /\ acc \in Seq(SUBSET DOMAIN batch)
    /\ \A c \in DOMAIN acc : /\ acc[c] # {} /\ acc[c] \subseteq S
                             /\ \A j \in acc[c] : j <= k
                             /\ KeysOf(acc[c]) <= limit

LEMMA WithRequestFits ==
    ASSUME LengthsFit, NEW S, NEW limit \in Nat, \A i \in DOMAIN batch : Lens[i] <= limit,
           NEW k \in DOMAIN batch, NEW acc, ChunksOf(acc, k - 1, S, limit)
    PROVE  ChunksOf(WithRequest(acc, k, S, limit), k, S, limit)
<1>1. /\ Len(batch) \in Nat /\ DOMAIN batch = 1 .. Len(batch)
      /\ \A i \in DOMAIN batch : Lens[i] \in Nat \ {0} /\ Lens[i] = batch[i].len
  BY BatchFacts
<1>2. k \in Nat
  BY <1>1
<1>3. /\ acc \in Seq(SUBSET DOMAIN batch)
      /\ \A c \in DOMAIN acc : /\ acc[c] # {} /\ acc[c] \subseteq S
                               /\ \A j \in acc[c] : j <= k - 1
                               /\ KeysOf(acc[c]) <= limit
  BY DEF ChunksOf
<1>4. \A c \in DOMAIN acc : acc[c] \in SUBSET DOMAIN batch /\ \A j \in acc[c] : j < k /\ j <= k
  <2>1. SUFFICES ASSUME NEW c \in DOMAIN acc, NEW j \in acc[c]
                 PROVE  j \in DOMAIN batch /\ j < k /\ j <= k
    OBVIOUS
  <2>2. acc[c] \in SUBSET DOMAIN batch
    BY <1>3
  <2>3. j \in Nat /\ j <= k - 1
    BY <1>1, <1>3, <2>2
  <2>4. QED BY <1>2, <2>2, <2>3
<1>5. CASE k \notin S
  <2>1. WithRequest(acc, k, S, limit) = acc
    BY <1>5 DEF WithRequest
  <2>2. QED BY <1>3, <1>4, <2>1 DEF ChunksOf
<1>6. CASE k \in S /\ acc # <<>> /\ StartIn(Last(acc), k) + batch[k].len <= limit
  <2>1. PICK m, last, front, new : m = Len(acc) /\ last = Last(acc) /\ front = Front(acc)
                                   /\ new = last \cup {k}
    OBVIOUS
  <2>2. m \in Nat \ {0} /\ m \in DOMAIN acc /\ last = acc[m] /\ DOMAIN acc = 1 .. m
    BY <1>3, <1>6, <2>1 DEF Last
  <2>3. /\ front \in Seq(SUBSET DOMAIN batch) /\ Len(front) = m - 1
        /\ DOMAIN front = 1 .. m - 1 /\ \A c \in 1 .. m - 1 : front[c] = acc[c]
    <3>1. front = SubSeq(acc, 1, m - 1)
      BY <2>1 DEF Front
    <3>2. \A c \in 1 .. m - 1 : acc[c] \in SUBSET DOMAIN batch
      BY <1>3, <2>2
    <3>3. QED BY <2>2, <3>1, <3>2, SubSeqProperties
  <2>4. new \in SUBSET DOMAIN batch /\ new # {} /\ new \subseteq S /\ \A j \in new : j <= k
    BY <1>2, <1>3, <1>4, <1>6, <2>1, <2>2
  <2>5. KeysOf(new) <= limit
    <3>1. StartIn(last, k) = KeysOf(last)
      BY <1>4, <2>2, StartInFacts
    <3>2. new \ {k} = last
      BY <1>2, <1>4, <2>1, <2>2
    <3>3. KeysOf(new) = KeysOf(last) + Lens[k]
      BY <2>1, <2>4, <3>2, KeysFacts
    <3>4. QED BY <1>1, <1>6, <2>1, <3>1, <3>3
  <2>6. WithRequest(acc, k, S, limit) = Append(front, new)
    BY <1>6, <2>1 DEF WithRequest
  <2>7. /\ Append(front, new) \in Seq(SUBSET DOMAIN batch)
        /\ DOMAIN Append(front, new) = 1 .. m
        /\ \A c \in 1 .. m : Append(front, new)[c] = IF c = m THEN new ELSE acc[c]
    BY <2>2, <2>3, <2>4
  <2>8. PICK z : z = Append(front, new)
    OBVIOUS
  <2>9. ASSUME NEW c \in DOMAIN z
        PROVE  z[c] # {} /\ z[c] \subseteq S /\ (\A j \in z[c] : j <= k) /\ KeysOf(z[c]) <= limit
    <3>1. c \in DOMAIN acc /\ z[c] = IF c = m THEN new ELSE acc[c]
      BY <2>2, <2>7, <2>8
    <3>2. CASE c = m
      BY <2>4, <2>5, <3>1, <3>2
    <3>3. CASE c # m
      BY <1>3, <1>4, <3>1, <3>3
    <3>4. QED BY <3>2, <3>3
  <2>10. ChunksOf(z, k, S, limit)
    BY <2>7, <2>8, <2>9 DEF ChunksOf
  <2>11. QED BY <2>6, <2>8, <2>10
<1>7. CASE k \in S /\ ~(acc # <<>> /\ StartIn(Last(acc), k) + batch[k].len <= limit)
  <2>1. WithRequest(acc, k, S, limit) = Append(acc, {k})
    BY <1>7 DEF WithRequest
  <2>2. PICK z : z = Append(acc, {k})
    OBVIOUS
  <2>3. /\ z \in Seq(SUBSET DOMAIN batch) /\ DOMAIN z = 1 .. Len(acc) + 1
        /\ \A c \in 1 .. Len(acc) + 1 : z[c] = IF c = Len(acc) + 1 THEN {k} ELSE acc[c]
    BY <1>3, <2>2
  <2>4. KeysOf({k}) <= limit
    <3>1. {k} \in SUBSET DOMAIN batch
      OBVIOUS
    <3>2. QED BY <3>1, KeysFacts
  <2>5. ASSUME NEW c \in DOMAIN z
        PROVE  z[c] # {} /\ z[c] \subseteq S /\ (\A j \in z[c] : j <= k) /\ KeysOf(z[c]) <= limit
    <3>1. CASE c = Len(acc) + 1
      <4>1. z[c] = {k}
        BY <2>3, <3>1
      <4>2. QED BY <1>2, <1>7, <2>4, <4>1
    <3>2. CASE c # Len(acc) + 1
      <4>1. c \in DOMAIN acc /\ z[c] = acc[c]
        BY <1>3, <2>3, <3>2
      <4>2. QED BY <1>3, <1>4, <4>1
    <3>3. QED BY <3>1, <3>2
  <2>6. ChunksOf(z, k, S, limit)
    BY <2>3, <2>5 DEF ChunksOf
  <2>7. QED BY <2>1, <2>2, <2>6
<1>8. QED BY <1>5, <1>6, <1>7

\* Chunks takes the requests of the batch from its head on.
LEMMA ChunksSteps ==
    ASSUME LengthsFit, NEW S, NEW limit
    PROVE  \E a : /\ a[0] = <<>>
                  /\ \A k \in 1 .. Len(batch) : a[k] = WithRequest(a[k - 1], k, S, limit)
                  /\ Chunks(S, limit) = a[Len(batch)]
<1> DEFINE n == Len(batch)
           A == Seq(SUBSET DOMAIN batch)
           base == <<>>
           step == [i \in 1 .. n |-> [acc \in A |-> WithRequest(acc, i, S, limit)]]
           Body(f) == [t \in SUBSET (1 .. n) |->
                         IF t = {} THEN base
                         ELSE WithRequest(f[t \ {Max(t)}], Max(t), S, limit)]
           iter == CHOOSE f : f = Body(f)
<1>1. n \in Nat /\ DOMAIN batch = 1 .. n
  BY BatchFacts
<1>2. Chunks(S, limit) = iter[1 .. n]
  <2>1. PICK q : q = [i \in DOMAIN batch |-> i]
    OBVIOUS
  <2>2. DOMAIN q = 1 .. n /\ \A i \in 1 .. n : q[i] = i
    BY <1>1, <2>1
  <2>3. \A t \in SUBSET (1 .. n) : t # {} => Max(t) \in 1 .. n
    <3>1. SUFFICES ASSUME NEW t \in SUBSET (1 .. n), t # {} PROVE Max(t) \in 1 .. n
      OBVIOUS
    <3>2. t \in SUBSET (0 .. n)
      BY <1>1
    <3>3. Max(t) \in t
      BY <1>1, <3>1, <3>2, MaxIsGreatest
    <3>4. QED BY <3>3
  <2> DEFINE Queued(f) == [t \in SUBSET (1 .. n) |->
                             IF t = {} THEN base
                             ELSE WithRequest(f[t \ {Max(t)}], q[Max(t)], S, limit)]
  <2>4. Chunks(S, limit) = (CHOOSE f : f = Queued(f))[1 .. n]
    BY <2>1, <2>2 DEF Chunks, FoldLeft, MapThenFoldSet, Max
  <2>5. ASSUME NEW f PROVE Queued(f) = Body(f)
    BY <2>2, <2>3
  <2> HIDE DEF Queued, Body
  <2>6. (CHOOSE f : f = Queued(f)) = (CHOOSE f : f = Body(f))
    BY <2>5
  <2>7. QED BY <2>4, <2>6
<1>3. base \in A
  OBVIOUS
<1>4. step \in [1 .. n -> [A -> A]]
  <2>1. ASSUME NEW i \in 1 .. n, NEW acc \in A PROVE WithRequest(acc, i, S, limit) \in A
    <3> DEFINE P == SUBSET DOMAIN batch
    <3>1. i \in DOMAIN batch /\ {i} \in P
      BY <1>1
    <3>2. Append(acc, {i}) \in A
      BY <3>1
    <3>3. acc # <<>> => Append(Front(acc), Last(acc) \cup {i}) \in A
      <4>1. SUFFICES ASSUME acc # <<>> PROVE Append(Front(acc), Last(acc) \cup {i}) \in A
        OBVIOUS
      <4>2. PICK m : m = Len(acc)
        OBVIOUS
      <4>3. m \in Nat \ {0} /\ DOMAIN acc = 1 .. m /\ Last(acc) = acc[m]
        BY <4>1, <4>2 DEF Last
      <4>4. \A c \in 1 .. m : acc[c] \in P
        BY <4>3, ElementOfSeq
      <4>5. Front(acc) \in Seq(P)
        <5>1. Front(acc) = SubSeq(acc, 1, m - 1)
          BY <4>2 DEF Front
        <5>2. \A c \in 1 .. m - 1 : acc[c] \in P
          BY <4>3, <4>4
        <5> HIDE DEF P
        <5>3. QED BY <4>3, <5>1, <5>2, SubSeqProperties DEF P
      <4>6. Last(acc) \cup {i} \in P
        BY <3>1, <4>3, <4>4
      <4>7. QED BY <4>5, <4>6
    <3>4. QED BY <3>2, <3>3 DEF WithRequest
  <2> HIDE DEF A
  <2>2. QED BY <2>1
<1> HIDE DEF A, base, n
<1>5. PICK f \in [SUBSET (1 .. n) -> A] : IsFold(f, base, step, n)
  <2> HIDE DEF step
  <2>1. QED BY <1>1, <1>3, <1>4, FoldExists
<1>6. ASSUME NEW t \in SUBSET (1 .. n), t # {} PROVE Max(t) \in 1 .. n
  <2>1. t \in SUBSET (0 .. n)
    BY <1>1
  <2>2. Max(t) \in t
    BY <1>1, <1>6, <2>1, MaxIsGreatest
  <2>3. QED BY <2>2
<1>7. f = Body(f)
  <2>1. ASSUME NEW t \in SUBSET (1 .. n), t # {}
        PROVE  f[t] = WithRequest(f[t \ {Max(t)}], Max(t), S, limit)
    <3>1. f[t \ {Max(t)}] \in A /\ f[t] = step[Max(t)][f[t \ {Max(t)}]]
      BY <1>5, <2>1 DEF IsFold
    <3>2. Max(t) \in 1 .. n
      BY <1>6, <2>1
    <3>3. PICK m, acc : m = Max(t) /\ acc = f[t \ {Max(t)}]
      OBVIOUS
    <3>4. f[t] = WithRequest(acc, m, S, limit)
      BY <3>1, <3>2, <3>3
    <3>5. QED BY <3>3, <3>4
  <2>2. f[{}] = base
    BY <1>5 DEF IsFold
  <2>3. QED BY <2>1, <2>2
<1>8. iter = Body(iter)
  BY <1>7
<1> HIDE DEF iter
<1>9. ASSUME NEW t \in SUBSET (1 .. n)
      PROVE  iter[t] = IF t = {} THEN base
                       ELSE WithRequest(iter[t \ {Max(t)}], Max(t), S, limit)
  BY <1>8
<1> DEFINE a == [k \in 0 .. n |-> iter[1 .. k]]
<1>10. a[0] = base
  <2>1. 1 .. 0 = {} /\ 0 \in 0 .. n
    BY <1>1
  <2>2. QED BY <1>9, <2>1
<1>11. ASSUME NEW k \in 1 .. n PROVE a[k] = WithRequest(a[k - 1], k, S, limit)
  <2>1. /\ 1 .. k \in SUBSET (1 .. n) /\ 1 .. k \in SUBSET (0 .. n) /\ k \in 1 .. k
        /\ (1 .. k) \ {k} = 1 .. k - 1
    BY <1>1
  <2>2. Max(1 .. k) = k
    <3>1. Max(1 .. k) \in 1 .. k /\ \A y \in 1 .. k : Max(1 .. k) >= y
      BY <1>1, <2>1, MaxIsGreatest
    <3>2. QED BY <3>1
  <2>3. a[k] = iter[1 .. k] /\ a[k - 1] = iter[1 .. k - 1]
    BY <1>1
  <2>4. QED BY <1>9, <2>1, <2>2, <2>3
<1>12. Chunks(S, limit) = a[n]
  BY <1>1, <1>2
<1> HIDE DEF a
<1>13. QED BY <1>10, <1>11, <1>12 DEF base, n

\* No chunk is empty, and the keys of each fit the buffer, if those of each request do.
LEMMA ChunksFit ==
    ASSUME LengthsFit, NEW S, NEW limit \in Nat, \A i \in DOMAIN batch : Lens[i] <= limit,
           NEW C \in ToSet(Chunks(S, limit))
    PROVE  /\ C \in SUBSET DOMAIN batch /\ C # {}
           /\ StartIn(C, Len(batch) + 1) \in Nat \ {0}
           /\ StartIn(C, Len(batch) + 1) <= limit
<1> DEFINE n == Len(batch)
<1>1. n \in Nat /\ DOMAIN batch = 1 .. n
  BY BatchFacts
<1>2. PICK a : /\ a[0] = <<>>
               /\ \A k \in 1 .. n : a[k] = WithRequest(a[k - 1], k, S, limit)
               /\ Chunks(S, limit) = a[n]
  BY ChunksSteps
<1> HIDE DEF n
<1> DEFINE Good(k) == ChunksOf(a[k], k, S, limit)
           Bad == {k \in 0 .. n : ~Good(k)}
<1>3. Good(0)
  BY <1>2 DEF ChunksOf
<1>4. ASSUME NEW k \in 1 .. n, Good(k - 1) PROVE Good(k)
  <2>1. PICK acc : acc = a[k - 1]
    OBVIOUS
  <2>2. k \in DOMAIN batch /\ ChunksOf(acc, k - 1, S, limit)
    BY <1>1, <1>4, <2>1
  <2>3. ChunksOf(WithRequest(acc, k, S, limit), k, S, limit)
    BY <2>2, WithRequestFits
  <2>4. a[k] = WithRequest(acc, k, S, limit)
    BY <1>2, <2>1
  <2>5. QED BY <2>3, <2>4
<1>5. Bad = {}
  <2>1. SUFFICES ASSUME Bad # {} PROVE FALSE
    OBVIOUS
  <2>2. Bad \in SUBSET Nat
    BY <1>1
  <2>3. PICK k \in Bad : \A m \in Bad : k <= m
    <3> HIDE DEF Bad
    <3>1. QED BY <2>1, <2>2, LeastNat
  <2>4. k \in 0 .. n /\ ~Good(k)
    OBVIOUS
  <2>5. k # 0
    BY <1>3, <2>4
  <2>6. k \in 1 .. n /\ k - 1 \in 0 .. n /\ ~(k <= k - 1)
    BY <1>1, <2>4, <2>5
  <2>7. Good(k - 1)
    <3>1. k - 1 \notin Bad
      <4> HIDE DEF Bad
      <4>1. QED BY <2>3, <2>6
    <3> HIDE DEF Good
    <3>2. QED BY <2>6, <3>1
  <2> HIDE DEF Good
  <2>8. QED BY <1>4, <2>4, <2>6, <2>7
<1>6. ChunksOf(a[n], n, S, limit)
  <2>1. n \in 0 .. n
    BY <1>1
  <2> HIDE DEF Good
  <2>2. Good(n)
    BY <1>5, <2>1
  <2>3. QED BY <2>2 DEF Good
<1>7. PICK acc : acc = a[n]
  OBVIOUS
<1>8. PICK c \in DOMAIN acc : C = acc[c]
  BY <1>2, <1>7 DEF ToSet
<1>9. C # {} /\ KeysOf(C) <= limit /\ C \in SUBSET DOMAIN batch
  <2>1. acc \in Seq(SUBSET DOMAIN batch) /\ acc[c] # {} /\ KeysOf(acc[c]) <= limit
    BY <1>6, <1>7, <1>8 DEF ChunksOf
  <2>2. acc[c] \in SUBSET DOMAIN batch
    BY <1>8, <2>1, ElementOfSeq
  <2>3. QED BY <1>8, <2>1, <2>2
<1>10. StartIn(C, n + 1) = KeysOf(C)
  <2>1. \A j \in C : j < n + 1
    BY <1>1, <1>9
  <2>2. QED BY <1>9, <2>1, StartInFacts
<1>11. KeysOf(C) \in Nat /\ KeysOf(C) > 0
  BY <1>9, KeysFacts
<1>12. QED BY <1>9, <1>10, <1>11 DEF n

\* Every part of a batch that is not empty has rows.
LEMMA PartsHaveRows ==
    ASSUME LengthsFit, RowsCover, NEW S \in SUBSET DOMAIN batch
    PROVE  /\ RowsOf(S) \in Seq(DOMAIN rows) /\ Len(RowsOf(S)) \in Nat
           /\ S # {} => Len(RowsOf(S)) # 0
<1>1. Len(rows) \in Nat /\ DOMAIN rows = 1 .. Len(rows)
  BY DEF RowsCover
<1>2. PICK q, some : q = [t \in DOMAIN rows |-> t] /\ some = {t \in DOMAIN rows : rows[t].i \in S}
  OBVIOUS
<1>3. q \in Seq(DOMAIN rows) /\ ToSet(q) = DOMAIN rows
  <2>1. q \in Seq(DOMAIN rows)
    BY <1>1, <1>2
  <2>2. DOMAIN q = DOMAIN rows /\ \A t \in DOMAIN rows : q[t] = t
    BY <1>2
  <2>3. QED BY <2>1, <2>2 DEF ToSet
<1>4. PICK o : o = RowsOf(S)
  OBVIOUS
<1>5. o \in Seq(DOMAIN rows) /\ ToSet(o) = DOMAIN rows \cap some
  BY <1>2, <1>3, <1>4, OnlyElements DEF RowsOf
<1>6. S # {} => Len(o) # 0
  <2>1. SUFFICES ASSUME S # {} PROVE Len(o) # 0
    OBVIOUS
  <2>2. PICK i \in S : TRUE
    BY <2>1
  <2>3. PICK t \in DOMAIN rows : rows[t].i = i
    BY <2>2 DEF RowsCover
  <2>4. t \in ToSet(o)
    BY <1>2, <1>5, <2>2, <2>3
  <2>5. PICK k \in DOMAIN o : o[k] = t
    BY <2>4 DEF ToSet
  <2>6. QED BY <1>5, <2>5
<1>7. QED BY <1>4, <1>5, <1>6

\* A slice has at most MAX_Q_CHUNK rows.
LEMMA SlicesAreShort ==
    ASSUME LengthsFit, RowsCover, NEW S \in SUBSET DOMAIN batch, MaxQChunk(S) \in Nat \ {0},
           NEW slice \in ToSet(Slices(S))
    PROVE  Len(slice) \in Nat /\ Len(slice) <= MaxQChunk(S)
<1>1. PICK ts, q, n : ts = RowsOf(S) /\ q = MaxQChunk(S) /\ n = Len(ts)
  OBVIOUS
<1>2. ts \in Seq(DOMAIN rows) /\ n \in Nat /\ q \in Nat \ {0} /\ DOMAIN ts = 1 .. n
  BY <1>1, PartsHaveRows
<1>3. PICK m : m = CeilDiv(n, q)
  OBVIOUS
<1>4. m \in Nat /\ \A c \in Nat : c < m => c * q < n
  BY <1>2, <1>3, CeilDivBounds
<1>5. PICK k \in 1 .. m : slice = SubSeq(ts, ((k - 1) * q) + 1, Min({k * q, n}))
  BY <1>1, <1>3 DEF Slices, ToSet
<1>6. PICK p, e : p = (k - 1) * q /\ e = k * q
  OBVIOUS
<1>7. p \in Nat /\ e = p + q /\ p < n
  <2>1. PICK c : c = k - 1
    OBVIOUS
  <2>2. c \in Nat /\ c < m /\ k = c + 1
    BY <1>4, <2>1
  <2>3. c * q < n /\ c * q \in Nat
    BY <1>2, <1>4, <2>2
  <2>4. (c + 1) * q = c * q + q
    BY <1>2, <2>2
  <2>5. QED BY <1>6, <2>1, <2>2, <2>3, <2>4
<1>8. PICK last : last = Min({e, n})
  OBVIOUS
<1>9. last \in Nat /\ last <= e /\ last <= n /\ p + 1 <= last
  <2>1. e \in Nat /\ n \in Nat
    BY <1>2, <1>7
  <2>2. last = IF e < n THEN e ELSE n
    BY <1>8, <2>1, MinOfTwo
  <2>3. QED BY <1>2, <1>7, <2>1, <2>2
<1>10. Len(slice) = last - p
  <2>1. slice = SubSeq(ts, p + 1, last)
    BY <1>5, <1>6, <1>8
  <2>2. \A j \in p + 1 .. last : ts[j] \in DOMAIN rows
    <3>1. \A j \in p + 1 .. last : j \in DOMAIN ts
      BY <1>2, <1>7, <1>9
    <3>2. QED BY <1>2, <3>1, ElementOfSeq
  <2>3. p + 1 \in Int /\ last \in Int /\ p + 1 <= last + 1
    BY <1>7, <1>9
  <2>4. Len(slice) = last - (p + 1) + 1
    BY <1>7, <1>9, <2>1, <2>2, <2>3, SubSeqProperties
  <2>5. QED BY <1>7, <1>9, <2>4
<1>11. QED BY <1>1, <1>2, <1>7, <1>9, <1>10

\* The indexer finds room for the logits of each slice.
LEMMA LogitsFit ==
    ASSUME LengthsFit, RowsCover,
           NEW S \in ToSet(Chunks(IndexPrefills, IndexBuffer)), NEW slice \in ToSet(Slices(S))
    PROVE  ViewFits(S, slice)
<1>1. S \in ToSet(Chunks(IndexPrefills, IndexBuffer)) /\ slice \in ToSet(Slices(S))
  OBVIOUS
<1>2. IndexBuffer \in Nat /\ \A i \in DOMAIN batch : Lens[i] <= IndexBuffer
  BY BatchFacts, BuffersAssumption
<1>3. PICK x, keys, q : /\ x = StartIn(S, Len(batch) + 1) /\ keys = AlignedKeys(S)
                        /\ q = MaxQChunk(S)
  OBVIOUS
<1>4. S \in SUBSET DOMAIN batch /\ x \in Nat \ {0} /\ x <= IndexBuffer
  BY <1>1, <1>2, <1>3, ChunksFit
<1>5. /\ keys = CeilDiv(x, Align) * Align
      /\ q = Max({1, ((LogitsCapacity \div keys) \div Align) * Align})
  BY <1>3 DEF AlignedKeys, MaxQChunk
<1>6. q \in Nat \ {0}
  BY <1>4, <1>5, RowsFit
<1>7. PICK n : n = Len(slice)
  OBVIOUS
<1>8. n \in Nat /\ n <= q
  BY <1>1, <1>3, <1>4, <1>6, <1>7, SlicesAreShort
<1>9. CeilDiv(n, Align) * Align * keys <= LogitsCapacity
  BY <1>4, <1>5, <1>8, RowsFit
<1>10. QED BY <1>3, <1>7, <1>9 DEF ViewFits

\* The indexer fails at most in a batch with a decode of several tokens.
LEMMA IndexerFits ==
    ASSUME LengthsFit, RowsCover, IndexerFails
    PROVE  \E i \in IndexDecodes : batch[i].n > 1
<1>1. IndexDecodes # {} /\ NextN # 1
  BY LogitsFit DEF IndexerFails, LongDecodes
<1>2. SUFFICES ASSUME \A i \in IndexDecodes : ~(batch[i].n > 1)
               PROVE  FALSE
  OBVIOUS
<1>3. IndexDecodes \subseteq DOMAIN batch
  BY DEF IndexDecodes, AtMost
<1>4. ASSUME NEW i \in IndexDecodes PROVE batch[i].n = 1
  <2>1. PICK n : n = batch[i].n
    OBVIOUS
  <2>2. n \in Nat \ {0} /\ ~(n > 1)
    BY <1>2, <1>3, <2>1, BatchFacts
  <2>3. QED BY <2>1, <2>2
<1>5. PICK T : T = {batch[i].n : i \in IndexDecodes}
  OBVIOUS
<1>6. T = {1}
  BY <1>1, <1>4, <1>5
<1>7. NextN = 1
  BY <1>5, <1>6, MaxOfOne DEF NextN
<1>8. QED BY <1>1, <1>7

\* No kernel of the attention refuses a call.
LEMMA CallsLaunch ==
    ASSUME LengthsFit, RowsCover, mode \in Modes, batch # <<>>, NEW n \in Calls,
           NEW c \in Configs(1, n, mode.heads)
    PROVE  Launches(1, mode.heads, TopK, c)
<1>1. Len(batch) \in Nat /\ DOMAIN batch = 1 .. Len(batch) /\ DOMAIN batch # {}
  <2>1. Len(batch) \in Nat /\ DOMAIN batch = 1 .. Len(batch)
    BY BatchFacts
  <2>2. batch \in Seq([req : Requests, n : Nat \ {0}, len : Nat])
    BY DEF LengthsFit
  <2>3. Len(batch) # 0
    BY <2>2
  <2>4. 1 \in 1 .. Len(batch)
    BY <2>1, <2>3
  <2>5. QED BY <2>1, <2>4
<1>2. n \in Nat \ {0}
  <2>1. mode.cache \in {"bf16", "mixed", "split"}
    BY ModesAssumption
  <2>2. CASE mode.cache = "bf16"
    <3>1. n = Len(rows)
      BY <2>2 DEF Calls
    <3>2. PICK i \in DOMAIN batch : TRUE
      BY <1>1
    <3>3. PICK t \in DOMAIN rows : rows[t].i = i
      BY DEF RowsCover
    <3>4. Len(rows) \in Nat /\ t \in 1 .. Len(rows)
      BY <3>3 DEF RowsCover
    <3>5. QED BY <3>1, <3>4
  <2>3. CASE mode.cache = "mixed"
    BY <2>3 DEF Calls
  <2>4. CASE mode.cache = "split"
    <3>1. PICK S \in ToSet(Chunks(Prefills, PrefillBuffer)) : n = Len(RowsOf(S))
      BY <2>4 DEF Calls
    <3>2. PrefillBuffer \in Nat /\ \A i \in DOMAIN batch : Lens[i] <= PrefillBuffer
      BY BatchFacts, BuffersAssumption
    <3>3. S \in SUBSET DOMAIN batch /\ S # {}
      BY <3>1, <3>2, ChunksFit
    <3>4. QED BY <3>1, <3>3, PartsHaveRows
  <2>5. QED BY <2>1, <2>2, <2>3, <2>4
<1>3. /\ mode.heads \in Nat \ {0}
      /\ mode.heads > MaxBlockM(mode.heads) => mode.heads % MaxBlockM(mode.heads) = 0
  BY ModesAssumption
<1>4. PICK k \in 1 .. TopK : TopK = 32 * k * BlockI
  BY ModesAssumption
<1>5. k \in Nat
  OBVIOUS
<1>6. Launches(1, mode.heads, 32 * k * BlockI, c)
  BY <1>2, <1>3, <1>5, SingleBatchLaunches
<1>7. QED BY <1>4, <1>6

--------------------------------------------------------------------------------
(* The steps *)

Entries == [req : Requests, n : Nat \ {0}, len : Nat]

\* A request of the step has at least a token, and not more than it may have.
LEMMA SharesFit ==
    ASSUME ContextsFit, NEW r \in Live, NEW n \in Shares(r)
    PROVE  /\ r \in Requests /\ n \in Nat \ {0} /\ ctx[r] \in Nat
           /\ ctx[r] + n \in Nat /\ n <= ctx[r] + n /\ ctx[r] + n <= MaxLen[r]
<1>1. PICK c, p, m : c = ctx[r] /\ p = Prompt[r] /\ m = MaxLen[r]
  OBVIOUS
<1>2. r \in Requests /\ c \in Int /\ c >= 0 /\ c \in -1 .. m - 1
  BY <1>1 DEF ContextsFit, Live
<1>3. m \in Nat \ {0} /\ p \in 0 .. m /\ ChunkSizes \subseteq Nat \ {0} /\ Drafts \in Nat
  BY <1>1, <1>2, RequestsAssumption
<1>4. c \in Nat /\ c < m
  BY <1>2, <1>3
<1>5. CASE c < p
  <2>1. n \in ChunkSizes \cup {p - c} /\ n <= p - c
    BY <1>1, <1>5 DEF Shares
  <2>2. n \in Nat \ {0}
    BY <1>3, <1>4, <1>5, <2>1
  <2>3. c + n <= m
    BY <1>3, <1>4, <2>1, <2>2
  <2>4. QED BY <1>1, <1>2, <1>4, <2>2, <2>3
<1>6. CASE ~(c < p)
  <2>1. PICK a, b : a = 1 + Drafts /\ b = m - c
    OBVIOUS
  <2>2. a \in Nat \ {0} /\ b \in Nat \ {0}
    BY <1>3, <1>4, <2>1
  <2>3. n = Min({a, b})
    BY <1>1, <1>6, <2>1 DEF Shares
  <2>4. n = IF a < b THEN a ELSE b
    BY <2>2, <2>3, MinOfTwo
  <2>5. n \in Nat \ {0} /\ c + n <= m
    BY <1>3, <1>4, <2>1, <2>2, <2>4
  <2>6. QED BY <1>1, <1>2, <1>4, <2>5
<1>7. QED BY <1>5, <1>6

LEMMA ScheduledFits ==
    ASSUME ContextsFit, NEW S \in SUBSET Live, NEW share, DOMAIN share = S,
           \A r \in S : share[r] \in Shares(r)
    PROVE  /\ Scheduled(share) \in Seq(Entries)
           /\ \A i \in DOMAIN Scheduled(share) :
                 LET e == Scheduled(share)[i]
                 IN  /\ e.len = ctx[e.req] + e.n
                     /\ e.n <= e.len /\ e.len <= MaxLen[e.req]
<1>1. PICK few, a, b, o : /\ few = {r \in DOMAIN share : share[r] <= mode.threshold}
                          /\ a = Only(Order, few) /\ b = Only(Order, DOMAIN share \ few)
                          /\ o = a \o b
  OBVIOUS
<1>2. /\ a \in Seq(Requests) /\ ToSet(a) = ToSet(Order) \cap few
      /\ b \in Seq(Requests) /\ ToSet(b) = ToSet(Order) \cap (DOMAIN share \ few)
  BY <1>1, RequestsAssumption, OnlyElements
<1>3. o \in Seq(Requests) /\ ToSet(o) = ToSet(a) \cup ToSet(b)
  <2>1. a \in Seq(Requests) /\ b \in Seq(Requests)
    BY <1>2
  <2>2. a \o b \in Seq(Requests) /\ ToSet(a \o b) = ToSet(a) \cup ToSet(b)
    BY ONLY <2>1, ConcatElements
  <2>3. QED BY <1>1, <2>2
<1>4. ASSUME NEW i \in DOMAIN o PROVE o[i] \in S
  <2>1. o[i] \in ToSet(o)
    BY DEF ToSet
  <2>2. QED BY <1>1, <1>2, <1>3, <2>1
<1>5. PICK z : z = Scheduled(share)
  OBVIOUS
<1>6. z = [i \in DOMAIN o |-> [req |-> o[i], n |-> share[o[i]], len |-> ctx[o[i]] + share[o[i]]]]
  BY <1>1, <1>5 DEF Scheduled
<1>7. ASSUME NEW i \in DOMAIN o
      PROVE  /\ z[i] \in Entries /\ z[i].len = ctx[z[i].req] + z[i].n
             /\ z[i].n <= z[i].len /\ z[i].len <= MaxLen[z[i].req]
  <2>1. PICK r, n : r = o[i] /\ n = share[r]
    OBVIOUS
  <2>2. r \in Live /\ n \in Shares(r)
    BY <1>4, <2>1
  <2>3. z[i] = [req |-> r, n |-> n, len |-> ctx[r] + n]
    BY <1>6, <2>1
  <2>4. /\ r \in Requests /\ n \in Nat \ {0} /\ ctx[r] + n \in Nat
        /\ n <= ctx[r] + n /\ ctx[r] + n <= MaxLen[r]
    BY <2>2, SharesFit
  <2>5. z[i] \in Entries
    BY <2>3, <2>4 DEF Entries
  <2>6. QED BY <2>3, <2>4, <2>5
<1>8. DOMAIN z = DOMAIN o /\ Len(o) \in Nat /\ DOMAIN o = 1 .. Len(o)
  BY <1>3, <1>6
<1>9. z \in Seq(Entries)
  <2>1. z \in [1 .. Len(o) -> Entries]
    BY <1>6, <1>7, <1>8
  <2>2. QED BY <1>8, <2>1
<1>10. QED BY <1>5, <1>7, <1>8, <1>9

\* RowsOfBatch has a row for each request of the batch.
LEMMA RowsOfBatchCover ==
    ASSUME NEW b \in Seq(Entries), NEW blocks
    PROVE  /\ Len(RowsOfBatch(b, blocks)) \in Nat
           /\ DOMAIN RowsOfBatch(b, blocks) = 1 .. Len(RowsOfBatch(b, blocks))
           /\ \A i \in DOMAIN b : \E t \in DOMAIN RowsOfBatch(b, blocks) :
                 RowsOfBatch(b, blocks)[t].i = i
<1> DEFINE row(i, k) == LET pos == b[i].len - b[i].n + k - 1
                        IN  [i |-> i, pos |-> pos, slot |-> SlotIn(blocks[b[i].req], pos)]
<1>1. PICK seqs : seqs = [i \in DOMAIN b |-> [k \in 1 .. b[i].n |-> row(i, k)]]
  OBVIOUS
<1>2. Len(b) \in Nat /\ DOMAIN b = 1 .. Len(b) /\ \A i \in DOMAIN b : b[i].n \in Nat \ {0}
  <2>1. \A i \in DOMAIN b : b[i] \in Entries
    BY ElementOfSeq
  <2>2. QED BY <2>1 DEF Entries
<1>3. PICK X : X = UNION {{seqs[i][k] : k \in DOMAIN seqs[i]} : i \in DOMAIN b}
  OBVIOUS
<1>4. ASSUME NEW i \in DOMAIN b
      PROVE  /\ seqs[i] \in Seq(X) /\ 1 \in DOMAIN seqs[i] /\ seqs[i][1].i = i
  <2>1. PICK n : n = b[i].n
    OBVIOUS
  <2>2. n \in Nat \ {0} /\ seqs[i] = [k \in 1 .. n |-> row(i, k)]
    BY <1>1, <1>2, <2>1
  <2>3. DOMAIN seqs[i] = 1 .. n /\ \A k \in 1 .. n : seqs[i][k] = row(i, k)
    BY <2>2
  <2>4. ASSUME NEW k \in 1 .. n PROVE seqs[i][k] \in X
    <3>1. PICK Y : Y = {seqs[i][j] : j \in DOMAIN seqs[i]}
      OBVIOUS
    <3>2. seqs[i][k] \in Y
      BY <2>3, <3>1
    <3>3. Y \subseteq X
      BY <1>3, <3>1
    <3>4. QED BY <3>2, <3>3
  <2> HIDE DEF row
  <2>5. seqs[i] \in Seq(X)
    <3>1. seqs[i] \in [1 .. n -> X]
      BY <2>2, <2>3, <2>4
    <3>2. QED BY <2>2, <3>1
  <2>6. 1 \in 1 .. n
    BY <2>2
  <2>7. row(i, 1).i = i
    BY DEF row
  <2>8. QED BY <2>3, <2>5, <2>6, <2>7
<1>5. seqs \in Seq(Seq(X)) /\ DOMAIN seqs = DOMAIN b
  <2>1. seqs \in [1 .. Len(b) -> Seq(X)]
    <3> HIDE DEF row
    <3>1. DOMAIN seqs = 1 .. Len(b) /\ seqs = [i \in 1 .. Len(b) |-> seqs[i]]
      BY <1>1, <1>2
    <3>2. QED BY <1>2, <1>4, <3>1
  <2>2. QED BY <1>2, <2>1
<1>6. PICK z : z = FlattenSeq(seqs)
  OBVIOUS
<1>7. RowsOfBatch(b, blocks) = z
  BY <1>1, <1>6 DEF RowsOfBatch
<1> HIDE DEF row
<1>8. z \in Seq(X)
  BY <1>5, <1>6, FlattenSeqElements
<1>9. ASSUME NEW i \in DOMAIN b PROVE \E t \in DOMAIN z : z[t].i = i
  <2>1. \E t \in DOMAIN z : z[t] = seqs[i][1]
    BY <1>4, <1>5, <1>6, FlattenSeqElements
  <2>2. QED BY <1>4, <2>1
<1>10. QED BY <1>7, <1>8, <1>9

LEMMA BeginStepFits ==
    ASSUME ForwardInv, BeginStep
    PROVE  ForwardInv'
<1>1. mode' = mode /\ ctx' = ctx /\ failed' = failed /\ ~failed
  BY DEF BeginStep
<1>2. PICK S, share, b, grown : /\ S \in SUBSET Live /\ DOMAIN share = S
                                /\ \A r \in S : share[r] \in Shares(r)
                                /\ b = Scheduled(share) /\ batch' = b
                                /\ rows' = RowsOfBatch(b, grown)
  BY DEF BeginStep
<1>3. ContextsFit
  BY DEF ForwardInv
<1>4. /\ b \in Seq(Entries)
      /\ \A i \in DOMAIN b : /\ b[i].len = ctx[b[i].req] + b[i].n
                             /\ b[i].n <= b[i].len /\ b[i].len <= MaxLen[b[i].req]
  BY <1>2, <1>3, ScheduledFits
<1>5. LengthsFit'
  BY <1>1, <1>2, <1>4 DEF LengthsFit, Entries
<1>6. PICK z : z = RowsOfBatch(b, grown)
  OBVIOUS
<1>7. /\ Len(z) \in Nat /\ DOMAIN z = 1 .. Len(z)
      /\ \A i \in DOMAIN b : \E t \in DOMAIN z : z[t].i = i
  BY <1>4, <1>6, RowsOfBatchCover
<1>8. RowsCover'
  BY <1>2, <1>6, <1>7 DEF RowsCover
<1>9. mode' \in Modes /\ OnlyLongDecodesFail' /\ ContextsFit'
  BY <1>1, <1>3 DEF ForwardInv, OnlyLongDecodesFail, ContextsFit
<1>10. QED BY <1>5, <1>8, <1>9 DEF ForwardInv

LEMMA RunLayerFits ==
    ASSUME ForwardInv, RunLayer
    PROVE  ForwardInv'
<1>1. mode' = mode /\ ctx' = ctx /\ batch' = batch /\ rows' = rows /\ batch # <<>>
  BY DEF RunLayer
<1>2. mode \in Modes /\ LengthsFit /\ RowsCover /\ ContextsFit
  BY DEF ForwardInv
<1>3. PICK pick : /\ \A n \in Calls : pick[n] \in Configs(1, n, mode.heads)
                  /\ failed' = \/ layer \in FullLayers /\ IndexerFails
                               \/ \E n \in Calls : ~Launches(1, mode.heads, TopK, pick[n])
  BY DEF RunLayer
<1>4. IndexerFails => \E i \in IndexDecodes : batch[i].n > 1
  BY <1>2, IndexerFits
<1>5. ASSUME NEW n \in Calls PROVE Launches(1, mode.heads, TopK, pick[n])
  <2>1. PICK c : c = pick[n]
    OBVIOUS
  <2>2. c \in Configs(1, n, mode.heads)
    BY <1>3, <2>1
  <2>3. Launches(1, mode.heads, TopK, c)
    BY <1>1, <1>2, <2>2, CallsLaunch
  <2>4. QED BY <2>1, <2>3
<1>6. OnlyLongDecodesFail'
  <2>1. failed' => \E i \in IndexDecodes : batch[i].n > 1
    BY <1>3, <1>4, <1>5
  <2>2. IndexDecodes' = IndexDecodes
    BY <1>1 DEF IndexDecodes, AtMost
  <2>3. QED BY <1>1, <2>1, <2>2 DEF OnlyLongDecodesFail
<1>7. LengthsFit' /\ RowsCover' /\ ContextsFit' /\ mode' \in Modes
  BY <1>1, <1>2 DEF LengthsFit, RowsCover, ContextsFit
<1>8. QED BY <1>6, <1>7 DEF ForwardInv

LEMMA NoBatchFits ==
    ASSUME batch' = <<>>, rows' = <<>>
    PROVE  LengthsFit' /\ RowsCover'
<1>1. batch' \in Seq([req : Requests, n : Nat \ {0}, len : Nat]) /\ DOMAIN batch' = {}
  OBVIOUS
<1>2. Len(rows') = 0 /\ DOMAIN rows' = {} /\ 1 .. 0 = {}
  OBVIOUS
<1>3. QED BY <1>1, <1>2 DEF LengthsFit, RowsCover

LEMMA EndStepFits ==
    ASSUME ForwardInv, EndStep
    PROVE  ForwardInv'
<1>1. mode' = mode /\ failed' = failed /\ batch' = <<>> /\ rows' = <<>> /\ ~failed
  BY DEF EndStep
<1>2. LengthsFit /\ ContextsFit /\ mode \in Modes
  BY DEF ForwardInv
<1> DEFINE after(kept, r) == LET i == CHOOSE j \in DOMAIN batch : batch[j].req = r
                             IN  ctx[r] + kept[i]
           ran == {batch[i].req : i \in DOMAIN batch}
           done(kept) == {r \in ran : after(kept, r) = MaxLen[r]}
<1>3. PICK kept : /\ \A i \in DOMAIN batch : kept[i] \in Kept(i)
                  /\ ctx' = [r \in Requests |-> IF r \in done(kept) THEN -1
                                                ELSE IF r \in ran THEN after(kept, r) ELSE ctx[r]]
  BY DEF EndStep
<1>4. ASSUME NEW r \in ran
      PROVE  after(kept, r) \in Nat /\ after(kept, r) <= MaxLen[r]
  <2>1. PICK i : i = CHOOSE j \in DOMAIN batch : batch[j].req = r
    OBVIOUS
  <2>2. i \in DOMAIN batch /\ batch[i].req = r
    BY <2>1
  <2>3. PICK c, n, k, m : c = ctx[r] /\ n = batch[i].n /\ k = kept[i] /\ m = MaxLen[r]
    OBVIOUS
  <2>4. n \in Nat \ {0} /\ r \in Requests
    BY <1>2, <2>2, <2>3, BatchFacts
  <2>5. c \in Int /\ n <= c + n /\ c + n <= m
    BY <1>2, <2>2, <2>3, <2>4 DEF LengthsFit, ContextsFit
  <2>6. m \in Nat
    BY <2>3, <2>4, RequestsAssumption
  <2>7. k \in 1 .. n
    <3>1. k \in {n} \/ k \in 1 .. n
      BY <1>3, <2>2, <2>3 DEF Kept
    <3>2. QED BY <2>4, <3>1
  <2>8. c + k \in Nat /\ c + k <= m
    BY <2>4, <2>5, <2>6, <2>7
  <2>9. QED BY <2>1, <2>3, <2>8
<1>5. ASSUME NEW r \in Requests PROVE ctx'[r] \in Int /\ ctx'[r] \in -1 .. MaxLen[r] - 1
  <2>1. MaxLen[r] \in Nat \ {0}
    BY RequestsAssumption
  <2> HIDE DEF after, ran
  <2>2. CASE r \in done(kept)
    BY <1>3, <2>1, <2>2
  <2>3. CASE r \in ran /\ r \notin done(kept)
    <3>1. PICK a : a = after(kept, r)
      OBVIOUS
    <3>2. ctx'[r] = a /\ a \in Nat /\ a <= MaxLen[r] /\ a # MaxLen[r]
      BY <1>3, <1>4, <2>3, <3>1
    <3>3. QED BY <2>1, <3>2
  <2>4. CASE r \notin ran
    <3>1. ctx'[r] = ctx[r]
      BY <1>3, <2>4
    <3>2. QED BY <1>2, <3>1 DEF ContextsFit
  <2>5. QED BY <2>2, <2>3, <2>4
<1>6. ContextsFit'
  <2>1. DOMAIN ctx' = Requests /\ ctx' = [r \in Requests |-> ctx'[r]]
    BY <1>3
  <2>2. QED BY <1>5, <2>1 DEF ContextsFit
<1>7. LengthsFit' /\ RowsCover'
  BY <1>1, NoBatchFits
<1>8. QED BY <1>1, <1>2, <1>6, <1>7 DEF ForwardInv, OnlyLongDecodesFail

LEMMA PreemptFits ==
    ASSUME ForwardInv, NEW r \in Requests, Preempt(r)
    PROVE  ForwardInv'
<1>1. /\ mode' = mode /\ failed' = failed /\ batch' = batch /\ rows' = rows /\ batch = <<>>
      /\ ctx' = [ctx EXCEPT ![r] = -1] /\ ~failed
  BY DEF Preempt
<1>2. LengthsFit /\ RowsCover /\ ContextsFit /\ mode \in Modes
  BY DEF ForwardInv
<1>3. ContextsFit'
  <2>1. ASSUME NEW q \in Requests PROVE ctx'[q] \in Int /\ ctx'[q] \in -1 .. MaxLen[q] - 1
    <3>1. MaxLen[q] \in Nat \ {0}
      BY RequestsAssumption
    <3>2. ctx'[q] = -1 \/ ctx'[q] = ctx[q]
      BY <1>1, <1>2 DEF ContextsFit
    <3>3. QED BY <1>2, <3>1, <3>2 DEF ContextsFit
  <2>2. ctx' = [q \in Requests |-> ctx'[q]]
    BY <1>1, <1>2 DEF ContextsFit
  <2>3. QED BY <2>1, <2>2 DEF ContextsFit
<1>4. LengthsFit' /\ RowsCover'
  <2>1. DOMAIN batch = {}
    BY <1>1
  <2>2. QED BY <1>1, <1>2, <2>1 DEF LengthsFit, RowsCover
<1>5. QED BY <1>1, <1>2, <1>3, <1>4 DEF ForwardInv, OnlyLongDecodesFail

\* In every forward of every run the contexts fit the model, each request of a batch has
\* its rows and the lengths it may have, and nothing has failed but a decode of several
\* tokens in the indexer.
THEOREM ForwardInvariant == Spec => []ForwardInv
<1>1. Init => ForwardInv
  <2>1. SUFFICES ASSUME Init PROVE ForwardInv
    OBVIOUS
  <2>2. mode \in Modes /\ OnlyLongDecodesFail
    BY <2>1 DEF Init, OnlyLongDecodesFail
  <2>3. ContextsFit
    <3>1. \A r \in Requests : MaxLen[r] \in Nat \ {0}
      BY RequestsAssumption
    <3>2. \A r \in Requests : 0 \in -1 .. MaxLen[r] - 1
      BY <3>1
    <3>3. ctx = [r \in Requests |-> 0]
      BY <2>1 DEF Init
    <3>4. QED BY <3>2, <3>3 DEF ContextsFit
  <2>4. batch = <<>> /\ rows = <<>>
    BY <2>1 DEF Init
  <2>5. LengthsFit
    <3>1. batch \in Seq([req : Requests, n : Nat \ {0}, len : Nat]) /\ DOMAIN batch = {}
      BY <2>4
    <3>2. QED BY <3>1 DEF LengthsFit
  <2>6. RowsCover
    <3>1. Len(rows) = 0 /\ DOMAIN rows = {} /\ 1 .. 0 = {} /\ DOMAIN batch = {}
      BY <2>4
    <3>2. QED BY <3>1 DEF RowsCover
  <2>7. QED BY <2>2, <2>3, <2>5, <2>6 DEF ForwardInv
<1>2. ForwardInv /\ [Next]_vars => ForwardInv'
  <2>1. SUFFICES ASSUME ForwardInv, [Next]_vars PROVE ForwardInv'
    OBVIOUS
  <2>2. CASE BeginStep
    BY <2>1, <2>2, BeginStepFits
  <2>3. CASE RunLayer
    BY <2>1, <2>3, RunLayerFits
  <2>4. CASE EndStep
    BY <2>1, <2>4, EndStepFits
  <2>5. CASE \E r \in Requests : Preempt(r)
    BY <2>1, <2>5, PreemptFits
  <2>6. CASE UNCHANGED vars
    BY <2>1, <2>6
       DEF vars, ForwardInv, OnlyLongDecodesFail, IndexDecodes, AtMost, ContextsFit,
           LengthsFit, RowsCover
  <2>7. QED BY <2>1, <2>2, <2>3, <2>4, <2>5, <2>6 DEF Next
<1>3. QED BY <1>1, <1>2, PTL DEF Spec

\* On every device, for every choice of a split, every division of a batch into chunks
\* and slices, every mode of the cache and every threshold of the indexer's builder, the
\* one assertion a forward can meet is that of the indexer's decode kernel, page_mqa_logits,
\* for a request with several tokens.
THEOREM OnlyLongDecodesMayFail == Spec => []OnlyLongDecodesFail
<1>1. ForwardInv => OnlyLongDecodesFail
  BY DEF ForwardInv
<1>2. QED BY <1>1, ForwardInvariant, PTL

\* Where the builder takes single tokens for decodes only, so that verifications of drafts
\* go through the prefill branch of the indexer, no forward fails.
THEOREM SingleDecodesNeverFail ==
    ASSUME \A m \in Modes : m.threshold = 1
    PROVE  Spec => []NothingFails
<1>1. ForwardInv => NothingFails
  <2>1. SUFFICES ASSUME ForwardInv, failed PROVE FALSE
    BY DEF NothingFails
  <2>2. PICK i \in IndexDecodes : batch[i].n > 1
    BY <2>1 DEF ForwardInv, OnlyLongDecodesFail
  <2>3. mode.threshold = 1
    BY <2>1 DEF ForwardInv
  <2>4. LengthsFit
    BY <2>1 DEF ForwardInv
  <2>5. i \in DOMAIN batch /\ \A j \in 1 .. i : batch[j].n <= 1
    BY <2>3 DEF IndexDecodes, AtMost
  <2>6. i \in 1 .. i /\ batch[i].n \in Nat
    BY <2>4, <2>5, BatchFacts
  <2>7. PICK n : n = batch[i].n
    OBVIOUS
  <2>8. n > 1 /\ n <= 1 /\ n \in Nat
    BY <2>2, <2>5, <2>6, <2>7
  <2>9. QED BY <2>8
<1>2. QED BY <1>1, ForwardInvariant, PTL
================================================================================
