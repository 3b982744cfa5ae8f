--------------------------- MODULE ModelRunnerProofs ---------------------------
(***************************************************************************)
(* Theorems about ModelRunner, for every deployment: the worker's copies   *)
(* of the counts and block tables follow the scheduler's, a replayed graph *)
(* was captured and fits its buffer, and the rows that pad a draft step    *)
(* are inert.  They rest on RunnerInv.  Where prefills are whole for a     *)
(* runner that drafts, the tokens the model is run on are the request's    *)
(* own: TokenInv, on top of RunnerInv.  With a speculator the draft's      *)
(* cache has the entries of all that is counted: DraftInv, on top of       *)
(* RunnerInv.                                                              *)
(***************************************************************************)
EXTENDS ModelRunner, RequestQueueLemmas, FiniteSetTheorems, TLAPS

--------------------------------------------------------------------------------
(* Sequences of anything *)

LEMMA IsSeqFacts ==
    ASSUME NEW s, IsSeq(s)
    PROVE  /\ Len(s) \in Nat /\ DOMAIN s = 1 .. Len(s) /\ s \in Seq(Range(s))
           /\ s = <<>> <=> Len(s) = 0
BY DEF IsSeq

LEMMA SeqIsSeq ==
    ASSUME NEW S, NEW s \in Seq(S)
    PROVE  IsSeq(s)
<1>1. Len(s) \in Nat /\ s \in [1 .. Len(s) -> S]
  OBVIOUS
<1>2. s \in [1 .. Len(s) -> Range(s)]
  BY <1>1 DEF Range
<1>3. QED BY <1>1, <1>2 DEF IsSeq

LEMMA FunctionIsSeq ==
    ASSUME NEW n \in Nat, NEW S, NEW s \in [1 .. n -> S]
    PROVE  IsSeq(s) /\ Len(s) = n /\ (s = <<>> <=> n = 0)
<1>1. s \in Seq(S) /\ Len(s) = n
  OBVIOUS
<1>2. IsSeq(s)
  BY <1>1, SeqIsSeq
<1>3. QED BY <1>1, <1>2

LEMMA AppendIsSeq ==
    ASSUME NEW s, IsSeq(s), NEW e
    PROVE  /\ IsSeq(Append(s, e)) /\ Len(Append(s, e)) = Len(s) + 1
           /\ \A i \in 1 .. Len(s) : Append(s, e)[i] = s[i]
           /\ Append(s, e)[Len(s) + 1] = e
           /\ s = <<>> => Head(Append(s, e)) = e
           /\ s # <<>> => Head(Append(s, e)) = Head(s)
<1> DEFINE S == Range(s) \cup {e}
           t == Append(s, e)
<1>1. s \in Seq(S) /\ e \in S
  BY DEF IsSeq
<1> HIDE DEF S
<1>2. /\ t \in Seq(S) /\ Len(t) = Len(s) + 1
      /\ \A i \in 1 .. Len(s) : t[i] = s[i]
      /\ t[Len(s) + 1] = e
  BY <1>1
<1>3. IsSeq(t)
  BY <1>2, SeqIsSeq
<1>4. (s = <<>> => Head(t) = e) /\ (s # <<>> => Head(t) = Head(s))
  BY <1>1
<1>5. QED BY <1>2, <1>3, <1>4

LEMMA TailIsSeq ==
    ASSUME NEW s, IsSeq(s), s # <<>>
    PROVE  /\ IsSeq(Tail(s)) /\ Len(Tail(s)) = Len(s) - 1
           /\ \A i \in 1 .. Len(s) - 1 : Tail(s)[i] = s[i + 1]
           /\ Head(s) = s[1] /\ 1 \in DOMAIN s
<1> DEFINE S == Range(s)
<1>1. s \in Seq(S)
  BY DEF IsSeq
<1> HIDE DEF S
<1>2. /\ Tail(s) \in Seq(S) /\ Len(Tail(s)) = Len(s) - 1
      /\ \A i \in 1 .. Len(s) - 1 : Tail(s)[i] = s[i + 1]
      /\ Head(s) = s[1] /\ 1 \in DOMAIN s
  BY <1>1
<1>3. QED BY <1>2, SeqIsSeq

LEMMA ConcatIsSeq ==
    ASSUME NEW s, IsSeq(s), NEW t, IsSeq(t)
    PROVE  IsSeq(s \o t) /\ <<>> \o t = t
<1> DEFINE S == Range(s) \cup Range(t)
<1>1. s \in Seq(S) /\ t \in Seq(S)
  BY DEF IsSeq
<1> HIDE DEF S
<1>2. s \o t \in Seq(S) /\ <<>> \o t = t
  BY <1>1
<1>3. QED BY <1>2, SeqIsSeq

--------------------------------------------------------------------------------
(* Sets in an order *)

\* A finite set as a sequence: each member has one place.
LEMMA SetToSeqFacts ==
    ASSUME NEW S, IsFiniteSet(S)
    PROVE  LET q == SetToSeq(S)
           IN  /\ q \in [1 .. Cardinality(S) -> S] /\ Cardinality(S) \in Nat
               /\ \A i, j \in 1 .. Cardinality(S) : q[i] = q[j] => i = j
               /\ \A x \in S : \E i \in 1 .. Cardinality(S) : q[i] = x
<1> DEFINE n == Cardinality(S)
           q == SetToSeq(S)
<1>1. n \in Nat /\ ExistsBijection(1 .. n, S)
  BY FS_CardinalityType
<1>2. \E f \in [1 .. n -> S] : IsInjective(f)
  BY <1>1 DEF ExistsBijection, Bijection, Injection
<1>3. q \in [1 .. n -> S] /\ IsInjective(q)
  BY <1>2 DEF SetToSeq
<1> HIDE DEF q, n
<1>4. q \in Surjection(1 .. n, S)
  <2>1. q \in Injection(1 .. n, S)
    BY <1>3 DEF Injection
  <2>2. IsFiniteSet(1 .. n) /\ Cardinality(1 .. n) = n
    <3>1. Cardinality(1 .. n) = IF 1 > n THEN 0 ELSE n - 1 + 1
      BY <1>1, FS_Interval
    <3>2. QED BY <1>1, <3>1, FS_Interval
  <2>3. QED BY <2>1, <2>2, FS_Injection DEF n
<1>5. QED BY <1>1, <1>3, <1>4 DEF Surjection, IsInjective, n, q

\* A finite set can be sorted.
Sorted(f, num) ==
    IsInjective(f) /\ \A i, j \in DOMAIN f : i < j => num[f[i]] <= num[f[j]]

LEMMA SortedOrder ==
    ASSUME NEW S, IsFiniteSet(S), NEW num, \A x \in S : num[x] \in Nat
    PROVE  \E f \in [1 .. Cardinality(S) -> S] : Sorted(f, num)
<1> DEFINE Good(T) == \E f \in [1 .. Cardinality(T) -> T] : Sorted(f, num)
           Bad == {m \in Nat : \E T \in SUBSET S : Cardinality(T) = m /\ ~Good(T)}
<1>1. SUFFICES ASSUME ~Good(S) PROVE FALSE
  OBVIOUS
<1>2. \A T \in SUBSET S : IsFiniteSet(T) /\ Cardinality(T) \in Nat
  BY FS_Subset, FS_CardinalityType
<1>3. PICK m \in Bad : \A k \in Bad : m <= k
  <2>1. S \in SUBSET S /\ Cardinality(S) \in Nat
    BY <1>2
  <2>2. Cardinality(S) \in Bad
    <3> HIDE DEF Good
    <3>1. QED BY <1>1, <2>1
  <2>3. Bad \in SUBSET Nat
    OBVIOUS
  <2> HIDE DEF Bad
  <2>4. QED BY <2>2, <2>3, LeastNat
<1>4. PICK T \in SUBSET S : Cardinality(T) = m /\ ~Good(T)
  <2> HIDE DEF Good
  <2>1. QED BY <1>3
<1>5. T # {}
  <2> SUFFICES ASSUME T = {} PROVE Good(T)
    BY <1>4
  <2>1. 1 .. Cardinality(T) = {}
    BY FS_EmptySet
  <2>2. [i \in {} |-> i] \in [{} -> T]
    OBVIOUS
  <2>3. Sorted([i \in {} |-> i], num)
    BY DEF Sorted, IsInjective
  <2>4. QED BY <2>1, <2>2, <2>3
<1>6. PICK x \in T : \A y \in T : num[x] <= num[y]
  <2> DEFINE V == {num[y] : y \in T}
  <2>1. V \in SUBSET Nat /\ V # {}
    BY <1>5
  <2>2. \E v \in V : \A w \in V : v <= w
    <3> HIDE DEF V
    <3>1. QED BY <2>1, LeastNat
  <2>3. QED BY <2>2
<1> DEFINE U == T \ {x}
<1>7. U \in SUBSET S /\ Cardinality(U) = m - 1 /\ m - 1 \in Nat
  <2>1. Cardinality(U) = m - 1
    BY <1>2, <1>4, FS_RemoveElement
  <2>2. Cardinality(U) \in Nat
    BY <1>2
  <2>3. QED BY <2>1, <2>2
<1>8. Good(U)
  <2> SUFFICES ASSUME ~Good(U) PROVE FALSE
    OBVIOUS
  <2>1. m - 1 \in Bad
    <3> HIDE DEF Good, U
    <3>1. QED BY <1>7
  <2>2. QED BY <1>3, <1>7, <2>1
<1>9. PICK f \in [1 .. m - 1 -> U] : Sorted(f, num)
  BY <1>7, <1>8
<1> DEFINE g == [i \in 1 .. m |-> IF i = 1 THEN x ELSE f[i - 1]]
<1>10. \A i \in 1 .. m : i = 1 \/ i - 1 \in 1 .. m - 1
  BY <1>3
<1>11. g \in [1 .. m -> T] /\ \A i \in 1 .. m : i # 1 => g[i] = f[i - 1] /\ g[i] \in U
  BY <1>9, <1>10
<1>12. 1 \in 1 .. m => g[1] = x
  OBVIOUS
<1> HIDE DEF g
<1>13. \A i, j \in 1 .. m : g[i] = g[j] => i = j
  <2> SUFFICES ASSUME NEW i \in 1 .. m, NEW j \in 1 .. m, g[i] = g[j] PROVE i = j
    OBVIOUS
  <2>1. CASE i = 1 \/ j = 1
    <3>1. i # 1 => g[i] # x
      BY <1>11
    <3>2. j # 1 => g[j] # x
      BY <1>11
    <3>3. QED BY <1>12, <2>1, <3>1, <3>2
  <2>2. CASE i # 1 /\ j # 1
    <3>1. f[i - 1] = f[j - 1] /\ i - 1 \in DOMAIN f /\ j - 1 \in DOMAIN f
      BY <1>9, <1>10, <1>11, <2>2
    <3>2. i - 1 = j - 1
      BY <1>9, <3>1 DEF Sorted, IsInjective
    <3>3. QED BY <3>2
  <2>3. QED BY <2>1, <2>2
<1>14. \A i, j \in 1 .. m : i < j => num[g[i]] <= num[g[j]]
  <2> SUFFICES ASSUME NEW i \in 1 .. m, NEW j \in 1 .. m, i < j
               PROVE  num[g[i]] <= num[g[j]]
    OBVIOUS
  <2>1. CASE i = 1
    BY <1>6, <1>11, <1>12, <2>1
  <2>2. CASE i # 1
    <3>1. j # 1 /\ i - 1 < j - 1 /\ i - 1 \in DOMAIN f /\ j - 1 \in DOMAIN f
      BY <1>9, <1>10, <2>2
    <3>2. num[f[i - 1]] <= num[f[j - 1]]
      BY <1>9, <3>1 DEF Sorted
    <3>3. QED BY <1>11, <2>2, <3>1, <3>2
  <2>3. QED BY <2>1, <2>2
<1>15. Sorted(g, num) /\ g \in [1 .. Cardinality(T) -> T]
  BY <1>4, <1>11, <1>13, <1>14 DEF Sorted, IsInjective
<1>16. QED BY <1>4, <1>15

\* The rows of a batch: each scheduled request has one.
LEMMA BatchOrder ==
    ASSUME NEW o, OutputOK(o)
    PROVE  LET order == InBatchOrder(o)
               n == Cardinality(Scheduled(o))
           IN  /\ n \in Nat /\ order \in [1 .. n -> Scheduled(o)]
               /\ \A i, j \in 1 .. n : order[i] = order[j] => i = j
               /\ \A r \in Scheduled(o) : \E i \in 1 .. n : order[i] = r
<1> DEFINE S == Scheduled(o)
           n == Cardinality(S)
           order == InBatchOrder(o)
<1>1. IsFiniteSet(S) /\ n \in Nat
  <2>1. S \in SUBSET Requests
    BY DEF Scheduled
  <2>2. QED BY <2>1, ConfigAssumption, FS_Subset, FS_CardinalityType
<1>2. \A r \in S : o.num[r] \in Nat
  BY DEF OutputOK, Scheduled
<1>3. \E f \in [1 .. n -> S] : Sorted(f, o.num)
  <2> HIDE DEF S
  <2>1. QED BY <1>1, <1>2, SortedOrder
<1>4. order = CHOOSE f \in [1 .. n -> S] : Sorted(f, o.num)
  BY DEF InBatchOrder, Sorted, Scheduled
<1>5. order \in [1 .. n -> S] /\ Sorted(order, o.num)
  BY <1>3, <1>4
<1> HIDE DEF order, S, n
<1>6. order \in Surjection(1 .. n, S)
  <2>1. order \in Injection(1 .. n, S)
    BY <1>5 DEF Injection, Sorted
  <2>2. IsFiniteSet(1 .. n) /\ Cardinality(1 .. n) = n
    <3>1. Cardinality(1 .. n) = IF 1 > n THEN 0 ELSE n - 1 + 1
      BY <1>1, FS_Interval
    <3>2. QED BY <1>1, <3>1, FS_Interval
  <2>3. QED BY <1>1, <2>1, <2>2, FS_Injection DEF n
<1>7. QED BY <1>1, <1>5, <1>6 DEF Surjection, Sorted, IsInjective, order, S, n

\* Free slots for the new requests.
LEMMA AscendingFacts ==
    ASSUME NEW m \in Nat, NEW S \in SUBSET (1 .. m), NEW n \in Nat, n <= Cardinality(S)
    PROVE  /\ Ascending(S, n) \in [1 .. n -> S]
           /\ \A i, j \in 1 .. n : Ascending(S, n)[i] = Ascending(S, n)[j] => i = j
<1> DEFINE Rank(x) == Cardinality({y \in S : y < x})
           kth(k) == CHOOSE x \in S : Rank(x) = k - 1
           a == Ascending(S, n)
<1>1. Cardinality(S) \in Nat
  <2>1. IsFiniteSet(1 .. m)
    BY FS_Interval
  <2>2. QED BY <2>1, FS_Subset, FS_CardinalityType
<1>2. \A k \in 1 .. n : k \in 1 .. Cardinality(S)
  BY <1>1
<1>3. \A k \in 1 .. n : \E x \in S : Rank(x) = k - 1
  BY <1>2, KthMember
<1> HIDE DEF Rank
<1>4. \A k \in 1 .. n : kth(k) \in S /\ Rank(kth(k)) = k - 1
  BY <1>3
<1>5. a = [k \in 1 .. n |-> kth(k)]
  BY DEF Ascending, Rank
<1> HIDE DEF kth, a
<1>6. \A i, j \in 1 .. n : kth(i) = kth(j) => i = j
  <2> SUFFICES ASSUME NEW i \in 1 .. n, NEW j \in 1 .. n, kth(i) = kth(j) PROVE i = j
    OBVIOUS
  <2>1. i - 1 = j - 1
    BY <1>4
  <2>2. QED BY <2>1
<1>7. QED BY <1>4, <1>5, <1>6 DEF a

--------------------------------------------------------------------------------
(* The constants, and the parts of the state *)

LEMMA ConstantTypes ==
    /\ NoRequest \notin Requests /\ IsFiniteSet(Requests)
    /\ \A r \in Requests : /\ PromptLen[r] \in Nat /\ PromptLen[r] > 0
                           /\ MaxTokens[r] \in Nat /\ MaxTokens[r] > 0
    /\ MaxNumReqs \in Nat /\ MaxNumReqs > 0 /\ MaxNumTokens \in Nat
    /\ MaxNumReqs <= MaxNumTokens /\ MaxModelLen \in Nat
    /\ BlockSize \in Nat /\ BlockSize > 0
    /\ CaptureSizes \subseteq Nat /\ 0 \notin CaptureSizes
    /\ \A c \in Configs : /\ c.spec \in Nat /\ c.async \in BOOLEAN /\ c.aborts \in BOOLEAN
                          /\ c.chunk \in Nat /\ c.chunk > 0 /\ c.clients \subseteq Requests
                          /\ c.mode \in GraphModes /\ c.hits \subseteq Nat
                          /\ c.cut \in {"any", "drafts", "nothing"}
                          /\ c.async => c.spec = 0
BY ConfigAssumption

LEMMA CfgTypes ==
    ASSUME TypeOK
    PROVE  /\ cfg \in Configs /\ cfg.spec \in Nat /\ cfg.async \in BOOLEAN
           /\ cfg.chunk \in Nat /\ cfg.chunk > 0 /\ cfg.clients \subseteq Requests
           /\ cfg.mode \in GraphModes /\ cfg.hits \subseteq Nat
           /\ cfg.cut \in {"any", "drafts", "nothing"}
           /\ cfg.async => cfg.spec = 0
BY ConstantTypes DEF TypeOK

\* The sizes of the graphs.
LEMMA GraphSizesFacts ==
    ASSUME TypeOK
    PROVE  /\ \A x \in GraphSizes : x \in Nat /\ x > 0 /\ x <= MaxNumTokens
           /\ \A x \in DraftGraphSizes : x \in Slots
<1>1. \A x \in GraphSizes : x \in Nat /\ x > 0 /\ x <= MaxNumTokens
  BY ConstantTypes DEF GraphSizes, UpperBound
<1>2. MaxNumReqs \in Slots
  BY ConstantTypes DEF Slots
<1>3. DraftGraphSizes \subseteq Slots
  BY <1>2 DEF DraftGraphSizes
<1>4. QED BY <1>1, <1>3

\* The largest graph that is missing comes next.
LEMMA NextFacts ==
    ASSUME TypeOK, GraphSizes \ graphs # {}
    PROVE  /\ NextToCapture(GraphSizes, graphs) \in GraphSizes \ graphs
           /\ \A x \in GraphSizes \ graphs : x <= NextToCapture(GraphSizes, graphs)
<1> DEFINE T == GraphSizes \ graphs
<1>1. T \in SUBSET (0 .. MaxNumTokens)
  BY GraphSizesFacts, ConstantTypes
<1>2. Max(T) \in T /\ \A y \in T : Max(T) >= y
  <2>1. T # {}
    OBVIOUS
  <2> HIDE DEF T
  <2>2. QED BY <1>1, <2>1, MaxIsGreatest, ConstantTypes
<1>3. \A y \in T : y <= Max(T)
  BY <1>1, <1>2
<1>4. QED BY <1>2, <1>3 DEF NextToCapture

LEMMA NextDraftFacts ==
    ASSUME TypeOK, DraftGraphSizes \ draft_graphs # {}
    PROVE  NextToCapture(DraftGraphSizes, draft_graphs) \in DraftGraphSizes
<1> DEFINE T == DraftGraphSizes \ draft_graphs
<1>1. T \in SUBSET (0 .. MaxNumReqs)
  BY GraphSizesFacts, ConstantTypes DEF Slots
<1>2. Max(T) \in T
  <2>1. T # {}
    OBVIOUS
  <2> HIDE DEF T
  <2>2. QED BY <1>1, <2>1, MaxIsGreatest, ConstantTypes
<1>3. QED BY <1>2 DEF NextToCapture

\* A batch is padded to a size that has room for it, or not at all.
LEMMA PaddedFacts ==
    ASSUME NEW n, NEW sizes \in SUBSET Nat
    PROVE  \/ Padded(n, sizes) = 0
           \/ Padded(n, sizes) \in sizes /\ n <= Padded(n, sizes)
<1> DEFINE T == {x \in sizes : n <= x}
<1>1. CASE T = {}
  BY <1>1 DEF Padded
<1>2. CASE T # {}
  <2>1. T \in SUBSET Nat
    OBVIOUS
  <2>2. Min(T) \in T
    <3> HIDE DEF T
    <3>1. QED BY <1>2, <2>1, MinIsLeast
  <2>3. \E x \in sizes : n <= x
    BY <1>2
  <2>4. Padded(n, sizes) = Min(T)
    BY <2>3 DEF Padded
  <2>5. QED BY <2>2, <2>4
<1>3. QED BY <1>1, <1>2

\* What the state is made of, in the form the proofs use.
LEMMA StateTypes ==
    ASSUME TypeOK
    PROVE  /\ \A r \in Requests :
                /\ eng[r].status \in {"none", "running", "preempted", "finished"}
                /\ eng[r].tokens \in Nat /\ eng[r].computed \in Nat
                /\ eng[r].placeholders \in Int /\ eng[r].spec \in 0 .. cfg.spec
                /\ IsSeq(eng[r].blocks) /\ slot[r] \in 0 .. MaxNumReqs
           /\ Len(outputs) \in Nat /\ DOMAIN outputs = 1 .. Len(outputs) /\ IsSeq(outputs)
           /\ Len(answers) \in Nat /\ DOMAIN answers = 1 .. Len(answers) /\ IsSeq(answers)
           /\ Len(exec) \in Nat /\ DOMAIN exec = 1 .. Len(exec)
           /\ outputs = <<>> <=> Len(outputs) = 0
           /\ answers = <<>> <=> Len(answers) = 0
           /\ exec = <<>> <=> Len(exec) = 0
<1>1. /\ IsSeq(outputs) /\ IsSeq(answers) /\ IsSeq(exec)
      /\ \A r \in Requests : RequestOK(eng[r]) /\ slot[r] \in 0 .. MaxNumReqs
  BY DEF TypeOK
<1>2. QED BY <1>1, IsSeqFacts DEF RequestOK

--------------------------------------------------------------------------------
(* CUDA graphs *)

\* What the capture leaves behind is enough for every batch.
LEMMA GraphsFit ==
    ASSUME TypeOK, GraphsCaptured
    PROVE  GraphsFitBuffer
<1> DEFINE total == Total([n \in DOMAIN exec |-> exec[n].num])
<1>1. \A x \in GraphSizes : x \in Nat /\ x > 0 /\ x <= MaxNumTokens
  BY GraphSizesFacts
<1>2. graphs \subseteq GraphSizes
  BY DEF TypeOK
<1>3. \A size \in graphs : size <= hidden_states /\ size <= MaxNumTokens
  BY <1>1, <1>2 DEF GraphsCaptured
<1>4. exec # <<>> => GraphSizes \subseteq graphs
  BY DEF TypeOK, GraphsCaptured
<1>5. BatchGraph(exec) # 0 => BatchGraph(exec) \in GraphSizes /\ total <= BatchGraph(exec)
  <2>1. BatchGraph(exec) # 0 => BatchGraph(exec) = Padded(total, GraphSizes)
    BY DEF BatchGraph, GraphSize
  <2>2. GraphSizes \in SUBSET Nat
    BY <1>1
  <2> HIDE DEF total
  <2>3. Padded(total, GraphSizes) # 0 =>
          /\ Padded(total, GraphSizes) \in GraphSizes
          /\ total <= Padded(total, GraphSizes)
    BY <2>2, PaddedFacts
  <2>4. QED BY <2>1, <2>3
<1>6. QED BY <1>3, <1>4, <1>5 DEF GraphsFitBuffer

\* The rows behind a batch, up to the size it is padded to.
LEMMA PreparedFacts ==
    ASSUME TypeOK, exec # <<>>,
           NEW i \in Len(exec) + 1 .. DraftSize(Len(exec))
    PROVE  Prepared(exec)[i] = EmptyRow
<1> DEFINE num == Len(exec)
<1>1. num \in Nat /\ num > 0
  BY StateTypes
<1>2. DraftSize(num) \in draft_graphs
  <2>1. DraftSize(num) # num
    BY <1>1
  <2>2. QED BY <2>1 DEF DraftSize
<1>3. DraftSize(num) \in Slots
  BY <1>2, GraphSizesFacts DEF TypeOK
<1>4. i \in Slots /\ ~(i <= num) /\ i > num /\ i <= DraftSize(num)
  BY <1>1, <1>3, ConstantTypes DEF Slots
<1>5. rows[i] \in [len : {rows[i].len}, draft_len : {rows[i].draft_len},
                  map : {rows[i].map}, slots : {rows[i].slots}]
  BY <1>4 DEF TypeOK
<1>6. Prepared(exec)[i] =
        [PadRow(rows[i]) EXCEPT !.draft_len = DraftLens(PadRow(rows[i]), i, num, DraftSize(num))]
  BY <1>4 DEF Prepared
<1>7. DraftLens(PadRow(rows[i]), i, num, DraftSize(num)) = 0
  BY <1>4 DEF DraftLens
<1>8. [PadRow(rows[i]) EXCEPT !.draft_len = 0] = EmptyRow
  <2> DEFINE row == rows[i]
             pad == PadRow(row)
  <2>1. row \in [len : {row.len}, draft_len : {row.draft_len}, map : {row.map},
                 slots : {row.slots}]
    BY <1>5
  <2> HIDE DEF row
  <2>2. pad \in [len : {0}, draft_len : {row.draft_len}, map : {0}, slots : {{}}]
    BY <2>1 DEF PadRow
  <2> HIDE DEF pad
  <2>3. [pad EXCEPT !.draft_len = 0] \in [len : {0}, draft_len : {0}, map : {0}, slots : {{}}]
    BY <2>2
  <2>4. \A e \in [len : {0}, draft_len : {0}, map : {0}, slots : {{}}] : e = EmptyRow
    BY DEF EmptyRow
  <2>5. QED BY <2>3, <2>4 DEF pad, row
<1>9. QED BY <1>6, <1>7, <1>8

\* No step leaves a row of the padding active.
LEMMA PaddedStep ==
    ASSUME TypeOK, GraphsCaptured, PaddedRowsInert, [Next]_vars
    PROVE  PaddedRowsInert'
<1>1. CASE SampleTokens /\ cfg.spec # 0
  <2>1. /\ exec # <<>> /\ rows' = Prepared(exec) /\ Len(last_draft') = Len(exec)
    <3>1. Len(exec) \in Nat /\ DOMAIN exec = 1 .. Len(exec)
      BY StateTypes
    <3>2. exec # <<>> /\ rows' = Prepared(exec) /\ \E f : last_draft' = [n \in DOMAIN exec |-> f[n]]
      <4>1. exec # <<>> /\ rows' = Prepared(exec)
        BY <1>1 DEF SampleTokens
      <4>2. last_draft' = [n \in DOMAIN exec |-> last_draft'[n]]
        BY <1>1 DEF SampleTokens
      <4>3. QED BY <4>1, <4>2
    <3>3. QED BY <3>1, <3>2
  <2>2. cfg' = cfg /\ draft_graphs' = draft_graphs
    BY <1>1 DEF SampleTokens, graphVars
  <2>3. DraftSize(Len(last_draft))' = DraftSize(Len(exec))
    BY <2>1, <2>2 DEF DraftSize, DraftGraphSizes, Padded
  <2>4. QED BY <2>1, <2>3, PreparedFacts DEF PaddedRowsInert
<1>2. CASE /\ UNCHANGED last_draft
           /\ last_draft = <<>> \/ UNCHANGED <<cfg, draft_graphs, rows>>
  BY <1>2 DEF PaddedRowsInert, DraftSize, DraftGraphSizes, Padded
<1>3. [Next]_vars =>
        \/ SampleTokens /\ cfg.spec # 0
        \/ /\ UNCHANGED last_draft
           /\ last_draft = <<>> \/ UNCHANGED <<cfg, draft_graphs, rows>>
  <2>1. CaptureGraph \/ CaptureDraftGraph \/ CaptureDone => UNCHANGED last_draft /\ last_draft = <<>>
    BY DEF CaptureGraph, CaptureDraftGraph, CaptureDone, workerVars, GraphsCaptured
  <2>2. Schedule => UNCHANGED <<last_draft, cfg, draft_graphs, rows>>
    BY DEF Schedule, workerVars, graphVars
  <2>3. Update => UNCHANGED <<last_draft, cfg, draft_graphs, rows>>
    BY DEF Update, workerVars, graphVars
  <2>4. TakeDraftTokenIds \/ (\E r \in Requests : Abort(r)) \/ Execute
           => UNCHANGED <<last_draft, cfg, draft_graphs, rows>>
    BY DEF TakeDraftTokenIds, Abort, Execute, workerVars, graphVars
  <2>5. SampleTokens /\ ~(cfg.spec # 0) => UNCHANGED <<last_draft, cfg, draft_graphs, rows>>
    BY DEF SampleTokens, graphVars
  <2>6. UNCHANGED vars => UNCHANGED <<last_draft, cfg, draft_graphs, rows>>
    BY DEF vars, workerVars, graphVars
  <2>7. QED BY <2>1, <2>2, <2>3, <2>4, <2>5, <2>6 DEF Next
<1>4. QED BY <1>1, <1>2, <1>3

--------------------------------------------------------------------------------
(* Updates of a request and of a slot *)

LEMMA EmptyIsSeq == IsSeq(<<>>)
BY <<>> \in Seq({}), SeqIsSeq

LEMMA RequestFields ==
    ASSUME NEW q, RequestOK(q)
    PROVE  /\ q.status \in {"none", "running", "preempted", "finished"}
           /\ q.tokens \in Nat /\ q.computed \in Nat /\ q.placeholders \in Int
           /\ q.spec \in 0 .. cfg.spec /\ IsSeq(q.blocks)
BY DEF RequestOK

LEMMA PreemptedRequest ==
    ASSUME NEW q, RequestOK(q), cfg.spec \in Nat,
           NEW p, p = [q EXCEPT !.status = "preempted", !.computed = 0, !.spec = 0, !.blocks = <<>>]
    PROVE  /\ RequestOK(p) /\ p.status = "preempted" /\ p.computed = 0 /\ p.blocks = <<>>
           /\ p.tokens = q.tokens /\ p.placeholders = q.placeholders
<1> DEFINE S == 0 .. cfg.spec
<1>1. 0 \in S
  OBVIOUS
<1>2. q \in [status : {"none", "running", "preempted", "finished"}, tokens : Nat,
            computed : Nat, placeholders : Int, spec : S, blocks : {q.blocks}]
  BY DEF RequestOK
<1> HIDE DEF S
<1>3. /\ p \in [status : {"none", "running", "preempted", "finished"}, tokens : Nat,
               computed : Nat, placeholders : Int, spec : S, blocks : {<<>>}]
      /\ p.status = "preempted" /\ p.computed = 0 /\ p.blocks = <<>>
      /\ p.tokens = q.tokens /\ p.placeholders = q.placeholders
  BY <1>1, <1>2
<1>4. QED BY <1>3, EmptyIsSeq DEF RequestOK, S

LEMMA FinishedRequest ==
    ASSUME NEW q, RequestOK(q), NEW p, p = [q EXCEPT !.status = "finished", !.blocks = <<>>]
    PROVE  /\ RequestOK(p) /\ p.status = "finished" /\ p.tokens = q.tokens
           /\ p.placeholders = q.placeholders
BY EmptyIsSeq DEF RequestOK

LEMMA DraftedRequest ==
    ASSUME NEW q, RequestOK(q), cfg.spec \in Nat, NEW p, p = [q EXCEPT !.spec = cfg.spec]
    PROVE  /\ RequestOK(p) /\ p.status = q.status /\ p.computed = q.computed
           /\ p.blocks = q.blocks /\ p.tokens = q.tokens /\ p.placeholders = q.placeholders
BY DEF RequestOK

LEMMA SlotFields ==
    ASSUME NEW s, StateOK(s)
    PROVE  s.prefill \in Nat /\ s.computed \in Nat /\ s.draft.hits \in Nat
BY DEF StateOK

LEMMA SlotWithRequest ==
    ASSUME NEW s, NEW o, NEW r, StateOK(s), o.tokens[r] \in Nat
    PROVE  LET p == WithRequest(s, o, r)
           IN  /\ StateOK(p) /\ p.prefill = o.tokens[r] /\ p.computed = 0
               /\ p.blocks = o.blocks[r]
BY DEF StateOK, WithRequest

LEMMA SlotWithBlocks ==
    ASSUME NEW s, NEW o, NEW r, StateOK(s)
    PROVE  LET p == WithBlocks(s, o, r)
           IN  /\ StateOK(p) /\ p.prefill = s.prefill /\ p.computed = s.computed
               /\ p.last = s.last /\ p.draft = s.draft
BY DEF StateOK, WithBlocks

LEMMA SlotAfterStep ==
    ASSUME NEW s, StateOK(s), NEW b, ValidEnd(b) \in Nat
    PROVE  LET p == AfterStep(s, b)
           IN  /\ StateOK(p) /\ p.prefill = s.prefill /\ p.computed = ValidEnd(b)
               /\ p.blocks = s.blocks /\ p.next = b.next
               /\ Sampled(b) > 0 => p.last = <<b.r, ValidEnd(b)>>
<1> DEFINE e == ValidEnd(b)
           l == IF Sampled(b) > 0 THEN <<b.r, ValidEnd(b)>> ELSE s.last
           p == [s EXCEPT !.computed = e, !.next = b.next, !.last = l]
<1>1. AfterStep(s, b) = p
  BY DEF AfterStep
<1>2. e \in Nat
  OBVIOUS
<1>3. Sampled(b) > 0 => l = <<b.r, ValidEnd(b)>>
  OBVIOUS
<1> HIDE DEF e, l
<1>4. /\ StateOK(p) /\ p.prefill = s.prefill /\ p.computed = e
      /\ p.blocks = s.blocks /\ p.next = b.next /\ p.last = l
  BY <1>2 DEF StateOK
<1>5. QED BY <1>1, <1>3, <1>4 DEF e

LEMMA SlotWithDraft ==
    ASSUME NEW s, StateOK(s), NEW d, d.hits \in Nat, NEW p, p = [s EXCEPT !.draft = d]
    PROVE  /\ StateOK(p) /\ p.prefill = s.prefill /\ p.computed = s.computed
           /\ p.blocks = s.blocks /\ p.last = s.last /\ p.draft = d
BY DEF StateOK

--------------------------------------------------------------------------------
(* What the worker has, and will have *)

LEMMA HeldSame ==
    ASSUME UNCHANGED <<slot, st, exec>>, NEW r
    PROVE  Held(r)' = Held(r)
BY DEF Held, Batched, Absent

\* A step that leaves the worker and the outputs alone.
LEMMA ViewSame ==
    ASSUME UNCHANGED <<slot, st, exec, outputs>>, NEW k, NEW r
    PROVE  View(k, r)' = View(k, r)
<1>1. Held(r)' = Held(r)
  BY HeldSame
<1>2. QED BY <1>1 DEF View, AfterOutput, Removed, Scheduled, Absent

\* How much can be under way.
LEMMA PipelineFacts ==
    ASSUME TypeOK, Pipeline
    PROVE  /\ Len(outputs) + Len(answers) <= 2
           /\ exec # <<>> => Len(outputs) + Len(answers) <= 1
           /\ ~cfg.async => Len(outputs) + Len(answers) <= 1
           /\ ~cfg.async /\ exec # <<>> => outputs = <<>> /\ answers = <<>>
           /\ ~cfg.async /\ outputs # <<>> => exec = <<>> /\ answers = <<>>
           /\ ~cfg.async /\ answers # <<>> => exec = <<>> /\ outputs = <<>>
<1>1. /\ Len(outputs) \in Nat /\ Len(answers) \in Nat /\ cfg.async \in BOOLEAN
      /\ outputs = <<>> <=> Len(outputs) = 0
      /\ answers = <<>> <=> Len(answers) = 0
  BY StateTypes, CfgTypes
<1>2. Len(outputs) + Len(answers) + (IF exec = <<>> THEN 0 ELSE 1)
          <= (IF cfg.async THEN 2 ELSE 1)
  BY DEF Pipeline
<1>3. CASE cfg.async
  BY <1>1, <1>2, <1>3
<1>4. CASE ~cfg.async
  BY <1>1, <1>2, <1>4
<1>5. QED BY <1>3, <1>4

\* No drafts are owed with async scheduling.
LEMMA OwedFacts ==
    ASSUME TypeOK, NEW r \in Requests
    PROVE  /\ Owed(r) \in Nat
           /\ cfg.async => Owed(r) = 0
           /\ answers = <<>> => Owed(r) = 0
<1>1. answers # <<>> => AnswerOK(Head(answers))
  <2>1. IsSeq(answers) /\ \A k \in DOMAIN answers : AnswerOK(answers[k])
    BY DEF TypeOK
  <2>2. QED BY <2>1, TailIsSeq
<1>2. QED BY <1>1 DEF Owed, AnswerOK

--------------------------------------------------------------------------------
(* The invariant, step by step *)

Rest == Pipeline /\ OutputsFit /\ EngineAgrees /\ TokensKnown /\ FollowsScheduler

LEMMA RestSame ==
    ASSUME Rest, UNCHANGED <<cfg, slot, st, exec, outputs, answers, eng, told>>
    PROVE  Rest'
<1>1. \A k, r : View(k, r)' = View(k, r)
  BY ViewSame
<1>2. \A k : {r \in Requests : View(k, r).has}' = {r \in Requests : View(k, r).has}
  BY <1>1
<1>3. Pipeline'
  BY <1>2 DEF Rest, Pipeline
<1>4. OutputsFit'
  BY <1>1 DEF Rest, OutputsFit, Scheduled
<1>5. EngineAgrees'
  BY <1>1 DEF Rest, EngineAgrees, Owed
<1>6. TokensKnown'
  BY DEF Rest, TokensKnown, DraftsOf
<1>7. FollowsScheduler'
  BY DEF Rest, FollowsScheduler
<1>8. QED BY <1>3, <1>4, <1>5, <1>6, <1>7 DEF Rest

\* The parts of TypeOK a step may leave alone.
OutputsTyped == IsSeq(outputs) /\ \A k \in DOMAIN outputs : OutputOK(outputs[k])
AnswersTyped == IsSeq(answers) /\ \A k \in DOMAIN answers : AnswerOK(answers[k])
RowsTyped == IsSeq(exec) /\ \A n \in DOMAIN exec : RowOK(exec[n])
SlotsTyped ==
    /\ slot \in [Requests -> 0 .. MaxNumReqs]
    /\ st = [i \in Slots |-> st[i]] /\ \A i \in Slots : StateOK(st[i])
BuffersTyped ==
    /\ rows = [i \in Slots |-> rows[i]]
    /\ \A i \in Slots : rows[i] \in [len : {rows[i].len}, draft_len : {rows[i].draft_len},
                                     map : {rows[i].map}, slots : {rows[i].slots}]
EngineTyped ==
    /\ eng = [r \in Requests |-> eng[r]] /\ \A r \in Requests : RequestOK(eng[r])
    /\ told \subseteq Requests /\ turn \in {"schedule", "drafts"} /\ preemptions \in Nat
GraphsTyped ==
    /\ cfg \in Configs /\ stage \in {"capture", "serve"}
    /\ graphs \subseteq GraphSizes /\ hidden_states \in Nat
    /\ draft_graphs \subseteq DraftGraphSizes

LEMMA TypeParts ==
    TypeOK <=> /\ OutputsTyped /\ AnswersTyped /\ RowsTyped /\ SlotsTyped /\ BuffersTyped
               /\ EngineTyped /\ GraphsTyped
BY DEF TypeOK, OutputsTyped, AnswersTyped, RowsTyped, SlotsTyped, BuffersTyped, EngineTyped,
       GraphsTyped

LEMMA TypePartsNext ==
    TypeOK' <=> /\ OutputsTyped' /\ AnswersTyped' /\ RowsTyped' /\ SlotsTyped' /\ BuffersTyped'
                /\ EngineTyped' /\ GraphsTyped'
BY DEF TypeOK, OutputsTyped, AnswersTyped, RowsTyped, SlotsTyped, BuffersTyped, EngineTyped,
       GraphsTyped

LEMMA TypesSame ==
    /\ OutputsTyped /\ UNCHANGED <<cfg, eng, outputs>> => OutputsTyped'
    /\ AnswersTyped /\ UNCHANGED <<cfg, answers>> => AnswersTyped'
    /\ RowsTyped /\ UNCHANGED <<cfg, exec, slot, st>> => RowsTyped'
    /\ SlotsTyped /\ UNCHANGED <<slot, st>> => SlotsTyped'
    /\ BuffersTyped /\ UNCHANGED rows => BuffersTyped'
    /\ EngineTyped /\ UNCHANGED <<cfg, eng, told, turn, preemptions>> => EngineTyped'
    /\ GraphsTyped /\ UNCHANGED <<cfg, stage, graphs, hidden_states, draft_graphs>>
          => GraphsTyped'
<1>1. OutputsTyped /\ UNCHANGED <<cfg, eng, outputs>> => OutputsTyped'
  BY DEF OutputsTyped, OutputOK, Scheduled, Removed
<1>2. AnswersTyped /\ UNCHANGED <<cfg, answers>> => AnswersTyped'
  BY DEF AnswersTyped, AnswerOK
<1>3. RowsTyped /\ UNCHANGED <<cfg, exec, slot, st>> => RowsTyped'
  BY DEF RowsTyped, RowOK
<1>4. SlotsTyped /\ UNCHANGED <<slot, st>> => SlotsTyped'
  BY DEF SlotsTyped, StateOK
<1>5. BuffersTyped /\ UNCHANGED rows => BuffersTyped'
  BY DEF BuffersTyped
<1>6. EngineTyped /\ UNCHANGED <<cfg, eng, told, turn, preemptions>> => EngineTyped'
  BY DEF EngineTyped, RequestOK
<1>7. GraphsTyped /\ UNCHANGED <<cfg, stage, graphs, hidden_states, draft_graphs>> => GraphsTyped'
  BY DEF GraphsTyped, GraphSizes, UpperBound, DraftGraphSizes
<1>8. QED BY <1>1, <1>2, <1>3, <1>4, <1>5, <1>6, <1>7

LEMMA InitInv ==
    ASSUME Init
    PROVE  RunnerInv /\ PaddedRowsInert
<1> USE DEF Init
<1>1. \A r \in Requests : Held(r) = Absent
  BY DEF Held
<1>2. \A k \in 0 .. 0, r \in Requests : View(k, r) = Absent
  BY <1>1 DEF View
<1>3. IsSeq(<<>>) /\ Len(<<>>) = 0 /\ DOMAIN <<>> = {}
  BY EmptyIsSeq
<1>4. OutputsTyped /\ AnswersTyped /\ RowsTyped
  BY <1>3 DEF OutputsTyped, AnswersTyped, RowsTyped
<1>5. SlotsTyped
  <2>1. StateOK(EmptySlot)
    BY DEF StateOK, EmptySlot, NoDraft
  <2>2. \A i \in Slots : StateOK(st[i])
    BY <2>1
  <2>3. QED BY <2>2, ConstantTypes DEF SlotsTyped
<1>6. BuffersTyped
  <2>1. EmptyRow \in [len : {EmptyRow.len}, draft_len : {EmptyRow.draft_len},
                      map : {EmptyRow.map}, slots : {EmptyRow.slots}]
    BY DEF EmptyRow
  <2>2. QED BY <2>1 DEF BuffersTyped
<1>7. EngineTyped
  <2>1. ASSUME NEW r \in Requests PROVE RequestOK(NewRequest(r))
    <3>1. PromptLen[r] \in Nat /\ 0 \in 0 .. cfg.spec
      BY ConstantTypes
    <3>2. QED BY <3>1, EmptyIsSeq DEF RequestOK, NewRequest
  <2>2. QED BY <2>1 DEF EngineTyped
<1>8. GraphsTyped
  BY DEF GraphsTyped
<1>9. GraphsCaptured
  BY DEF GraphsCaptured
<1>10. Pipeline
  <2>1. \A k \in 0 .. 0 : {r \in Requests : View(k, r).has} = {}
    BY <1>2 DEF Absent
  <2>2. Cardinality({}) = 0
    BY FS_EmptySet
  <2>3. \A k \in 0 .. Len(outputs) : Cardinality({r \in Requests : View(k, r).has}) <= MaxNumReqs
    <3>1. Len(outputs) = 0 /\ 0 <= MaxNumReqs
      BY <1>3, ConstantTypes
    <3>2. QED BY <2>1, <2>2, <3>1
  <2>4. Len(outputs) + Len(answers) + (IF exec = <<>> THEN 0 ELSE 1)
          <= (IF cfg.async THEN 2 ELSE 1)
    BY <1>3
  <2>5. QED BY <1>3, <2>3, <2>4 DEF Pipeline
<1>11. OutputsFit
  BY <1>3 DEF OutputsFit
<1>12. EngineAgrees
  <2>1. \A r \in Requests : View(Len(outputs), r) = Absent
    BY <1>2, <1>3
  <2>2. \A r \in Requests : eng[r].status = "none" /\ eng[r].computed = 0 /\ eng[r].blocks = <<>>
    BY DEF NewRequest
  <2>3. QED BY <2>1, <2>2 DEF EngineAgrees, Absent
<1>13. TokensKnown
  <2>1. \A r \in Requests : /\ eng[r].status = "none" /\ eng[r].tokens = PromptLen[r]
                            /\ eng[r].placeholders = 0
    BY DEF NewRequest
  <2>2. QED BY <2>1, ConstantTypes DEF TokensKnown
<1>14. FollowsScheduler /\ PaddedRowsInert
  BY <1>3 DEF FollowsScheduler, PaddedRowsInert
<1>15. QED BY <1>4, <1>5, <1>6, <1>7, <1>8, <1>9, <1>10, <1>11, <1>12, <1>13, <1>14, TypeParts
           DEF RunnerInv

LEMMA CaptureGraphStep ==
    ASSUME RunnerInv, CaptureGraph
    PROVE  RunnerInv'
<1> DEFINE size == NextToCapture(GraphSizes, graphs)
<1>1. /\ size \in GraphSizes \ graphs /\ \A x \in GraphSizes \ graphs : x <= size
      /\ \A x \in GraphSizes : x \in Nat /\ x > 0
  BY NextFacts, GraphSizesFacts DEF RunnerInv, CaptureGraph
<1>2. /\ graphs' = graphs \cup {size}
      /\ hidden_states' = IF hidden_states = 0 THEN size ELSE hidden_states
      /\ stage = "capture"
      /\ UNCHANGED <<cfg, stage, draft_graphs, eng, told, turn, preemptions, outputs, answers,
                     slot, st, exec, last_draft, rows, draft_kv>>
  BY DEF CaptureGraph, engineVars, workerVars
<1>3. GraphSizes' = GraphSizes /\ DraftGraphSizes' = DraftGraphSizes
  BY <1>2 DEF GraphSizes, UpperBound, DraftGraphSizes
<1> HIDE DEF size
<1>4. GraphsTyped'
  BY <1>1, <1>2, <1>3, TypeParts DEF RunnerInv, GraphsTyped
<1>5. GraphsCaptured'
  <2>1. /\ graphs = {} => hidden_states = 0
        /\ \A x \in GraphSizes : graphs # {} => x <= hidden_states
        /\ hidden_states \in Nat
    BY DEF RunnerInv, GraphsCaptured, TypeOK
  <2>2. ASSUME NEW x \in GraphSizes PROVE x <= hidden_states'
    <3>1. CASE graphs = {}
      BY <1>1, <1>2, <2>1, <3>1
    <3>2. CASE graphs # {}
      <4>1. size <= hidden_states /\ x <= hidden_states /\ hidden_states # 0
        BY <1>1, <2>1, <3>2
      <4>2. QED BY <1>2, <4>1
    <3>3. QED BY <3>1, <3>2
  <2>3. QED BY <1>1, <1>2, <1>3, <2>2 DEF RunnerInv, GraphsCaptured
<1>6. TypeOK'
  BY <1>2, <1>4, TypeParts, TypePartsNext, TypesSame DEF RunnerInv
<1>7. Rest'
  BY <1>2, RestSame DEF RunnerInv, Rest
<1>8. QED BY <1>5, <1>6, <1>7 DEF RunnerInv, Rest

LEMMA CaptureDraftGraphStep ==
    ASSUME RunnerInv, CaptureDraftGraph
    PROVE  RunnerInv'
<1> DEFINE size == NextToCapture(DraftGraphSizes, draft_graphs)
           long == Least(2 * cfg.spec, MaxModelLen)
<1>1. size \in DraftGraphSizes
  BY NextDraftFacts DEF RunnerInv, CaptureDraftGraph
<1>2. /\ draft_graphs' = draft_graphs \cup {size} /\ stage = "capture"
      /\ rows' = [i \in Slots |->
                 IF i <= size THEN [rows[i] EXCEPT !.len = cfg.spec, !.draft_len = long]
                 ELSE [rows[i] EXCEPT !.len = 0]]
      /\ UNCHANGED <<cfg, stage, graphs, hidden_states, eng, told, turn, preemptions, outputs,
                     answers, slot, st, exec, last_draft, draft_kv>>
  BY DEF CaptureDraftGraph, engineVars
<1>3. GraphSizes' = GraphSizes /\ DraftGraphSizes' = DraftGraphSizes
  BY <1>2 DEF GraphSizes, UpperBound, DraftGraphSizes
<1> HIDE DEF size, long
<1>4. GraphsTyped'
  BY <1>1, <1>2, <1>3, TypeParts DEF RunnerInv, GraphsTyped
<1>5. BuffersTyped'
  <2>1. ASSUME NEW i \in Slots
        PROVE  rows'[i] \in [len : {rows'[i].len}, draft_len : {rows'[i].draft_len},
                             map : {rows'[i].map}, slots : {rows'[i].slots}]
    <3> DEFINE row == rows[i]
    <3>1. row \in [len : {row.len}, draft_len : {row.draft_len}, map : {row.map},
                   slots : {row.slots}]
      BY TypeParts DEF RunnerInv, BuffersTyped
    <3>2. \/ rows'[i] = [row EXCEPT !.len = cfg.spec, !.draft_len = long]
          \/ rows'[i] = [row EXCEPT !.len = 0]
      BY <1>2
    <3> HIDE DEF row
    <3>3. QED BY <3>1, <3>2
  <2>2. QED BY <1>2, <2>1 DEF BuffersTyped
<1>6. GraphsCaptured'
  BY <1>2, <1>3 DEF RunnerInv, GraphsCaptured
<1>7. TypeOK'
  BY <1>2, <1>4, <1>5, TypeParts, TypePartsNext, TypesSame DEF RunnerInv
<1>8. Rest'
  BY <1>2, RestSame DEF RunnerInv, Rest
<1>9. QED BY <1>6, <1>7, <1>8 DEF RunnerInv, Rest

LEMMA CaptureDoneStep ==
    ASSUME RunnerInv, CaptureDone
    PROVE  RunnerInv'
<1>1. /\ stage' = "serve" /\ GraphSizes \subseteq graphs
      /\ UNCHANGED <<cfg, graphs, hidden_states, draft_graphs, eng, told, turn, preemptions,
                     outputs, answers, slot, st, exec, last_draft, rows, draft_kv>>
  BY DEF CaptureDone, engineVars, workerVars
<1>2. GraphSizes' = GraphSizes /\ DraftGraphSizes' = DraftGraphSizes
  BY <1>1 DEF GraphSizes, UpperBound, DraftGraphSizes
<1>3. GraphsTyped' /\ GraphsCaptured'
  BY <1>1, <1>2, TypeParts DEF RunnerInv, GraphsTyped, GraphsCaptured
<1>4. TypeOK'
  BY <1>1, <1>3, TypeParts, TypePartsNext, TypesSame DEF RunnerInv
<1>5. Rest'
  BY <1>1, RestSame DEF RunnerInv, Rest
<1>6. QED BY <1>3, <1>4, <1>5 DEF RunnerInv, Rest

\* A step of the engine alone, which has at most as many answers to read as before.
LEMMA EngineStep ==
    ASSUME RunnerInv, EngineTyped', AnswersTyped',
           \A r \in Requests : eng[r].tokens <= eng'[r].tokens,
           UNCHANGED <<cfg, stage, graphs, hidden_states, draft_graphs, outputs, slot, st, exec,
                       last_draft, rows>>,
           answers = <<>> => answers' = <<>>, Len(answers') <= Len(answers),
           EngineAgrees', TokensKnown'
    PROVE  RunnerInv'
<1>1. \A k, r : View(k, r)' = View(k, r)
  BY ViewSame
<1>2. \A k : {r \in Requests : View(k, r).has}' = {r \in Requests : View(k, r).has}
  BY <1>1
<1>3. OutputsTyped'
  <2>1. ASSUME NEW o, OutputOK(o) PROVE OutputOK(o)'
    <3>1. \A r \in Requests : /\ eng[r].tokens \in Nat /\ eng'[r].tokens \in Nat
                              /\ eng[r].tokens <= eng'[r].tokens
      BY StateTypes, RequestFields DEF RunnerInv, EngineTyped, RequestOK
    <3>2. o.new \subseteq Requests
      BY <2>1 DEF OutputOK, Scheduled
    <3>3. \A r \in o.new : o.tokens[r] \in 0 .. eng'[r].tokens
      <4>1. \A r \in o.new : o.tokens[r] \in 0 .. eng[r].tokens
        BY <2>1 DEF OutputOK
      <4>2. QED BY <3>1, <3>2, <4>1
    <3>4. QED BY <2>1, <3>3 DEF OutputOK, Scheduled, Removed
  <2>2. OutputsTyped
    BY TypeParts DEF RunnerInv
  <2>3. QED BY <2>1, <2>2 DEF OutputsTyped
<1>4. TypeOK'
  BY <1>3, TypeParts, TypePartsNext, TypesSame DEF RunnerInv
<1>5. GraphsCaptured'
  BY DEF RunnerInv, GraphsCaptured, GraphSizes, UpperBound
<1>6. Pipeline'
  <2>1. Len(outputs) + Len(answers') + (IF exec = <<>> THEN 0 ELSE 1)
          <= (IF cfg.async THEN 2 ELSE 1)
    <3>1. /\ Len(outputs) \in Nat /\ Len(answers) \in Nat /\ Len(answers') \in Nat
          /\ cfg.async \in BOOLEAN
      BY StateTypes, CfgTypes, IsSeqFacts DEF RunnerInv, AnswersTyped
    <3>2. Len(outputs) + Len(answers) + (IF exec = <<>> THEN 0 ELSE 1)
            <= (IF cfg.async THEN 2 ELSE 1)
      BY DEF RunnerInv, Pipeline
    <3>3. QED BY <3>1, <3>2
  <2>2. QED BY <1>2, <2>1 DEF RunnerInv, Pipeline
<1>7. OutputsFit'
  BY <1>1 DEF RunnerInv, OutputsFit, Scheduled
<1>8. FollowsScheduler'
  BY DEF RunnerInv, FollowsScheduler
<1>9. QED BY <1>4, <1>5, <1>6, <1>7, <1>8 DEF RunnerInv

LEMMA TakeDraftTokenIdsStep ==
    ASSUME RunnerInv, TakeDraftTokenIds
    PROVE  RunnerInv'
<1>1. /\ turn' = "schedule"
      /\ UNCHANGED <<cfg, stage, graphs, hidden_states, draft_graphs, told, preemptions, outputs,
                     answers, slot, st, exec, last_draft, rows, draft_kv>>
  BY DEF TakeDraftTokenIds, graphVars, workerVars
<1>2. /\ \A r \in Requests : RequestOK(eng[r]) /\ eng[r].tokens \in Nat
      /\ cfg.spec \in Nat
  BY CfgTypes, RequestFields DEF RunnerInv, TypeOK
<1>3. /\ eng' = [r \in Requests |-> eng'[r]]
      /\ \A r \in Requests : eng'[r] = eng[r] \/ eng'[r] = [eng[r] EXCEPT !.spec = cfg.spec]
  BY DEF TakeDraftTokenIds
<1>4. ASSUME NEW r \in Requests
      PROVE  /\ RequestOK(eng'[r]) /\ eng'[r].status = eng[r].status
             /\ eng'[r].computed = eng[r].computed /\ eng'[r].blocks = eng[r].blocks
             /\ eng'[r].tokens = eng[r].tokens /\ eng'[r].placeholders = eng[r].placeholders
  BY <1>2, <1>3, DraftedRequest
<1>5. EngineTyped'
  BY <1>1, <1>3, <1>4, TypeParts DEF RunnerInv, EngineTyped, RequestOK
<1>6. EngineAgrees'
  <2>1. \A k, r : View(k, r)' = View(k, r)
    BY <1>1, ViewSame
  <2>2. QED BY <1>1, <1>4, <2>1 DEF RunnerInv, EngineAgrees, Owed
<1>7. TokensKnown'
  <2>1. \A r \in Requests : slot[r] # 0 => st[slot[r]].prefill <= eng'[r].tokens
    BY <1>4 DEF RunnerInv, TokensKnown
  <2>2. \A r \in Requests : eng'[r].status # "finished" =>
          eng'[r].tokens < PromptLen[r] + MaxTokens[r]
    BY <1>4 DEF RunnerInv, TokensKnown
  <2>3. \A r \in Requests : DraftsOf(r)' = DraftsOf(r)
    BY <1>1 DEF DraftsOf
  <2>4. QED BY <1>1, <1>4, <2>1, <2>2, <2>3 DEF RunnerInv, TokensKnown
<1>8. AnswersTyped' /\ Len(answers') <= Len(answers)
  BY <1>1, TypeParts, TypesSame, StateTypes DEF RunnerInv
<1>9. \A r \in Requests : eng[r].tokens <= eng'[r].tokens
  BY <1>2, <1>4
<1>10. QED BY <1>1, <1>5, <1>6, <1>7, <1>8, <1>9, EngineStep

LEMMA AbortStep ==
    ASSUME RunnerInv, NEW a \in Requests, Abort(a)
    PROVE  RunnerInv'
<1> DEFINE q == [eng[a] EXCEPT !.status = "finished", !.blocks = <<>>]
<1>1. UNCHANGED <<cfg, stage, graphs, hidden_states, draft_graphs, told, turn, preemptions,
                  outputs, answers, slot, st, exec, last_draft, rows, draft_kv>>
  BY DEF Abort, graphVars, workerVars
<1>2. /\ \A r \in Requests : RequestOK(eng[r]) /\ eng[r].tokens \in Nat
      /\ eng = [r \in Requests |-> eng[r]]
  BY RequestFields DEF RunnerInv, TypeOK
<1>3. eng' = [eng EXCEPT ![a] = q]
  BY DEF Abort
<1>4. /\ RequestOK(q) /\ q.status = "finished" /\ q.tokens = eng[a].tokens
      /\ q.placeholders = eng[a].placeholders
  BY <1>2, FinishedRequest
<1> HIDE DEF q
<1>5. /\ eng' = [r \in Requests |-> eng'[r]] /\ eng'[a] = q
      /\ \A r \in Requests : r # a => eng'[r] = eng[r]
  BY <1>2, <1>3
<1>6. ASSUME NEW r \in Requests
      PROVE  /\ RequestOK(eng'[r]) /\ eng'[r].tokens = eng[r].tokens
             /\ eng'[r].placeholders = eng[r].placeholders
             /\ eng'[r].status # "finished" => eng'[r] = eng[r]
             /\ eng[r].status = "finished" => eng'[r].status = "finished"
  BY <1>2, <1>4, <1>5
<1>7. EngineTyped'
  BY <1>1, <1>5, <1>6, TypeParts DEF RunnerInv, EngineTyped, RequestOK
<1>8. EngineAgrees'
  <2>1. \A k, r : View(k, r)' = View(k, r)
    BY <1>1, ViewSame
  <2>2. QED BY <1>1, <1>6, <2>1 DEF RunnerInv, EngineAgrees, Owed
<1>9. TokensKnown'
  <2>1. \A r \in Requests : slot[r] # 0 => st[slot[r]].prefill <= eng'[r].tokens
    BY <1>6 DEF RunnerInv, TokensKnown
  <2>2. \A r \in Requests : eng'[r].status # "finished" =>
          eng'[r].tokens < PromptLen[r] + MaxTokens[r]
    BY <1>6 DEF RunnerInv, TokensKnown
  <2>3. \A r \in Requests : DraftsOf(r)' = DraftsOf(r)
    BY <1>1 DEF DraftsOf
  <2>4. QED BY <1>1, <1>6, <2>1, <2>2, <2>3 DEF RunnerInv, TokensKnown
<1>10. AnswersTyped' /\ Len(answers') <= Len(answers)
  BY <1>1, TypeParts, TypesSame, StateTypes DEF RunnerInv
<1>11. \A r \in Requests : eng[r].tokens <= eng'[r].tokens
  BY <1>2, <1>6
<1>12. QED BY <1>1, <1>7, <1>8, <1>9, <1>10, <1>11, EngineStep

\* What update_from_output makes of a request.
LEMMA UpdatedFacts ==
    ASSUME cfg.async \in BOOLEAN, NEW q, RequestOK(q), NEW r \in Requests, NEW a,
           a.sampled \in Nat, a.rejected \in Nat, q.tokens < PromptLen[r] + MaxTokens[r]
    PROVE  LET p == Updated(q, r, a)
           IN  /\ RequestOK(p) /\ q.tokens <= p.tokens
               /\ p.status = "finished" \/
                    /\ p.tokens < PromptLen[r] + MaxTokens[r]
                    /\ p.tokens = q.tokens + a.sampled
                    /\ p.status = q.status /\ p.blocks = q.blocks
                    /\ p.computed = Most(0, q.computed - a.rejected)
                    /\ cfg.async => p.placeholders = q.placeholders - a.sampled
               /\ ~cfg.async => p.placeholders = q.placeholders
<1> DEFINE limit == PromptLen[r] + MaxTokens[r]
           kept == Least(a.sampled, limit - q.tokens)
           t == q.tokens + kept
           c == Most(0, q.computed - a.rejected)
           h == IF cfg.async THEN q.placeholders - kept ELSE q.placeholders
           u == [q EXCEPT !.tokens = t, !.computed = c, !.placeholders = h]
           f == [u EXCEPT !.status = "finished", !.blocks = <<>>]
<1>1. Updated(q, r, a) = IF u.tokens = limit THEN f ELSE u
  BY DEF Updated
<1>2. /\ q.tokens \in Nat /\ q.computed \in Nat /\ q.placeholders \in Int /\ limit \in Nat
  BY RequestFields, ConstantTypes
<1>3. kept \in Nat /\ kept <= limit - q.tokens
  BY <1>2 DEF Least
<1>4. c \in Nat
  BY <1>2 DEF Most
<1>5. h \in Int /\ (~cfg.async => h = q.placeholders)
  <2> HIDE DEF kept
  <2>1. QED BY <1>2, <1>3
<1>6. /\ t \in Nat /\ t <= limit /\ q.tokens <= t
      /\ t < limit => kept = a.sampled
  <2>1. kept = a.sampled \/ kept = limit - q.tokens
    BY DEF Least
  <2> HIDE DEF kept, limit
  <2>2. QED BY <1>2, <1>3, <2>1
<1>7. t < limit => /\ t = q.tokens + a.sampled
                   /\ cfg.async => h = q.placeholders - a.sampled
  BY <1>6
<1> HIDE DEF limit, kept, t, h
<1>8. /\ RequestOK(u) /\ u.status = q.status /\ u.computed = c /\ u.blocks = q.blocks
      /\ u.tokens = t /\ u.placeholders = h
  <2> HIDE DEF c
  <2>1. u = [q EXCEPT !.tokens = t, !.computed = c, !.placeholders = h]
    OBVIOUS
  <2> HIDE DEF u
  <2>2. t \in Nat /\ c \in Nat /\ h \in Int /\ RequestOK(q)
    BY <1>4, <1>5, <1>6
  <2>3. QED BY ONLY <2>1, <2>2 DEF RequestOK
<1> HIDE DEF u
<1>9. RequestOK(f) /\ f.status = "finished" /\ f.tokens = t /\ f.placeholders = h
  BY <1>8, FinishedRequest
<1> HIDE DEF f
<1>10. CASE t = limit
  BY <1>1, <1>5, <1>6, <1>8, <1>9, <1>10
<1>11. CASE t # limit
  <2>1. t < limit
    BY <1>2, <1>6, <1>11
  <2> HIDE DEF c
  <2>2. /\ Updated(q, r, a) = u /\ u.computed = c
    BY <1>1, <1>8, <1>11
  <2>3. QED BY <1>5, <1>6, <1>7, <1>8, <2>1, <2>2 DEF limit, c
<1>12. QED BY <1>10, <1>11

LEMMA UpdateStep ==
    ASSUME RunnerInv, Update
    PROVE  RunnerInv'
<1> DEFINE head == Head(answers)
           Live(r) == r \in DOMAIN head /\ eng[r].status \notin {"none", "finished"}
<1>1. /\ answers # <<>> /\ answers' = Tail(answers) /\ turn' \in {"drafts", turn}
      /\ UNCHANGED <<cfg, stage, graphs, hidden_states, draft_graphs, told, preemptions, outputs,
                     slot, st, exec, last_draft, rows, draft_kv>>
      /\ eng' = [r \in Requests |-> eng'[r]]
  BY DEF Update, graphVars, workerVars
<1>2. /\ \A r \in Requests : /\ RequestOK(eng[r]) /\ eng[r].tokens \in Nat
                             /\ eng[r].computed \in Nat
      /\ cfg.async \in BOOLEAN
  BY RequestFields, CfgTypes DEF RunnerInv, TypeOK
<1>3. \A r \in Requests :
        IF Live(r)
        THEN /\ RequestOK(eng'[r]) /\ head[r].sampled \in Nat /\ head[r].rejected \in Nat
             /\ eng[r].tokens <= eng'[r].tokens
             /\ eng'[r].status = "finished" \/
                  /\ eng'[r].tokens < PromptLen[r] + MaxTokens[r]
                  /\ eng'[r].tokens = eng[r].tokens + head[r].sampled
                  /\ eng'[r].status = eng[r].status /\ eng'[r].blocks = eng[r].blocks
                  /\ eng'[r].computed = Most(0, eng[r].computed - head[r].rejected)
             /\ ~cfg.async => eng'[r].placeholders = eng[r].placeholders
        ELSE eng'[r] = eng[r]
  <2>1. ASSUME NEW r \in Requests, Live(r)
        PROVE  /\ eng'[r] = Updated(eng[r], r, head[r])
               /\ head[r].sampled \in Nat /\ head[r].rejected \in Nat
               /\ eng[r].tokens < PromptLen[r] + MaxTokens[r]
    <3>1. AnswerOK(head)
      <4>1. IsSeq(answers) /\ answers # <<>> /\ \A k \in DOMAIN answers : AnswerOK(answers[k])
        BY DEF RunnerInv, TypeOK, Update
      <4>2. QED BY <4>1, TailIsSeq
    <3>2. QED BY <2>1, <3>1 DEF AnswerOK, Update, RunnerInv, TokensKnown
  <2>2. ASSUME NEW r \in Requests, ~Live(r) PROVE eng'[r] = eng[r]
    BY <2>2 DEF Update
  <2> HIDE DEF head
  <2>3. QED BY ONLY <1>2, <2>1, <2>2, UpdatedFacts
<1>4. /\ AnswersTyped' /\ Len(answers') <= Len(answers)
      /\ ~cfg.async => answers' = <<>>
      /\ \A r \in Requests : Owed(r)' = 0
  <2>1. /\ IsSeq(answers) /\ Len(answers) \in Nat /\ \A k \in DOMAIN answers : AnswerOK(answers[k])
        /\ DOMAIN answers = 1 .. Len(answers)
    BY StateTypes DEF RunnerInv, TypeOK
  <2>2. /\ IsSeq(answers') /\ Len(answers') = Len(answers) - 1
        /\ \A i \in 1 .. Len(answers) - 1 : answers'[i] = answers[i + 1]
    BY <1>1, <2>1, TailIsSeq
  <2>3. /\ Len(answers') \in Nat /\ DOMAIN answers' = 1 .. Len(answers')
        /\ answers' = <<>> <=> Len(answers') = 0
    BY <2>2, IsSeqFacts
  <2>4. \A k \in DOMAIN answers' : k + 1 \in DOMAIN answers /\ answers'[k] = answers[k + 1]
    BY <2>1, <2>2, <2>3
  <2>5. \A k \in DOMAIN answers' : AnswerOK(answers'[k])
    BY <2>1, <2>4
  <2>6. AnswersTyped'
    BY <1>1, <2>2, <2>5 DEF AnswersTyped, AnswerOK
  <2>7. ~cfg.async => answers' = <<>>
    <3>1. ~cfg.async => Len(outputs) + Len(answers) <= 1 /\ Len(outputs) \in Nat
      BY PipelineFacts, StateTypes DEF RunnerInv
    <3>2. QED BY <2>1, <2>2, <2>3, <3>1
  <2>8. ASSUME NEW r \in Requests PROVE Owed(r)' = 0
    <3>1. CASE answers' = <<>>
      BY <3>1 DEF Owed
    <3>2. CASE answers' # <<>>
      <4>1. Head(answers') = answers'[1] /\ 1 \in DOMAIN answers'
        BY <2>2, <3>2, TailIsSeq
      <4>2. AnswerOK(Head(answers')) /\ cfg.async
        BY <1>2, <2>5, <2>7, <3>2, <4>1
      <4>3. QED BY <4>2 DEF Owed, AnswerOK
    <3>3. QED BY <3>1, <3>2
  <2>9. Len(answers') <= Len(answers)
    BY <2>1, <2>2
  <2>10. QED BY <2>6, <2>7, <2>8, <2>9
<1> HIDE DEF head
<1>5. EngineTyped'
  <2>1. \A r \in Requests : RequestOK(eng'[r])
    BY <1>2, <1>3
  <2>2. EngineTyped
    BY TypeParts DEF RunnerInv
  <2>3. QED BY <1>1, <2>1, <2>2 DEF EngineTyped, RequestOK
<1>6. EngineAgrees'
  <2>1. \A k, r : View(k, r)' = View(k, r)
    BY <1>1, ViewSame
  <2> SUFFICES ASSUME NEW r \in Requests
               PROVE  LET v == View(Len(outputs), r) IN
                      /\ v.computed \in Nat
                      /\ eng'[r].status = "running" =>
                           v.has /\ v.blocks = eng'[r].blocks /\ v.computed = eng'[r].computed
                      /\ eng'[r].status \in {"none", "preempted"} =>
                           ~v.has /\ eng'[r].computed = 0 /\ eng'[r].blocks = <<>>
                      /\ r \in told => ~v.has /\ eng'[r].status = "finished"
    <3>1. \A n \in Nat : n - 0 = n
      OBVIOUS
    <3>2. \A r \in Requests : eng'[r].computed \in Nat
      BY <1>5, RequestFields DEF EngineTyped, RequestOK
    <3>3. QED BY <1>1, <1>4, <2>1, <3>1, <3>2 DEF EngineAgrees
  <2> DEFINE v == View(Len(outputs), r)
  <2>2. /\ v.computed \in Nat
        /\ eng[r].status = "running" =>
             v.has /\ v.blocks = eng[r].blocks /\ v.computed = eng[r].computed - Owed(r)
        /\ eng[r].status \in {"none", "preempted"} =>
             ~v.has /\ eng[r].computed = 0 /\ eng[r].blocks = <<>>
        /\ r \in told => ~v.has /\ eng[r].status = "finished"
    BY DEF RunnerInv, EngineAgrees
  <2> HIDE DEF v
  <2>3. CASE Live(r)
    <3>1. Owed(r) = head[r].rejected
      BY <1>1, <2>3 DEF Owed, head
    <3>2. eng[r].status = "running" => Most(0, eng[r].computed - head[r].rejected) = v.computed
      BY <1>2, <1>3, <2>2, <2>3, <3>1 DEF Most
    <3>3. eng[r].computed = 0 => Most(0, eng[r].computed - head[r].rejected) = 0
      BY <1>2, <1>3, <2>3 DEF Most
    <3>4. QED BY <1>3, <2>2, <2>3, <3>2, <3>3 DEF v
  <2>4. CASE ~Live(r)
    <3>1. eng'[r] = eng[r]
      BY <1>3, <2>4
    <3>2. eng[r].status = "running" => Owed(r) = 0
      BY <1>1, <2>4 DEF Owed, head
    <3>3. eng[r].computed - 0 = eng[r].computed
      BY <1>2
    <3>4. QED BY <2>2, <3>1, <3>2, <3>3 DEF v
  <2>5. QED BY <2>3, <2>4
<1>7. TokensKnown'
  <2>1. \A r \in Requests : slot[r] # 0 => st[slot[r]].prefill <= eng'[r].tokens
    <3> SUFFICES ASSUME NEW r \in Requests, slot[r] # 0
                 PROVE  st[slot[r]].prefill <= eng'[r].tokens
      OBVIOUS
    <3>1. st[slot[r]].prefill <= eng[r].tokens
      BY DEF RunnerInv, TokensKnown
    <3>2. st[slot[r]].prefill \in Nat /\ eng[r].tokens \in Nat /\ eng'[r].tokens \in Nat
      <4>1. slot[r] \in Slots
        BY StateTypes, ConstantTypes DEF RunnerInv, Slots
      <4>2. StateOK(st[slot[r]])
        BY <4>1, TypeParts DEF RunnerInv, SlotsTyped
      <4>3. QED BY <1>2, <1>5, <4>2, SlotFields, RequestFields DEF EngineTyped, RequestOK
    <3>3. eng[r].tokens <= eng'[r].tokens
      BY <1>2, <1>3
    <3>4. QED BY <3>1, <3>2, <3>3
  <2>2. \A r \in Requests : eng'[r].status # "finished" =>
          eng'[r].tokens < PromptLen[r] + MaxTokens[r]
    BY <1>3 DEF RunnerInv, TokensKnown
  <2>3. ~cfg.async => \A r \in Requests : eng'[r].placeholders = 0
    BY <1>3 DEF RunnerInv, TokensKnown
  <2>4. ASSUME ~cfg.async, NEW r \in Requests, eng'[r].status = "running"
        PROVE  eng'[r].computed - DraftsOf(r)' <= eng'[r].tokens
    <3>1. outputs = <<>> /\ exec = <<>>
      BY <1>1, <2>4, PipelineFacts DEF RunnerInv
    <3>2. DraftsOf(r) = 0 /\ DraftsOf(r)' = 0
      <4>1. DOMAIN exec = {}
        BY <3>1
      <4>2. QED BY <1>1, <3>1, <4>1 DEF DraftsOf
    <3>3. IF r \in DOMAIN head
          THEN eng[r].computed - head[r].rejected
                 <= eng[r].tokens + Most(0, head[r].sampled - 1)
          ELSE eng[r].computed - DraftsOf(r) <= eng[r].tokens
      <4>1. eng[r].status = "running"
        BY <1>3, <2>4
      <4>2. QED BY <1>1, <2>4, <4>1 DEF RunnerInv, TokensKnown, head
    <3>4. CASE Live(r)
      <4>1. /\ eng'[r].tokens = eng[r].tokens + head[r].sampled
            /\ eng'[r].computed = Most(0, eng[r].computed - head[r].rejected)
            /\ head[r].sampled \in Nat /\ head[r].rejected \in Nat
        BY <1>3, <2>4, <3>4
      <4>2. QED BY <1>2, <3>2, <3>3, <3>4, <4>1 DEF Most
    <3>5. CASE ~Live(r)
      <4>1. eng'[r] = eng[r] /\ r \notin DOMAIN head
        BY <1>3, <2>4, <3>5
      <4>2. QED BY <3>2, <3>3, <4>1
    <3>6. QED BY <3>4, <3>5
  <2>5. ~cfg.async => answers' = <<>>
    BY <1>4
  <2>6. QED BY <1>1, <2>1, <2>2, <2>3, <2>4, <2>5 DEF TokensKnown
<1>8. \A r \in Requests : eng[r].tokens <= eng'[r].tokens
  BY <1>2, <1>3
<1>9. QED BY <1>1, <1>4, <1>5, <1>6, <1>7, <1>8, EngineStep

--------------------------------------------------------------------------------
(* sample_tokens *)

LEMMA RowFacts ==
    ASSUME RunnerInv, NEW n \in DOMAIN exec
    PROVE  LET b == exec[n]
           IN  /\ b.r \in Requests /\ b.slot = slot[b.r] /\ b.slot \in Slots
               /\ StateOK(st[b.slot]) /\ b.start = st[b.slot].computed
               /\ b.prefill = st[b.slot].prefill /\ b.start \in Nat /\ b.num \in Nat
               /\ b.num > 0 /\ b.drafts \in Nat /\ b.drafts <= b.num /\ Accepted(b) \in Nat
               /\ Accepted(b) <= b.drafts /\ (cfg.async => b.drafts = 0)
               /\ Sampled(b) \in Nat /\ Rejected(b) \in Nat /\ Rejected(b) <= b.drafts
               /\ ValidEnd(b) = b.start + b.num - Rejected(b) /\ ValidEnd(b) \in Nat
               /\ cfg.async => Rejected(b) = 0
               /\ ~Chunked(b) => Sampled(b) = Accepted(b) + 1 /\ Rejected(b) = b.drafts - Accepted(b)
               /\ Chunked(b) => Sampled(b) = 0 /\ Rejected(b) = 0
<1> DEFINE b == exec[n]
<1>1. RowOK(b)
  BY DEF RunnerInv, TypeOK
<1> HIDE DEF b
<1>2. b.r \in Requests /\ b.slot = slot[b.r] /\ b.slot \in Slots
  <2>1. b.r \in Requests /\ slot[b.r] # 0 /\ b.slot = slot[b.r] /\ slot[b.r] \in 0 .. MaxNumReqs
    BY <1>1 DEF RowOK, RunnerInv, TypeOK
  <2>2. QED BY <2>1, ConstantTypes DEF Slots
<1>3. StateOK(st[b.slot]) /\ b.start = st[b.slot].computed /\ b.prefill = st[b.slot].prefill
  BY <1>1, <1>2 DEF RowOK, RunnerInv, TypeOK
<1>4. /\ b.start \in Nat /\ b.num \in Nat /\ b.num > 0 /\ b.drafts \in Nat /\ b.drafts <= b.num
      /\ b.guess.hits \in Nat /\ (cfg.async => b.drafts = 0)
  BY <1>1, <1>3, SlotFields DEF RowOK
<1>5. Accepted(b) \in Nat /\ Accepted(b) <= b.drafts
  BY <1>4 DEF Accepted, Least
<1>6. /\ ~Chunked(b) => Sampled(b) = Accepted(b) + 1 /\ Rejected(b) = b.drafts - Accepted(b)
      /\ Chunked(b) => Sampled(b) = 0 /\ Rejected(b) = 0
  BY DEF Sampled, Rejected
<1>7. Sampled(b) \in Nat /\ Rejected(b) \in Nat /\ Rejected(b) <= b.drafts
  BY <1>4, <1>5, <1>6
<1>8. ValidEnd(b) = b.start + b.num - Rejected(b) /\ ValidEnd(b) \in Nat
  BY <1>4, <1>7 DEF ValidEnd
<1>9. cfg.async => Rejected(b) = 0
  BY <1>4, <1>7
<1>10. QED BY <1>2, <1>3, <1>4, <1>5, <1>6, <1>7, <1>8, <1>9 DEF b

\* No two rows share a request or a slot.
LEMMA RowsDistinct ==
    ASSUME RunnerInv, NEW m \in DOMAIN exec, NEW n \in DOMAIN exec,
           exec[m].r = exec[n].r \/ exec[m].slot = exec[n].slot
    PROVE  m = n
<1>1. /\ exec[m].slot = slot[exec[m].r] /\ exec[n].slot = slot[exec[n].r]
      /\ exec[m].r \in Requests /\ exec[n].r \in Requests
      /\ slot[exec[m].r] # 0 /\ slot[exec[n].r] # 0
  BY DEF RunnerInv, TypeOK, RowOK
<1>2. exec[m].r = exec[n].r
  BY <1>1 DEF RunnerInv, Pipeline
<1>3. QED BY <1>2 DEF RunnerInv, Pipeline

\* What a step leaves in the slots.
LEMMA SampledSlots ==
    ASSUME RunnerInv, SampleTokens
    PROVE  /\ st' = [i \in Slots |-> st'[i]]
           /\ \A n \in DOMAIN exec :
                LET s == st[exec[n].slot]
                    t == st'[exec[n].slot]
                IN  /\ StateOK(t) /\ t.prefill = s.prefill /\ t.blocks = s.blocks
                    /\ t.computed = ValidEnd(exec[n])
                    /\ Sampled(exec[n]) > 0 => t.last = <<exec[n].r, ValidEnd(exec[n])>>
                    /\ cfg.spec # 0 => /\ t.draft.r = exec[n].r
                                       /\ t.draft.pos = ValidEnd(exec[n]) + 1
           /\ \A i \in Slots : (\A n \in DOMAIN exec : exec[n].slot # i) => st'[i] = st[i]
<1> DEFINE b == exec
           at(i) == CHOOSE n \in DOMAIN b : b[n].slot = i
           after == [i \in Slots |-> IF \E n \in DOMAIN b : b[n].slot = i
                                     THEN AfterStep(st[i], b[at(i)]) ELSE st[i]]
           D == cfg.hits
<1>1. \A n \in DOMAIN exec : at(exec[n].slot) = n
  <2> SUFFICES ASSUME NEW n \in DOMAIN exec PROVE at(exec[n].slot) = n
    OBVIOUS
  <2>1. at(exec[n].slot) \in DOMAIN exec /\ exec[at(exec[n].slot)].slot = exec[n].slot
    OBVIOUS
  <2> HIDE DEF at
  <2>2. QED BY <2>1, RowsDistinct
<1>2. ASSUME NEW n \in DOMAIN exec
      PROVE  LET s == st[exec[n].slot]
                 t == after[exec[n].slot]
             IN  /\ exec[n].slot \in Slots
                 /\ StateOK(t) /\ t.prefill = s.prefill /\ t.blocks = s.blocks
                 /\ t.computed = ValidEnd(exec[n])
                 /\ Sampled(exec[n]) > 0 => t.last = <<exec[n].r, ValidEnd(exec[n])>>
  <2>1. /\ exec[n].slot \in Slots /\ StateOK(st[exec[n].slot]) /\ ValidEnd(exec[n]) \in Nat
    BY RowFacts
  <2>2. after[exec[n].slot] = AfterStep(st[exec[n].slot], exec[n])
    <3>1. after[exec[n].slot] = AfterStep(st[exec[n].slot], exec[at(exec[n].slot)])
      BY <2>1
    <3> HIDE DEF at, after
    <3>2. QED BY <1>1, <3>1
  <2> HIDE DEF after, at
  <2>3. QED BY <2>1, <2>2, SlotAfterStep
<1>3. \A i \in Slots : (\A n \in DOMAIN exec : exec[n].slot # i) => after[i] = st[i]
  OBVIOUS
<1>4. CASE cfg.spec = 0
  <2>1. st' = after
    BY <1>4 DEF SampleTokens
  <2>2. after = [i \in Slots |-> after[i]]
    OBVIOUS
  <2> HIDE DEF after
  <2>3. QED BY <1>2, <1>3, <1>4, <2>1, <2>2
<1>5. CASE cfg.spec # 0
  <2>1. PICK hits \in [DOMAIN b -> D] :
          st' = [i \in Slots |->
                   IF \E n \in DOMAIN b : b[n].slot = i
                   THEN [after[i] EXCEPT !.draft =
                           [r |-> b[at(i)].r, pos |-> ValidEnd(b[at(i)]) + 1, hits |-> hits[at(i)]]]
                   ELSE after[i]]
    BY <1>5 DEF SampleTokens
  <2> DEFINE draft(i) == [r |-> b[at(i)].r, pos |-> ValidEnd(b[at(i)]) + 1, hits |-> hits[at(i)]]
  <2>2. D \subseteq Nat
    BY CfgTypes DEF RunnerInv
  <2> HIDE DEF after, D
  <2>3. ASSUME NEW n \in DOMAIN exec
        PROVE  LET s == st[exec[n].slot]
                   t == st'[exec[n].slot]
               IN  /\ StateOK(t) /\ t.prefill = s.prefill /\ t.blocks = s.blocks
                   /\ t.computed = ValidEnd(exec[n])
                   /\ Sampled(exec[n]) > 0 => t.last = <<exec[n].r, ValidEnd(exec[n])>>
                   /\ t.draft.r = exec[n].r /\ t.draft.pos = ValidEnd(exec[n]) + 1
    <3> DEFINE i == exec[n].slot
               d == draft(i)
               t == st'[i]
    <3>1. i \in Slots /\ at(i) = n
      BY <1>1, <1>2
    <3>2. t = [after[i] EXCEPT !.draft = d]
      BY <2>1, <3>1
    <3>3. d.hits \in Nat
      <4>1. d.hits = hits[at(i)]
        OBVIOUS
      <4>2. QED BY <2>1, <2>2, <3>1, <4>1
    <3>4. StateOK(after[i])
      BY <1>2
    <3>5. d.r = exec[n].r /\ d.pos = ValidEnd(exec[n]) + 1
      <4>1. d = [r |-> b[at(i)].r, pos |-> ValidEnd(b[at(i)]) + 1, hits |-> hits[at(i)]]
        OBVIOUS
      <4> HIDE DEF at, d
      <4>2. QED BY <3>1, <4>1
    <3> HIDE DEF d, t, i
    <3>6. /\ StateOK(t) /\ t.prefill = after[i].prefill /\ t.computed = after[i].computed
          /\ t.blocks = after[i].blocks /\ t.last = after[i].last /\ t.draft = d
      BY <3>2, <3>3, <3>4, SlotWithDraft
    <3>7. QED BY <1>2, <3>5, <3>6 DEF i, t
  <2>4. \A i \in Slots : (\A n \in DOMAIN exec : exec[n].slot # i) => st'[i] = st[i]
    BY <1>3, <2>1
  <2>5. st' = [i \in Slots |-> st'[i]]
    BY <2>1
  <2>6. QED BY <2>3, <2>4, <2>5
<1>6. QED BY <1>4, <1>5

\* The answer of a step.
LEMMA SampledAnswer ==
    ASSUME RunnerInv, SampleTokens
    PROVE  \E g : /\ answers' = Append(answers, g)
                  /\ DOMAIN g = {exec[n].r : n \in DOMAIN exec}
                  /\ \A n \in DOMAIN exec : /\ g[exec[n].r].sampled = Sampled(exec[n])
                                            /\ g[exec[n].r].rejected = Rejected(exec[n])
<1> DEFINE of(r) == CHOOSE n \in DOMAIN exec : exec[n].r = r
           g == [r \in {exec[n].r : n \in DOMAIN exec} |->
                   [sampled |-> Sampled(exec[of(r)]), rejected |-> Rejected(exec[of(r)])]]
<1>1. answers' = Append(answers, g)
  BY DEF SampleTokens
<1>2. \A n \in DOMAIN exec : of(exec[n].r) = n
  <2> SUFFICES ASSUME NEW n \in DOMAIN exec PROVE of(exec[n].r) = n
    OBVIOUS
  <2>1. of(exec[n].r) \in DOMAIN exec /\ exec[of(exec[n].r)].r = exec[n].r
    OBVIOUS
  <2> HIDE DEF of
  <2>2. QED BY <2>1, RowsDistinct
<1>3. \A n \in DOMAIN exec : /\ g[exec[n].r].sampled = Sampled(exec[n])
                             /\ g[exec[n].r].rejected = Rejected(exec[n])
  <2> SUFFICES ASSUME NEW n \in DOMAIN exec
               PROVE  g[exec[n].r].sampled = Sampled(exec[n]) /\ g[exec[n].r].rejected = Rejected(exec[n])
    OBVIOUS
  <2> DEFINE a(m) == [sampled |-> Sampled(exec[m]), rejected |-> Rejected(exec[m])]
  <2>1. g[exec[n].r] = a(of(exec[n].r))
    OBVIOUS
  <2>2. g[exec[n].r] = a(n)
    <3> HIDE DEF of, g, a
    <3>1. QED BY <1>2, <2>1
  <2> HIDE DEF g
  <2>3. QED BY <2>2
<1>4. DOMAIN g = {exec[n].r : n \in DOMAIN exec}
  OBVIOUS
<1> HIDE DEF g
<1>5. QED BY <1>1, <1>3, <1>4

LEMMA SampledBuffers ==
    ASSUME RunnerInv, SampleTokens
    PROVE  BuffersTyped'
<1>1. BuffersTyped
  BY TypeParts DEF RunnerInv
<1>2. CASE cfg.spec = 0
  <2>1. rows' = rows
    BY <1>2 DEF SampleTokens
  <2>2. QED BY <1>1, <2>1, TypesSame
<1>3. CASE cfg.spec # 0
  <2>1. rows' = Prepared(exec)
    BY <1>3 DEF SampleTokens
  <2>2. ASSUME NEW i \in Slots
        PROVE  rows'[i] \in [len : {rows'[i].len}, draft_len : {rows'[i].draft_len},
                             map : {rows'[i].map}, slots : {rows'[i].slots}]
    <3> DEFINE len == Least(ValidEnd(exec[i]) + cfg.spec, MaxModelLen)
               map == exec[i].slot
               slots == QuerySlots(exec[i])
               row == IF i > Len(exec) THEN PadRow(rows[i])
                      ELSE [rows[i] EXCEPT !.len = len, !.map = map, !.slots = slots]
               draft == DraftLens(row, i, Len(exec), DraftSize(Len(exec)))
    <3>1. rows'[i] = [row EXCEPT !.draft_len = draft]
      BY <2>1 DEF Prepared
    <3>2. rows[i] \in [len : {rows[i].len}, draft_len : {rows[i].draft_len},
                       map : {rows[i].map}, slots : {rows[i].slots}]
      BY <1>1 DEF BuffersTyped
    <3> HIDE DEF len, map, slots
    <3>3. \/ row \in [len : {0}, draft_len : {rows[i].draft_len}, map : {0}, slots : {{}}]
          \/ row \in [len : {len}, draft_len : {rows[i].draft_len}, map : {map}, slots : {slots}]
      BY <3>2 DEF PadRow
    <3> HIDE DEF row, draft
    <3>4. QED BY <3>1, <3>3
  <2>3. rows' = [i \in Slots |-> rows'[i]]
    BY <2>1 DEF Prepared
  <2>4. QED BY <2>2, <2>3 DEF BuffersTyped
<1>4. QED BY <1>2, <1>3

\* What the worker has after a step: rejected drafts are taken back.
LEMMA SampledHeld ==
    ASSUME RunnerInv, SampleTokens, NEW r \in Requests
    PROVE  /\ Held(r)'.has = Held(r).has /\ Held(r)'.blocks = Held(r).blocks
           /\ \A n \in DOMAIN exec : exec[n].r = r =>
                /\ Held(r).computed = exec[n].start + exec[n].num
                /\ Held(r)'.computed = exec[n].start + exec[n].num - Rejected(exec[n])
                /\ Rejected(exec[n]) = 0 => Held(r)' = Held(r)
           /\ (\A n \in DOMAIN exec : exec[n].r # r) => Held(r)' = Held(r)
           /\ slot[r] # 0 => slot[r] \in Slots /\ st'[slot[r]].prefill = st[slot[r]].prefill
<1>1. slot' = slot /\ exec' = <<>> /\ DOMAIN <<>> = {}
  BY DEF SampleTokens
<1>2. \A i \in Slots : StateOK(st[i])
  BY DEF RunnerInv, TypeOK
<1>3. CASE slot[r] = 0
  <2>1. \A n \in DOMAIN exec : exec[n].r # r
    BY <1>3, ConstantTypes, RowFacts DEF Slots
  <2>2. QED BY <1>1, <1>3, <2>1 DEF Held, Absent
<1>4. CASE slot[r] # 0
  <2>1. slot[r] \in Slots
    BY <1>4, StateTypes, ConstantTypes DEF RunnerInv, Slots
  <2>2. Held(r)' = [has |-> TRUE, computed |-> st'[slot[r]].computed + 0,
                    blocks |-> st'[slot[r]].blocks]
    BY <1>1, <1>4 DEF Held, Batched
  <2>3. Held(r) = [has |-> TRUE, computed |-> st[slot[r]].computed + Batched(r),
                   blocks |-> st[slot[r]].blocks]
    BY <1>4 DEF Held
  <2>4. CASE \E n \in DOMAIN exec : exec[n].r = r
    <3>1. PICK n \in DOMAIN exec : exec[n].r = r
      BY <2>4
    <3> DEFINE e == exec[n]
    <3>2. \A m \in DOMAIN exec : exec[m].r = r => m = n
      BY <3>1, RowsDistinct
    <3>3. Batched(r) = e.num
      BY <3>1, <3>2 DEF Batched
    <3>4. /\ e.slot = slot[r] /\ e.start = st[slot[r]].computed /\ ValidEnd(e) \in Nat
          /\ ValidEnd(e) = e.start + e.num - Rejected(e)
      BY <3>1, RowFacts
    <3>5. /\ st'[slot[r]].prefill = st[slot[r]].prefill /\ st'[slot[r]].blocks = st[slot[r]].blocks
          /\ st'[slot[r]].computed = ValidEnd(e)
      BY <3>4, SampledSlots
    <3> HIDE DEF e
    <3>6. /\ Held(r).computed = e.start + e.num /\ Held(r)'.computed = e.start + e.num - Rejected(e)
      BY <2>2, <2>3, <3>3, <3>4, <3>5
    <3>7. Rejected(e) = 0 => Held(r)' = Held(r)
      <4>1. e.start \in Nat /\ e.num \in Nat
        BY RowFacts DEF e
      <4>2. Rejected(e) = 0 => st'[slot[r]].computed + 0 = st[slot[r]].computed + Batched(r)
        BY <3>3, <3>4, <3>5, <4>1
      <4>3. QED BY <2>2, <2>3, <3>5, <4>2
    <3>8. QED BY <2>1, <2>2, <2>3, <2>4, <3>2, <3>5, <3>6, <3>7 DEF e
  <2>5. CASE \A n \in DOMAIN exec : exec[n].r # r
    <3>1. \A n \in DOMAIN exec : exec[n].slot # slot[r]
      <4> SUFFICES ASSUME NEW n \in DOMAIN exec, exec[n].slot = slot[r] PROVE FALSE
        OBVIOUS
      <4>1. exec[n].r \in Requests /\ slot[exec[n].r] = slot[r]
        BY RowFacts
      <4>2. exec[n].r = r
        BY <1>4, <4>1 DEF RunnerInv, Pipeline
      <4>3. QED BY <2>5, <4>2
    <3>2. st'[slot[r]] = st[slot[r]]
      BY <2>1, <3>1, SampledSlots
    <3>3. Batched(r) = 0
      BY <2>5 DEF Batched
    <3>4. QED BY <2>1, <2>2, <2>3, <2>5, <3>2, <3>3
  <2>6. QED BY <2>4, <2>5
<1>5. QED BY <1>3, <1>4

LEMMA SampleTokensStep ==
    ASSUME RunnerInv, SampleTokens
    PROVE  RunnerInv'
<1>1. /\ exec # <<>> /\ exec' = <<>>
      /\ UNCHANGED <<cfg, stage, graphs, hidden_states, draft_graphs, eng, told, turn,
                     preemptions, outputs, slot>>
  BY DEF SampleTokens, graphVars, engineVars
<1>2. /\ cfg.async \in BOOLEAN /\ cfg.spec \in Nat
      /\ Len(outputs) \in Nat /\ Len(answers) \in Nat /\ IsSeq(answers)
      /\ answers = <<>> <=> Len(answers) = 0
      /\ outputs = <<>> <=> Len(outputs) = 0
      /\ \A r \in Requests : eng[r].tokens \in Nat /\ eng[r].computed \in Nat
  BY CfgTypes, StateTypes DEF RunnerInv
<1>3. PICK g : /\ answers' = Append(answers, g)
               /\ DOMAIN g = {exec[n].r : n \in DOMAIN exec}
               /\ \A n \in DOMAIN exec : /\ g[exec[n].r].sampled = Sampled(exec[n])
                                         /\ g[exec[n].r].rejected = Rejected(exec[n])
  BY SampledAnswer
<1>4. AnswerOK(g)
  <2>1. \A r \in DOMAIN g : \E n \in DOMAIN exec : r = exec[n].r
    BY <1>3
  <2>2. \A n \in DOMAIN exec : /\ exec[n].r \in Requests /\ Sampled(exec[n]) \in Nat
                               /\ Rejected(exec[n]) \in Nat
                               /\ cfg.async => Rejected(exec[n]) = 0
    BY RowFacts
  <2>3. QED BY <1>3, <2>1, <2>2 DEF AnswerOK
<1>5. /\ IsSeq(answers') /\ Len(answers') = Len(answers) + 1
      /\ DOMAIN answers' = 1 .. Len(answers) + 1
      /\ \A i \in 1 .. Len(answers) : answers'[i] = answers[i]
      /\ answers'[Len(answers) + 1] = g
      /\ answers = <<>> => Head(answers') = g
      /\ answers # <<>> => Head(answers') = Head(answers)
      /\ answers' # <<>>
  <2>1. /\ IsSeq(answers') /\ Len(answers') = Len(answers) + 1
        /\ \A i \in 1 .. Len(answers) : answers'[i] = answers[i]
        /\ answers'[Len(answers) + 1] = g
        /\ answers = <<>> => Head(answers') = g
        /\ answers # <<>> => Head(answers') = Head(answers)
    BY <1>2, <1>3, AppendIsSeq
  <2>2. DOMAIN answers' = 1 .. Len(answers') /\ (answers' = <<>> <=> Len(answers') = 0)
    BY <2>1, IsSeqFacts
  <2>3. QED BY <1>2, <2>1, <2>2
<1>6. AnswersTyped'
  <2>1. \A k \in 1 .. Len(answers) : AnswerOK(answers[k])
    BY StateTypes DEF RunnerInv, TypeOK
  <2>2. \A k \in DOMAIN answers' : k \in 1 .. Len(answers) \/ k = Len(answers) + 1
    BY <1>2, <1>5
  <2>3. \A k \in DOMAIN answers' : AnswerOK(answers'[k])
    BY <1>4, <1>5, <2>1, <2>2
  <2>4. QED BY <1>1, <1>5, <2>3 DEF AnswersTyped, AnswerOK
<1>7. SlotsTyped'
  <2>1. st' = [i \in Slots |-> st'[i]]
    BY SampledSlots
  <2>2. \A i \in Slots : StateOK(st[i])
    BY DEF RunnerInv, TypeOK
  <2>3. \A i \in Slots : StateOK(st'[i])
    BY <2>2, SampledSlots
  <2>4. QED BY <1>1, <2>1, <2>3 DEF RunnerInv, TypeOK, SlotsTyped, StateOK
<1>8. RowsTyped'
  BY <1>1, EmptyIsSeq, IsSeqFacts DEF RowsTyped
<1>9. TypeOK'
  BY <1>1, <1>6, <1>7, <1>8, SampledBuffers, TypeParts, TypePartsNext, TypesSame DEF RunnerInv
<1>10. GraphsCaptured'
  BY <1>1 DEF RunnerInv, GraphsCaptured, GraphSizes, UpperBound
<1>11. cfg.async => \A r \in Requests : Held(r)' = Held(r)
  <2> SUFFICES ASSUME cfg.async, NEW r \in Requests PROVE Held(r)' = Held(r)
    OBVIOUS
  <2>1. \A n \in DOMAIN exec : Rejected(exec[n]) = 0
    BY RowFacts
  <2>2. QED BY <2>1, SampledHeld
<1>12. cfg.async => \A k, r : r \in Requests => View(k, r)' = View(k, r)
  <2> SUFFICES ASSUME cfg.async, NEW k, NEW r \in Requests PROVE View(k, r)' = View(k, r)
    OBVIOUS
  <2>1. Held(r)' = Held(r) /\ outputs' = outputs
    BY <1>1, <1>11
  <2>2. QED BY <2>1 DEF View, AfterOutput, Removed, Scheduled, Absent
<1>13. ~cfg.async => outputs = <<>> /\ answers = <<>>
  BY <1>1, PipelineFacts DEF RunnerInv
<1>14. \A k \in 0 .. Len(outputs), r \in Requests : View(k, r)'.has = View(k, r).has
  <2>1. CASE cfg.async
    BY <1>12, <2>1
  <2>2. CASE ~cfg.async
    <3>1. \A k \in 0 .. Len(outputs) : k = 0
      BY <1>2, <1>13, <2>2
    <3>2. \A r \in Requests : View(0, r) = Held(r) /\ View(0, r)' = Held(r)'
      BY DEF View
    <3>3. \A r \in Requests : Held(r)'.has = Held(r).has
      BY SampledHeld
    <3>4. QED BY <3>1, <3>2, <3>3
  <2>3. QED BY <1>2, <2>1, <2>2
<1>15. Pipeline'
  <2>1. Len(outputs) + Len(answers') + 0 <= (IF cfg.async THEN 2 ELSE 1)
    <3>1. Len(outputs) + Len(answers) + 1 <= (IF cfg.async THEN 2 ELSE 1)
      BY <1>1 DEF RunnerInv, Pipeline
    <3>2. QED BY <1>2, <1>5, <3>1
  <2>2. \A k \in 0 .. Len(outputs) :
          {r \in Requests : View(k, r).has}' = {r \in Requests : View(k, r).has}
    BY <1>14
  <2>3. \A k \in 0 .. Len(outputs) : Cardinality({r \in Requests : View(k, r).has})' <= MaxNumReqs
    BY <2>2 DEF RunnerInv, Pipeline
  <2>4. DOMAIN exec' = {}
    BY <1>1
  <2>5. \A r, s \in Requests : slot[r] = slot[s] /\ slot[r] # 0 => r = s
    BY DEF RunnerInv, Pipeline
  <2>6. QED BY <1>1, <2>1, <2>3, <2>4, <2>5 DEF Pipeline
<1>16. OutputsFit'
  <2>1. CASE cfg.async
    <3>1. \A k \in DOMAIN outputs : \A r \in Scheduled(outputs[k]) :
             View(k - 1, r)' = View(k - 1, r)
      BY <1>12, <2>1 DEF Scheduled
    <3>2. \A o : Scheduled(o)' = Scheduled(o)
      BY DEF Scheduled
    <3> SUFFICES ASSUME NEW k \in DOMAIN outputs, NEW r \in Scheduled(outputs[k])
                 PROVE  LET o == outputs[k]
                        IN  IF r \in o.new
                            THEN ~View(k - 1, r)'.has /\ o.computed[r] = 0
                                 /\ o.table[r] = o.blocks[r]
                            ELSE /\ View(k - 1, r)'.has
                                 /\ o.computed[r] = View(k - 1, r)'.computed
                                 /\ o.table[r] = View(k - 1, r)'.blocks \o o.blocks[r]
      BY <1>1, <3>2 DEF OutputsFit
    <3>3. View(k - 1, r)' = View(k - 1, r)
      BY <3>1
    <3>4. QED BY <3>3 DEF RunnerInv, OutputsFit
  <2>2. CASE ~cfg.async
    BY <1>1, <1>13, <2>2 DEF OutputsFit
  <2>3. QED BY <1>2, <2>1, <2>2
<1>17. EngineAgrees'
  <2>1. CASE cfg.async
    <3>1. \A r \in Requests : View(Len(outputs), r)' = View(Len(outputs), r)
      BY <1>1, <1>12, <2>1
    <3>2. \A r \in Requests : Owed(r) = 0
      BY <2>1, OwedFacts DEF RunnerInv
    <3>3. \A r \in Requests : Owed(r)' = 0
      <4>1. AnswerOK(Head(answers'))
        <5>1. answers # <<>> => AnswerOK(Head(answers))
          BY TailIsSeq DEF RunnerInv, TypeOK
        <5>2. QED BY <1>4, <1>5, <5>1
      <4>2. QED BY <2>1, <4>1 DEF Owed, AnswerOK
    <3>4. QED BY <1>1, <3>1, <3>2, <3>3 DEF RunnerInv, EngineAgrees
  <2>2. CASE ~cfg.async
    <3>1. Len(outputs) = 0 /\ answers = <<>> /\ Len(outputs)' = 0
      BY <1>1, <1>2, <1>13, <2>2
    <3> SUFFICES ASSUME NEW r \in Requests
                 PROVE  LET v == Held(r)' IN
                        /\ v.computed \in Nat
                        /\ eng[r].status = "running" =>
                             v.has /\ v.blocks = eng[r].blocks
                                   /\ v.computed = eng[r].computed - Owed(r)'
                        /\ eng[r].status \in {"none", "preempted"} =>
                             ~v.has /\ eng[r].computed = 0 /\ eng[r].blocks = <<>>
                        /\ r \in told => ~v.has /\ eng[r].status = "finished"
      <4>1. \A r \in Requests : View(Len(outputs), r)' = Held(r)'
        BY <3>1 DEF View
      <4>2. QED BY <1>1, <4>1 DEF EngineAgrees
    <3>2. /\ Held(r).computed \in Nat
          /\ eng[r].status = "running" =>
               Held(r).has /\ Held(r).blocks = eng[r].blocks /\ Held(r).computed = eng[r].computed
          /\ eng[r].status \in {"none", "preempted"} =>
               ~Held(r).has /\ eng[r].computed = 0 /\ eng[r].blocks = <<>>
          /\ r \in told => ~Held(r).has /\ eng[r].status = "finished"
      <4>1. View(Len(outputs), r) = Held(r)
        BY <3>1 DEF View
      <4>2. Owed(r) = 0 /\ eng[r].computed - 0 = eng[r].computed
        BY <1>2, <3>1 DEF Owed
      <4>3. QED BY <4>1, <4>2 DEF RunnerInv, EngineAgrees
    <3>3. /\ Held(r)'.has = Held(r).has /\ Held(r)'.blocks = Held(r).blocks
          /\ Held(r)'.computed = Held(r).computed - Owed(r)' /\ Held(r)'.computed \in Nat
      <4>1. CASE \E n \in DOMAIN exec : exec[n].r = r
        <5>1. PICK n \in DOMAIN exec : exec[n].r = r
          BY <4>1
        <5>2. r \in DOMAIN g /\ g[r].rejected = Rejected(exec[n])
          BY <1>3, <5>1
        <5>3. Owed(r)' = Rejected(exec[n])
          BY <1>5, <3>1, <5>2 DEF Owed
        <5>4. /\ exec[n].start + exec[n].num - Rejected(exec[n]) \in Nat
              /\ exec[n].start \in Nat /\ exec[n].num \in Nat /\ Rejected(exec[n]) \in Nat
          BY RowFacts
        <5>5. /\ Held(r)'.has = Held(r).has /\ Held(r)'.blocks = Held(r).blocks
              /\ Held(r).computed = exec[n].start + exec[n].num
              /\ Held(r)'.computed = exec[n].start + exec[n].num - Rejected(exec[n])
          BY <5>1, SampledHeld
        <5>6. QED BY <5>3, <5>4, <5>5
      <4>2. CASE \A n \in DOMAIN exec : exec[n].r # r
        <5>1. r \notin DOMAIN g
          BY <1>3, <4>2
        <5>2. Owed(r)' = 0
          BY <1>5, <3>1, <5>1 DEF Owed
        <5>3. Held(r)' = Held(r)
          BY <4>2, SampledHeld
        <5>4. QED BY <3>2, <5>2, <5>3
      <4>3. QED BY <4>1, <4>2
    <3>4. QED BY <3>2, <3>3
  <2>3. QED BY <1>2, <2>1, <2>2
<1>18. TokensKnown'
  <2>1. \A r \in Requests : slot[r] # 0 => st'[slot[r]].prefill <= eng[r].tokens
    BY SampledHeld DEF RunnerInv, TokensKnown
  <2>2. ASSUME ~cfg.async, NEW r \in Requests, eng[r].status = "running"
        PROVE  IF r \in DOMAIN Head(answers')
               THEN LET a == Head(answers')[r]
                    IN  eng[r].computed - a.rejected <= eng[r].tokens + Most(0, a.sampled - 1)
               ELSE eng[r].computed - DraftsOf(r)' <= eng[r].tokens
    <3>1. outputs = <<>> /\ answers = <<>> /\ Head(answers') = g
      BY <1>5, <1>13, <2>2
    <3>2. eng[r].computed - DraftsOf(r) <= eng[r].tokens
      BY <2>2, <3>1 DEF RunnerInv, TokensKnown
    <3>3. CASE \E n \in DOMAIN exec : exec[n].r = r
      <4>1. PICK n \in DOMAIN exec : exec[n].r = r
        BY <3>3
      <4> DEFINE e == exec[n]
      <4>2. r \in DOMAIN g /\ g[r].rejected = Rejected(e) /\ g[r].sampled = Sampled(e)
        BY <1>3, <4>1
      <4>3. DraftsOf(r) = e.drafts
        <5>1. \A m \in DOMAIN exec : exec[m].r = r => m = n
          BY <4>1, RowsDistinct
        <5>2. QED BY <3>1, <4>1, <5>1 DEF DraftsOf
      <4>4. eng[r].computed = e.start + e.num
        <5>1. View(Len(outputs), r) = Held(r)
          BY <1>2, <3>1 DEF View
        <5>2. Held(r).computed = eng[r].computed - Owed(r) /\ Owed(r) = 0
          BY <2>2, <3>1, <5>1 DEF RunnerInv, EngineAgrees, Owed
        <5>3. Held(r).computed = e.start + e.num
          BY <4>1, SampledHeld
        <5>4. QED BY <1>2, <5>2, <5>3
      <4>5. /\ e.drafts \in Nat /\ Accepted(e) \in Nat /\ e.start \in Nat /\ e.num \in Nat
            /\ ~Chunked(e) => Sampled(e) = Accepted(e) + 1 /\ Rejected(e) = e.drafts - Accepted(e)
            /\ Chunked(e) => Sampled(e) = 0 /\ Rejected(e) = 0
            /\ e.prefill = st[slot[r]].prefill /\ e.prefill \in Nat /\ slot[r] # 0
        <5>1. slot[r] \in Slots /\ e.prefill = st[slot[r]].prefill /\ StateOK(st[slot[r]])
          BY <4>1, RowFacts
        <5>2. QED BY <5>1, RowFacts, SlotFields, ConstantTypes DEF Slots
      <4> HIDE DEF e
      <4>6. eng[r].computed - Rejected(e) <= eng[r].tokens + Most(0, Sampled(e) - 1)
        <5>1. CASE Chunked(e)
          <6>1. e.start + e.num < e.prefill /\ e.prefill <= eng[r].tokens
            BY <4>5, <5>1 DEF Chunked, RunnerInv, TokensKnown
          <6>2. QED BY <1>2, <4>4, <4>5, <5>1, <6>1 DEF Most
        <5>2. CASE ~Chunked(e)
          <6>1. Most(0, Sampled(e) - 1) = Accepted(e)
            BY <4>5, <5>2 DEF Most
          <6>2. eng[r].computed - e.drafts <= eng[r].tokens /\ eng[r].computed = e.start + e.num
            BY <3>2, <4>3, <4>4
          <6>3. Rejected(e) = e.drafts - Accepted(e)
            BY <4>5, <5>2
          <6>4. eng[r].tokens \in Nat
            BY <1>2
          <6> DEFINE tokens == eng[r].tokens
                     computed == eng[r].computed
          <6> HIDE DEF tokens, computed
          <6>5. computed - e.drafts <= tokens /\ computed = e.start + e.num /\ tokens \in Nat
            BY <6>2, <6>4 DEF tokens, computed
          <6>6. computed - (e.drafts - Accepted(e)) <= tokens + Accepted(e)
            BY <4>5, <6>5
          <6>7. QED BY <6>1, <6>3, <6>6 DEF tokens, computed
        <5>3. QED BY <5>1, <5>2
      <4>7. QED BY <3>1, <4>2, <4>6
    <3>4. CASE \A n \in DOMAIN exec : exec[n].r # r
      <4>1. r \notin DOMAIN g
        BY <1>3, <3>4
      <4>2. DraftsOf(r) = 0
        BY <3>1, <3>4 DEF DraftsOf
      <4>3. DraftsOf(r)' = 0
        <5>1. outputs' = <<>> /\ exec' = <<>> /\ DOMAIN exec' = {}
          BY <1>1, <3>1
        <5>2. QED BY <5>1 DEF DraftsOf
      <4>4. QED BY <3>1, <3>2, <4>1, <4>2, <4>3
    <3>5. QED BY <3>3, <3>4
  <2>3. /\ \A r \in Requests : eng[r].status # "finished" =>
             eng[r].tokens < PromptLen[r] + MaxTokens[r]
        /\ ~cfg.async => \A r \in Requests : eng[r].placeholders = 0
    BY DEF RunnerInv, TokensKnown
  <2>4. QED BY <1>1, <1>5, <2>1, <2>2, <2>3 DEF TokensKnown
<1>19. FollowsScheduler'
  BY <1>1 DEF FollowsScheduler
<1>20. QED BY <1>9, <1>10, <1>15, <1>16, <1>17, <1>18, <1>19 DEF RunnerInv

--------------------------------------------------------------------------------
(* execute_model *)

\* The output the worker turns to.
LEMMA OutputFacts ==
    ASSUME RunnerInv, outputs # <<>>
    PROVE  LET o == Head(outputs)
           IN  /\ OutputOK(o) /\ o = outputs[1] /\ 1 \in DOMAIN outputs /\ stage = "serve"
               /\ o.new \subseteq Scheduled(o) /\ Scheduled(o) \subseteq Requests
               /\ DOMAIN o.blocks = Scheduled(o) /\ Removed(o) \cap Scheduled(o) = {}
               /\ o.finished \subseteq Requests /\ o.preempted \subseteq Requests
               /\ \A r \in o.new : o.tokens[r] \in Nat /\ o.tokens[r] <= eng[r].tokens
               /\ \A r \in Requests : /\ o.num[r] \in Nat /\ o.drafts[r] \in Nat
                                      /\ o.drafts[r] <= o.num[r]
                                      /\ (r \in Scheduled(o) <=> o.num[r] > 0)
<1> DEFINE o == Head(outputs)
<1>1. IsSeq(outputs) /\ \A k \in DOMAIN outputs : OutputOK(outputs[k])
  BY DEF RunnerInv, TypeOK
<1>2. OutputOK(o) /\ o = outputs[1] /\ 1 \in DOMAIN outputs
  BY <1>1, TailIsSeq
<1>3. stage = "serve"
  BY DEF RunnerInv, TypeOK, GraphsCaptured
<1> HIDE DEF o
<1>4. Scheduled(o) \subseteq Requests /\ \A r \in Requests : r \in Scheduled(o) <=> o.num[r] > 0
  BY DEF Scheduled
<1>5. /\ o.new \subseteq Scheduled(o) /\ DOMAIN o.blocks = Scheduled(o)
      /\ Removed(o) \cap Scheduled(o) = {}
      /\ o.finished \subseteq Requests /\ o.preempted \subseteq Requests
      /\ \A r \in Requests : /\ o.num[r] \in Nat /\ o.drafts[r] \in Nat /\ o.drafts[r] <= o.num[r]
  BY <1>2 DEF OutputOK
<1>6. \A r \in o.new : o.tokens[r] \in Nat /\ o.tokens[r] <= eng[r].tokens
  <2>1. \A r \in o.new : o.tokens[r] \in 0 .. eng[r].tokens /\ eng[r].tokens \in Nat
    BY <1>2, <1>4, <1>5, StateTypes DEF OutputOK, RunnerInv
  <2>2. QED BY <2>1
<1>7. QED BY <1>2, <1>3, <1>4, <1>5, <1>6 DEF o

\* Between two batches.
LEMMA HeldNow ==
    ASSUME RunnerInv, exec = <<>>, NEW r \in Requests
    PROVE  /\ slot[r] = 0 => Held(r) = Absent /\ ~Held(r).has
           /\ slot[r] # 0 =>
                /\ slot[r] \in Slots /\ st[slot[r]].computed \in Nat
                /\ Held(r) = [has |-> TRUE, computed |-> st[slot[r]].computed,
                              blocks |-> st[slot[r]].blocks]
<1>1. Batched(r) = 0
  BY DEF Batched
<1>2. slot[r] = 0 => Held(r) = Absent /\ ~Held(r).has
  BY DEF Held, Absent
<1>3. ASSUME slot[r] # 0
      PROVE  /\ slot[r] \in Slots /\ st[slot[r]].computed \in Nat
             /\ Held(r) = [has |-> TRUE, computed |-> st[slot[r]].computed,
                           blocks |-> st[slot[r]].blocks]
  <2>1. slot[r] \in Slots
    BY <1>3, StateTypes, ConstantTypes DEF RunnerInv, Slots
  <2>2. st[slot[r]].computed \in Nat
    BY <2>1, SlotFields DEF RunnerInv, TypeOK
  <2>3. st[slot[r]].computed + Batched(r) = st[slot[r]].computed
    BY <1>1, <2>2
  <2>4. QED BY <1>3, <2>1, <2>2, <2>3 DEF Held
<1>4. QED BY <1>2, <1>3

\* Who is scheduled has a slot, unless it is new.
LEMMA ScheduledHeld ==
    ASSUME RunnerInv, outputs # <<>>, exec = <<>>, NEW r \in Scheduled(Head(outputs))
    PROVE  LET o == Head(outputs)
           IN  /\ r \in o.new => slot[r] = 0 /\ o.computed[r] = 0 /\ o.table[r] = o.blocks[r]
               /\ r \notin o.new =>
                    /\ slot[r] # 0 /\ slot[r] \in Slots /\ o.computed[r] = st[slot[r]].computed
                    /\ o.table[r] = st[slot[r]].blocks \o o.blocks[r]
<1> DEFINE o == Head(outputs)
<1>1. 1 \in DOMAIN outputs /\ o = outputs[1] /\ r \in Requests
  BY OutputFacts
<1>2. View(1 - 1, r) = Held(r)
  BY DEF View
<1>3. IF r \in o.new THEN ~Held(r).has /\ o.computed[r] = 0 /\ o.table[r] = o.blocks[r]
      ELSE /\ Held(r).has /\ o.computed[r] = Held(r).computed
           /\ o.table[r] = Held(r).blocks \o o.blocks[r]
  <2>1. IF r \in outputs[1].new
        THEN /\ ~View(1 - 1, r).has /\ outputs[1].computed[r] = 0
             /\ outputs[1].table[r] = outputs[1].blocks[r]
        ELSE /\ View(1 - 1, r).has /\ outputs[1].computed[r] = View(1 - 1, r).computed
             /\ outputs[1].table[r] = View(1 - 1, r).blocks \o outputs[1].blocks[r]
    <3>1. r \in Scheduled(outputs[1])
      BY <1>1
    <3>2. QED BY <1>1, <3>1 DEF RunnerInv, OutputsFit
  <2> HIDE DEF o
  <2>2. QED BY <1>1, <1>2, <2>1
<1> HIDE DEF o
<1>4. CASE slot[r] = 0
  BY <1>1, <1>3, <1>4, HeldNow DEF o
<1>5. CASE slot[r] # 0
  <2>1. /\ slot[r] \in Slots
        /\ Held(r) = [has |-> TRUE, computed |-> st[slot[r]].computed,
                      blocks |-> st[slot[r]].blocks]
    BY <1>1, <1>5, HeldNow
  <2>2. Held(r).has /\ Held(r).computed = st[slot[r]].computed /\ Held(r).blocks = st[slot[r]].blocks
    BY <2>1
  <2>3. QED BY <1>3, <1>5, <2>1, <2>2 DEF o
<1>6. QED BY <1>4, <1>5

\* There are free slots for the new requests.
LEMMA FreeSlots ==
    ASSUME RunnerInv, outputs # <<>>, exec = <<>>,
           NEW kept, kept = [r \in Requests |-> IF r \in Removed(Head(outputs)) THEN 0 ELSE slot[r]]
    PROVE  /\ Cardinality(Head(outputs).new) \in Nat
           /\ Cardinality(Head(outputs).new) <= Cardinality(Slots \ Range(kept))
<1> DEFINE o == Head(outputs)
           W == {r \in Requests : View(1, r).has}
           K == {r \in Requests : kept[r] # 0}
           U == {kept[r] : r \in K}
<1>1. Cardinality(W) <= MaxNumReqs
  <2>1. 1 \in 0 .. Len(outputs)
    BY OutputFacts, StateTypes DEF RunnerInv
  <2>2. QED BY <2>1 DEF RunnerInv, Pipeline
<1>2. o.new \subseteq Scheduled(o) /\ Scheduled(o) \subseteq Requests /\ o = outputs[1]
  BY OutputFacts
<1>3. \A r \in Requests : View(1, r) = AfterOutput(Held(r), o, r)
  BY <1>2 DEF View
<1>4. K \cap o.new = {}
  BY <1>2, ScheduledHeld
<1>5. K \cup o.new \subseteq W
  <2>1. ASSUME NEW r \in o.new PROVE AfterOutput(Held(r), o, r).has
    <3>1. AfterOutput(Held(r), o, r) = [has |-> TRUE, computed |-> o.num[r], blocks |-> o.blocks[r]]
      BY DEF AfterOutput
    <3>2. QED BY <3>1
  <2>2. ASSUME NEW r \in K, r \notin o.new PROVE AfterOutput(Held(r), o, r).has
    <3>1. slot[r] # 0 /\ r \notin Removed(o)
      OBVIOUS
    <3>2. Held(r) = [has |-> TRUE, computed |-> st[slot[r]].computed, blocks |-> st[slot[r]].blocks]
      BY <3>1, HeldNow
    <3>3. Held(r).has
      BY <3>2
    <3> HIDE DEF o, K
    <3>4. CASE r \in Scheduled(o)
      <4>1. AfterOutput(Held(r), o, r) =
              [has |-> TRUE, computed |-> Held(r).computed + o.num[r],
               blocks |-> Held(r).blocks \o o.blocks[r]]
        BY <2>2, <3>1, <3>4 DEF AfterOutput
      <4>2. QED BY <4>1
    <3>5. CASE r \notin Scheduled(o)
      BY <2>2, <3>1, <3>3, <3>5 DEF AfterOutput
    <3>6. QED BY <3>4, <3>5
  <2> HIDE DEF o
  <2>3. QED BY <1>2, <1>3, <2>1, <2>2
<1> HIDE DEF o, W
<1>6. /\ IsFiniteSet(K) /\ IsFiniteSet(o.new) /\ IsFiniteSet(W)
      /\ Cardinality(K) \in Nat /\ Cardinality(o.new) \in Nat /\ Cardinality(W) \in Nat
  <2>1. K \in SUBSET Requests /\ o.new \in SUBSET Requests /\ W \in SUBSET Requests
    BY <1>2 DEF W
  <2>2. QED BY <2>1, ConstantTypes, FS_Subset, FS_CardinalityType
<1>7. Cardinality(K) + Cardinality(o.new) <= Cardinality(W)
  <2>1. IsFiniteSet(K \cup o.new)
        /\ Cardinality(K \cup o.new) = Cardinality(K) + Cardinality(o.new) - Cardinality(K \cap o.new)
    BY <1>6, FS_Union
  <2>2. Cardinality(K \cap o.new) = 0
    BY <1>4, FS_EmptySet
  <2>3. Cardinality(K \cup o.new) <= Cardinality(W)
    BY <1>5, <1>6, FS_Subset
  <2> HIDE DEF K
  <2>4. QED BY <1>6, <2>1, <2>2, <2>3
<1>8. IsFiniteSet(U) /\ Cardinality(U) \in Nat /\ Cardinality(U) <= Cardinality(K)
  <2> DEFINE f == [r \in K |-> kept[r]]
  <2>1. f \in Surjection(K, U)
    BY DEF Surjection
  <2>2. QED BY <1>6, <2>1, FS_Surjection, FS_CardinalityType
<1>9. Slots \ Range(kept) = Slots \ U
  <2>1. 0 \notin Slots
    BY DEF Slots
  <2>2. QED BY <2>1 DEF Range
<1>10. Cardinality(Slots \ U) = MaxNumReqs - Cardinality(Slots \cap U)
  <2>1. IsFiniteSet(Slots) /\ Cardinality(Slots) = MaxNumReqs
    <3>1. MaxNumReqs \in Nat /\ MaxNumReqs > 0
      BY ConstantTypes
    <3>2. Cardinality(1 .. MaxNumReqs) = IF 1 > MaxNumReqs THEN 0 ELSE MaxNumReqs - 1 + 1
      BY <3>1, FS_Interval
    <3>3. QED BY <3>1, <3>2, FS_Interval DEF Slots
  <2>2. QED BY <2>1, FS_Difference
<1>11. Cardinality(Slots \cap U) \in Nat /\ Cardinality(Slots \cap U) <= Cardinality(U)
  <2>1. Slots \cap U \in SUBSET U
    OBVIOUS
  <2> HIDE DEF U
  <2>2. QED BY <1>8, <2>1, FS_Subset, FS_CardinalityType
<1> HIDE DEF K, U
<1>12. Cardinality(o.new) <= Cardinality(Slots \ Range(kept))
  <2>1. Cardinality(Slots \ Range(kept)) = MaxNumReqs - Cardinality(Slots \cap U)
    BY <1>9, <1>10
  <2>2. QED BY ONLY <1>1, <1>6, <1>7, <1>8, <1>11, <2>1, ConstantTypes
<1>13. QED BY <1>6, <1>12 DEF o

\* Where the requests are once the output is executed.
LEMMA ExecutedSlots ==
    ASSUME RunnerInv, Execute
    PROVE  LET o == Head(outputs)
           IN  /\ slot' \in [Requests -> 0 .. MaxNumReqs]
               /\ \A r \in o.new : slot'[r] \in Slots
               /\ \A r \in Requests \ o.new :
                     slot'[r] = IF r \in Removed(o) THEN 0 ELSE slot[r]
               /\ \A r, s \in Requests : slot'[r] = slot'[s] /\ slot'[r] # 0 => r = s
<1> DEFINE o == Head(outputs)
           kept == [r \in Requests |-> IF r \in Removed(o) THEN 0 ELSE slot[r]]
           S == Slots \ Range(kept)
           m == Cardinality(o.new)
           free == Ascending(S, m)
           new == SetToSeq(o.new)
           place(r) == CHOOSE n \in DOMAIN new : new[n] = r
<1>1. /\ outputs # <<>> /\ exec = <<>>
      /\ slot' = [r \in Requests |-> IF r \in o.new THEN free[place(r)] ELSE kept[r]]
  BY DEF Execute
<1>2. o.new \subseteq Requests /\ IsFiniteSet(o.new)
  <2>1. o.new \in SUBSET Requests
    BY <1>1, OutputFacts
  <2>2. QED BY <2>1, ConstantTypes, FS_Subset
<1>3. m \in Nat /\ m <= Cardinality(S)
  <2>1. kept = [r \in Requests |-> IF r \in Removed(Head(outputs)) THEN 0 ELSE slot[r]]
    OBVIOUS
  <2> HIDE DEF kept
  <2>2. QED BY <1>1, <2>1, FreeSlots
<1>4. /\ free \in [1 .. m -> S]
      /\ \A i, j \in 1 .. m : free[i] = free[j] => i = j
  <2>1. S \in SUBSET (1 .. MaxNumReqs) /\ MaxNumReqs \in Nat
    BY ConstantTypes DEF Slots
  <2> HIDE DEF S, m
  <2>2. QED BY <1>3, <2>1, AscendingFacts
<1>5. /\ DOMAIN new = 1 .. m /\ \A i, j \in 1 .. m : new[i] = new[j] => i = j
      /\ \A x \in o.new : \E i \in 1 .. m : new[i] = x
  <2> DEFINE N == o.new
  <2>1. IsFiniteSet(N)
    BY <1>2
  <2> HIDE DEF N, o
  <2>2. /\ SetToSeq(N) \in [1 .. Cardinality(N) -> N]
        /\ \A i, j \in 1 .. Cardinality(N) : SetToSeq(N)[i] = SetToSeq(N)[j] => i = j
        /\ \A x \in N : \E i \in 1 .. Cardinality(N) : SetToSeq(N)[i] = x
    BY <2>1, SetToSeqFacts
  <2>3. QED BY <2>2 DEF N, o
<1> HIDE DEF S, m, free, new
<1>6. \A r \in o.new : place(r) \in 1 .. m /\ new[place(r)] = r
  BY <1>5
<1> HIDE DEF place
<1>7. \A r \in o.new : slot'[r] = free[place(r)] /\ slot'[r] \in S
  BY <1>1, <1>2, <1>4, <1>6
<1>8. \A r \in Requests \ o.new : slot'[r] = kept[r]
  BY <1>1
<1>9. \A r \in o.new : slot'[r] \in Slots /\ slot'[r] # 0 /\ slot'[r] \in 0 .. MaxNumReqs
  <2>1. \A r \in o.new : slot'[r] \in Slots
    BY <1>7 DEF S
  <2>2. \A i \in Slots : i # 0 /\ i \in 0 .. MaxNumReqs
    BY ConstantTypes DEF Slots
  <2>3. QED BY <2>1, <2>2
<1>10. \A r \in Requests : kept[r] \in 0 .. MaxNumReqs /\ kept[r] \notin S
  BY StateTypes, ConstantTypes DEF RunnerInv, S, Range
<1>11. \A r, s \in o.new : slot'[r] = slot'[s] => r = s
  BY <1>4, <1>6, <1>7
<1>12. \A r, s \in Requests : kept[r] = kept[s] /\ kept[r] # 0 => r = s
  BY DEF RunnerInv, Pipeline
<1>13. \A r \in Requests \ o.new : slot'[r] = IF r \in Removed(o) THEN 0 ELSE slot[r]
  BY <1>8
<1>14. slot' \in [Requests -> 0 .. MaxNumReqs]
  <2>1. \A r \in Requests : slot'[r] \in 0 .. MaxNumReqs
    BY <1>8, <1>9, <1>10
  <2> HIDE DEF o, kept
  <2>2. slot' = [r \in Requests |-> slot'[r]]
    BY <1>1
  <2>3. QED BY <2>1, <2>2
<1> HIDE DEF kept, o
<1>15. \A r, s \in Requests : slot'[r] = slot'[s] /\ slot'[r] # 0 => r = s
  <2> SUFFICES ASSUME NEW r \in Requests, NEW s \in Requests, slot'[r] = slot'[s], slot'[r] # 0
               PROVE  r = s
    OBVIOUS
  <2>1. CASE r \in o.new /\ s \in o.new
    BY <1>11, <2>1
  <2>2. CASE r \notin o.new /\ s \notin o.new
    BY <1>8, <1>12, <2>2
  <2>3. CASE r \in o.new /\ s \notin o.new
    BY <1>7, <1>8, <1>10, <2>3
  <2>4. CASE r \notin o.new /\ s \in o.new
    BY <1>7, <1>8, <1>10, <2>4
  <2>5. QED BY <2>1, <2>2, <2>3, <2>4
<1>16. QED BY <1>9, <1>13, <1>14, <1>15 DEF o

\* What the slots hold then.
LEMMA ExecutedStates ==
    ASSUME RunnerInv, Execute
    PROVE  LET o == Head(outputs)
           IN  /\ st' = [i \in Slots |-> st'[i]]
               /\ \A r \in o.new : st'[slot'[r]] = WithRequest(st[slot'[r]], o, r)
               /\ \A r \in Scheduled(o) \ o.new :
                    slot'[r] = slot[r] /\ st'[slot[r]] = WithBlocks(st[slot[r]], o, r)
               /\ \A r \in Requests \ Scheduled(o) :
                    slot'[r] # 0 => slot'[r] = slot[r] /\ st'[slot[r]] = st[slot[r]]
               /\ \A i \in Slots : \/ st'[i] = st[i]
                                   \/ \E r \in o.new : st'[i] = WithRequest(st[i], o, r)
                                   \/ \E r \in Scheduled(o) : st'[i] = WithBlocks(st[i], o, r)
<1> DEFINE o == Head(outputs)
           kept == [r \in Requests |-> IF r \in Removed(o) THEN 0 ELSE slot[r]]
           newAt(i) == CHOOSE r \in o.new : slot'[r] = i
           oldAt(i) == CHOOSE r \in DOMAIN o.blocks : kept[r] = i
<1>1. /\ outputs # <<>> /\ exec = <<>>
      /\ st' = [i \in Slots |->
                IF \E r \in o.new : slot'[r] = i
                THEN WithRequest(st[i], o, newAt(i))
                ELSE IF \E r \in DOMAIN o.blocks : kept[r] = i
                THEN WithBlocks(st[i], o, oldAt(i))
                ELSE st[i]]
  BY DEF Execute
<1>2. /\ o.new \subseteq Scheduled(o) /\ Scheduled(o) \subseteq Requests
      /\ DOMAIN o.blocks = Scheduled(o) /\ Removed(o) \cap Scheduled(o) = {}
  BY <1>1, OutputFacts
<1>3. /\ \A r \in o.new : slot'[r] \in Slots
      /\ \A r \in Requests \ o.new : slot'[r] = IF r \in Removed(o) THEN 0 ELSE slot[r]
      /\ \A r, s \in Requests : slot'[r] = slot'[s] /\ slot'[r] # 0 => r = s
  BY ExecutedSlots
<1>4. 0 \notin Slots /\ \A r \in Requests : slot[r] # 0 => slot[r] \in Slots
  BY StateTypes, ConstantTypes DEF Slots, RunnerInv
<1>5. /\ \A r \in o.new : kept[r] = 0
      /\ \A r \in Scheduled(o) \ o.new : kept[r] = slot[r] /\ slot[r] # 0
  <2>1. \A r \in Scheduled(o) : /\ r \in o.new => slot[r] = 0
                                /\ r \notin o.new => slot[r] # 0
    BY <1>1, ScheduledHeld
  <2>2. QED BY <1>2, <2>1
<1>6. \A r \in Requests \ o.new : slot'[r] = kept[r]
  BY <1>3
<1> HIDE DEF o, kept
<1>7. ASSUME NEW r \in o.new
      PROVE  st'[slot'[r]] = WithRequest(st[slot'[r]], o, r)
  <2>1. slot'[r] \in Slots /\ slot'[r] # 0
    BY <1>3, <1>4
  <2>2. newAt(slot'[r]) \in o.new /\ slot'[newAt(slot'[r])] = slot'[r]
    OBVIOUS
  <2>3. newAt(slot'[r]) = r
    <3> HIDE DEF newAt
    <3>1. QED BY <1>2, <1>3, <2>1, <2>2
  <2>4. st'[slot'[r]] = WithRequest(st[slot'[r]], o, newAt(slot'[r]))
    <3> HIDE DEF newAt, oldAt
    <3>1. QED BY <1>1, <2>1
  <2> HIDE DEF newAt
  <2>5. QED BY <2>3, <2>4
<1>8. ASSUME NEW r \in Scheduled(o) \ o.new
      PROVE  slot'[r] = slot[r] /\ st'[slot[r]] = WithBlocks(st[slot[r]], o, r)
  <2>1. slot'[r] = slot[r] /\ slot[r] # 0 /\ slot[r] \in Slots /\ kept[r] = slot[r] /\ r \in Requests
    BY <1>2, <1>4, <1>5, <1>6
  <2>2. ~ \E s \in o.new : slot'[s] = slot[r]
    BY <1>2, <1>3, <2>1
  <2>3. oldAt(slot[r]) \in DOMAIN o.blocks /\ kept[oldAt(slot[r])] = slot[r]
    <3>1. \E s \in DOMAIN o.blocks : kept[s] = slot[r]
      BY <1>2, <2>1
    <3>2. QED BY <3>1
  <2>4. oldAt(slot[r]) = r
    <3> HIDE DEF oldAt
    <3>1. oldAt(slot[r]) \in Scheduled(o) \ o.new
      BY <1>2, <1>5, <2>1, <2>3
    <3>2. slot'[oldAt(slot[r])] = slot'[r] /\ oldAt(slot[r]) \in Requests
      BY <1>2, <1>6, <2>1, <2>3, <3>1
    <3>3. QED BY <1>3, <2>1, <3>2
  <2>5. st'[slot[r]] = WithBlocks(st[slot[r]], o, oldAt(slot[r]))
    <3>1. \E s \in DOMAIN o.blocks : kept[s] = slot[r]
      BY <1>2, <2>1
    <3> HIDE DEF oldAt, newAt
    <3>2. QED BY <1>1, <2>1, <2>2, <3>1
  <2> HIDE DEF oldAt
  <2>6. QED BY <2>1, <2>4, <2>5
<1>9. ASSUME NEW r \in Requests \ Scheduled(o), slot'[r] # 0
      PROVE  slot'[r] = slot[r] /\ st'[slot[r]] = st[slot[r]]
  <2>1. r \notin o.new /\ slot'[r] = slot[r] /\ slot[r] \in Slots
    BY <1>2, <1>3, <1>4, <1>9
  <2>2. ~ \E s \in o.new : slot'[s] = slot[r]
    BY <1>2, <1>3, <1>9, <2>1
  <2>3. ~ \E s \in DOMAIN o.blocks : kept[s] = slot[r]
    <3> SUFFICES ASSUME NEW s \in DOMAIN o.blocks, kept[s] = slot[r] PROVE FALSE
      OBVIOUS
    <3>1. s \in Scheduled(o) \ o.new
      BY <1>2, <1>4, <1>5, <2>1
    <3>2. slot'[s] = slot'[r]
      BY <1>2, <1>6, <2>1, <3>1
    <3>3. QED BY <1>2, <1>3, <1>9, <3>1, <3>2
  <2> HIDE DEF newAt, oldAt
  <2>4. QED BY <1>1, <2>1, <2>2, <2>3
<1>10. ASSUME NEW i \in Slots
       PROVE  \/ st'[i] = st[i]
              \/ \E r \in o.new : st'[i] = WithRequest(st[i], o, r)
              \/ \E r \in Scheduled(o) : st'[i] = WithBlocks(st[i], o, r)
  <2>1. CASE \E r \in o.new : slot'[r] = i
    <3>1. newAt(i) \in o.new
      BY <2>1
    <3> HIDE DEF newAt, oldAt
    <3>2. QED BY <1>1, <2>1, <3>1
  <2>2. CASE ~(\E r \in o.new : slot'[r] = i) /\ \E r \in DOMAIN o.blocks : kept[r] = i
    <3>1. oldAt(i) \in DOMAIN o.blocks
      BY <2>2
    <3> HIDE DEF newAt, oldAt
    <3>2. QED BY <1>1, <1>2, <2>2, <3>1
  <2>3. CASE ~(\E r \in o.new : slot'[r] = i) /\ ~(\E r \in DOMAIN o.blocks : kept[r] = i)
    <3> HIDE DEF newAt, oldAt
    <3>1. QED BY <1>1, <2>3
  <2>4. QED BY <2>1, <2>2, <2>3
<1>11. st' = [i \in Slots |-> st'[i]]
  <2> HIDE DEF newAt, oldAt
  <2>1. QED BY <1>1
<1>12. QED BY <1>7, <1>8, <1>9, <1>10, <1>11 DEF o

LEMMA BatchRowFields ==
    ASSUME NEW s, NEW o, NEW r, NEW i
    PROVE  LET b == BatchRow(s, o, r, i)
           IN  /\ b.r = r /\ b.slot = i /\ b.start = s.computed /\ b.num = o.num[r]
               /\ b.drafts = o.drafts[r] /\ b.prefill = s.prefill /\ b.guess = s.draft
               /\ b.blocks = s.blocks /\ b.expected.computed = o.computed[r]
               /\ b.expected.table = o.table[r] /\ b.first = s.last
               /\ Chunked(b) => b.next = <<b.r, b.start + b.num>>
BY DEF BatchRow, Chunked

\* The batch has one row for each scheduled request.
LEMMA ExecutedRows ==
    ASSUME RunnerInv, Execute
    PROVE  LET o == Head(outputs)
           IN  /\ IsSeq(exec') /\ (exec' = <<>> <=> Scheduled(o) = {})
               /\ \A n \in DOMAIN exec' :
                    LET b == exec'[n]
                        s == st'[slot'[b.r]]
                    IN  /\ b.r \in Scheduled(o) /\ b.slot = slot'[b.r] /\ b.start = s.computed
                        /\ b.num = o.num[b.r] /\ b.drafts = o.drafts[b.r]
                        /\ b.prefill = s.prefill /\ b.guess = s.draft /\ b.blocks = s.blocks
                        /\ b.expected.computed = o.computed[b.r]
                        /\ b.expected.table = o.table[b.r] /\ b.first = s.last
                        /\ Chunked(b) => b.next = <<b.r, b.start + b.num>>
               /\ \A r \in Scheduled(o) : \E n \in DOMAIN exec' : exec'[n].r = r
               /\ \A m, n \in DOMAIN exec' : exec'[m].r = exec'[n].r => m = n
               /\ answers' = IF Scheduled(o) = {} THEN Append(answers, <<>>) ELSE answers
<1> DEFINE o == Head(outputs)
           order == InBatchOrder(o)
           N == Cardinality(Scheduled(o))
           row(n) == BatchRow(st'[slot'[order[n]]], o, order[n], slot'[order[n]])
<1>1. /\ exec' = [n \in DOMAIN order |-> row(n)]
      /\ answers' = IF order = <<>> THEN Append(answers, <<>>) ELSE answers
  BY DEF Execute
<1>2. OutputOK(o)
  BY OutputFacts DEF Execute
<1> HIDE DEF o
<1>3. /\ N \in Nat /\ order \in [1 .. N -> Scheduled(o)]
      /\ \A i, j \in 1 .. N : order[i] = order[j] => i = j
      /\ \A r \in Scheduled(o) : \E i \in 1 .. N : order[i] = r
  BY <1>2, BatchOrder
<1> HIDE DEF order, N
<1>4. \A n \in 1 .. N :
        LET b == row(n)
            s == st'[slot'[order[n]]]
        IN  /\ b.r = order[n] /\ b.slot = slot'[b.r] /\ b.start = s.computed
            /\ b.num = o.num[b.r] /\ b.drafts = o.drafts[b.r]
            /\ b.prefill = s.prefill /\ b.guess = s.draft /\ b.blocks = s.blocks
            /\ b.expected.computed = o.computed[b.r]
            /\ b.expected.table = o.table[b.r] /\ b.first = s.last
            /\ Chunked(b) => b.next = <<b.r, b.start + b.num>>
  BY BatchRowFields
<1> HIDE DEF row
<1>5. exec' = [n \in 1 .. N |-> row(n)] /\ DOMAIN exec' = 1 .. N
  BY <1>1, <1>3
<1>6. IsSeq(exec') /\ (exec' = <<>> <=> N = 0)
  <2> DEFINE R == {row(n) : n \in 1 .. N}
  <2>1. exec' \in [1 .. N -> R]
    BY <1>5
  <2> HIDE DEF R
  <2>2. QED BY <1>3, <2>1, FunctionIsSeq
<1>7. order = <<>> <=> N = 0
  BY <1>3, FunctionIsSeq
<1>8. N = 0 <=> Scheduled(o) = {}
  <2>1. Scheduled(o) \in SUBSET Requests
    BY DEF Scheduled
  <2>2. IsFiniteSet(Scheduled(o))
    BY <2>1, ConstantTypes, FS_Subset
  <2>3. QED BY <2>2, FS_EmptySet DEF N
<1>9. \A n \in DOMAIN exec' : exec'[n] = row(n) /\ exec'[n].r = order[n] /\ order[n] \in Scheduled(o)
  BY <1>3, <1>4, <1>5
<1>10. ASSUME NEW n \in DOMAIN exec'
       PROVE  LET b == exec'[n]
                  s == st'[slot'[b.r]]
              IN  /\ b.r \in Scheduled(o) /\ b.slot = slot'[b.r] /\ b.start = s.computed
                  /\ b.num = o.num[b.r] /\ b.drafts = o.drafts[b.r]
                  /\ b.prefill = s.prefill /\ b.guess = s.draft /\ b.blocks = s.blocks
                  /\ b.expected.computed = o.computed[b.r]
                  /\ b.expected.table = o.table[b.r] /\ b.first = s.last
                  /\ Chunked(b) => b.next = <<b.r, b.start + b.num>>
  <2>1. n \in 1 .. N
    BY <1>5
  <2>2. exec'[n] = row(n) /\ exec'[n].r = order[n] /\ order[n] \in Scheduled(o)
    BY <1>9
  <2>3. QED BY <1>4, <2>1, <2>2
<1>11. \A r \in Scheduled(o) : \E n \in DOMAIN exec' : exec'[n].r = r
  BY <1>3, <1>5, <1>9
<1>12. \A m, n \in DOMAIN exec' : exec'[m].r = exec'[n].r => m = n
  BY <1>3, <1>5, <1>9
<1>13. QED BY <1>1, <1>6, <1>7, <1>8, <1>10, <1>11, <1>12 DEF o

\* What the worker has then is what the first output made of it.
LEMMA ExecutedHeld ==
    ASSUME RunnerInv, Execute, NEW r \in Requests
    PROVE  Held(r)' = AfterOutput(Held(r), Head(outputs), r)
<1> DEFINE o == Head(outputs)
<1>1. /\ outputs # <<>> /\ exec = <<>>
  BY DEF Execute
<1>2. /\ o.new \subseteq Scheduled(o) /\ Scheduled(o) \subseteq Requests
      /\ Removed(o) \cap Scheduled(o) = {}
      /\ o.num[r] \in Nat /\ \A s \in o.new : o.tokens[s] \in Nat
  BY <1>1, OutputFacts
<1>3. /\ r \in o.new => slot'[r] \in Slots
      /\ r \notin o.new => slot'[r] = IF r \in Removed(o) THEN 0 ELSE slot[r]
  BY ExecutedSlots
<1>4. /\ r \in o.new => st'[slot'[r]] = WithRequest(st[slot'[r]], o, r)
      /\ r \in Scheduled(o) \ o.new =>
           slot'[r] = slot[r] /\ st'[slot[r]] = WithBlocks(st[slot[r]], o, r)
      /\ r \notin Scheduled(o) => (slot'[r] # 0 => slot'[r] = slot[r] /\ st'[slot[r]] = st[slot[r]])
  BY ExecutedStates
<1>5. Batched(r)' = IF r \in Scheduled(o) THEN o.num[r] ELSE 0
  <2>1. /\ \A n \in DOMAIN exec' : exec'[n].r \in Scheduled(o) /\ exec'[n].num = o.num[exec'[n].r]
        /\ \A s \in Scheduled(o) : \E n \in DOMAIN exec' : exec'[n].r = s
    BY ExecutedRows
  <2> HIDE DEF o
  <2>2. QED BY <2>1 DEF Batched
<1>6. Held(r)' = IF slot'[r] = 0 THEN Absent
                 ELSE [has |-> TRUE, computed |-> st'[slot'[r]].computed + Batched(r)',
                       blocks |-> st'[slot'[r]].blocks]
  BY DEF Held, Absent
<1>7. /\ slot[r] = 0 => Held(r) = Absent
      /\ slot[r] # 0 => /\ slot[r] \in Slots /\ st[slot[r]].computed \in Nat
                        /\ Held(r) = [has |-> TRUE, computed |-> st[slot[r]].computed,
                                      blocks |-> st[slot[r]].blocks]
  BY <1>1, HeldNow
<1>8. \A i \in Slots : StateOK(st[i])
  BY DEF RunnerInv, TypeOK
<1>9. 0 \notin Slots
  BY DEF Slots
<1>10. r \in Scheduled(o) \ o.new => slot[r] # 0
  BY <1>1, ScheduledHeld
<1> HIDE DEF o
<1>11. CASE r \in o.new
  <2>1. slot'[r] \in Slots /\ slot'[r] # 0
    BY <1>3, <1>9, <1>11
  <2>2. st'[slot'[r]].computed = 0 /\ st'[slot'[r]].blocks = o.blocks[r]
    <3>1. StateOK(st[slot'[r]]) /\ o.tokens[r] \in Nat
      BY <1>2, <1>8, <1>11, <2>1
    <3>2. QED BY <1>4, <1>11, <3>1, SlotWithRequest
  <2>3. st'[slot'[r]].computed + Batched(r)' = o.num[r]
    BY <1>2, <1>5, <1>11, <2>2
  <2>4. QED BY <1>6, <1>11, <2>1, <2>2, <2>3 DEF AfterOutput, o
<1>12. CASE r \notin o.new /\ r \in Removed(o)
  <2>1. slot'[r] = 0
    BY <1>3, <1>12
  <2>2. QED BY <1>6, <1>12, <2>1 DEF AfterOutput, o
<1>13. CASE r \notin o.new /\ r \notin Removed(o) /\ r \in Scheduled(o)
  <2>1. slot'[r] = slot[r] /\ slot[r] # 0 /\ slot[r] \in Slots
    BY <1>4, <1>7, <1>10, <1>13
  <2>2. st'[slot[r]].computed = st[slot[r]].computed
        /\ st'[slot[r]].blocks = st[slot[r]].blocks \o o.blocks[r]
    <3>1. StateOK(st[slot[r]]) /\ st'[slot[r]] = WithBlocks(st[slot[r]], o, r)
      BY <1>4, <1>8, <1>13, <2>1
    <3> DEFINE s == st[slot[r]]
               p == WithBlocks(s, o, r)
    <3>2. p.computed = s.computed /\ p.blocks = s.blocks \o o.blocks[r]
      <4>1. StateOK(s)
        BY <3>1
      <4> HIDE DEF s
      <4>2. QED BY <4>1 DEF StateOK, WithBlocks
    <3>3. QED BY <3>1, <3>2
  <2>3. Batched(r)' = o.num[r]
    BY <1>5, <1>13
  <2>4. Held(r).computed = st[slot[r]].computed /\ Held(r).blocks = st[slot[r]].blocks
    BY <1>7, <2>1
  <2>5. AfterOutput(Held(r), o, r) =
          [has |-> TRUE, computed |-> Held(r).computed + o.num[r],
           blocks |-> Held(r).blocks \o o.blocks[r]]
    BY <1>13 DEF AfterOutput
  <2>6. QED BY <1>6, <2>1, <2>2, <2>3, <2>4, <2>5 DEF o
<1>14. CASE r \notin o.new /\ r \notin Removed(o) /\ r \notin Scheduled(o)
  <2>1. slot'[r] = slot[r]
    BY <1>3, <1>14
  <2>2. AfterOutput(Held(r), o, r) = Held(r)
    BY <1>14 DEF AfterOutput
  <2>3. CASE slot[r] = 0
    BY <1>6, <1>7, <2>1, <2>2, <2>3 DEF o
  <2>4. CASE slot[r] # 0
    <3>1. st'[slot'[r]] = st[slot[r]] /\ Batched(r)' = 0
      BY <1>4, <1>5, <1>14, <2>1, <2>4
    <3>2. st'[slot'[r]].computed + Batched(r)' = st[slot[r]].computed
      BY <1>7, <2>4, <3>1
    <3>3. QED BY <1>6, <1>7, <2>1, <2>2, <2>4, <3>1, <3>2 DEF o
  <2>5. QED BY <2>3, <2>4
<1>15. QED BY <1>11, <1>12, <1>13, <1>14

\* The first output has become the worker's state.
LEMMA ExecutedViews ==
    ASSUME RunnerInv, Execute
    PROVE  /\ IsSeq(outputs') /\ Len(outputs') = Len(outputs) - 1 /\ Len(outputs') \in 0 .. 1
           /\ DOMAIN outputs' = 1 .. Len(outputs') /\ (outputs' = <<>> <=> Len(outputs') = 0)
           /\ \A k \in 1 .. Len(outputs') : outputs'[k] = outputs[k + 1]
           /\ \A k \in 0 .. Len(outputs'), r \in Requests : View(k, r)' = View(k + 1, r)
<1>1. outputs # <<>> /\ exec = <<>> /\ outputs' = Tail(outputs) /\ answers' \in {answers, Append(answers, <<>>)}
  BY DEF Execute
<1>2. /\ IsSeq(outputs) /\ Len(outputs) \in Nat /\ Len(outputs) <= 2 /\ Len(outputs) # 0
  BY <1>1, StateTypes, PipelineFacts DEF RunnerInv
<1>3. /\ IsSeq(outputs') /\ Len(outputs') = Len(outputs) - 1 /\ Len(outputs') \in 0 .. 1
      /\ DOMAIN outputs' = 1 .. Len(outputs') /\ (outputs' = <<>> <=> Len(outputs') = 0)
      /\ \A k \in 1 .. Len(outputs') : outputs'[k] = outputs[k + 1]
  <2>1. /\ IsSeq(outputs') /\ Len(outputs') = Len(outputs) - 1
        /\ \A i \in 1 .. Len(outputs) - 1 : outputs'[i] = outputs[i + 1]
    BY <1>1, <1>2, TailIsSeq
  <2>2. DOMAIN outputs' = 1 .. Len(outputs') /\ (outputs' = <<>> <=> Len(outputs') = 0)
    BY <2>1, IsSeqFacts
  <2>3. QED BY <1>2, <2>1, <2>2
<1>4. ASSUME NEW r \in Requests PROVE View(0, r)' = View(1, r)
  <2>1. Held(r)' = AfterOutput(Held(r), outputs[1], r)
    BY <1>1, OutputFacts, ExecutedHeld
  <2>2. View(0, r)' = Held(r)' /\ View(1, r) = AfterOutput(Held(r), outputs[1], r)
    BY DEF View
  <2>3. QED BY <2>1, <2>2
<1>5. ASSUME NEW r \in Requests, 1 \in 1 .. Len(outputs') PROVE View(1, r)' = View(2, r)
  <2>1. Held(r)' = AfterOutput(Held(r), outputs[1], r)
    BY <1>1, OutputFacts, ExecutedHeld
  <2>2. outputs'[1] = outputs[2]
    BY <1>3, <1>5
  <2> DEFINE v == AfterOutput(Held(r), outputs[1], r)
  <2>3. View(2, r) = AfterOutput(v, outputs[2], r)
    BY DEF View
  <2>4. View(1, r)' = AfterOutput(v, outputs[2], r)
    <3> HIDE DEF v
    <3>1. QED BY <2>1, <2>2 DEF v, View, AfterOutput, Removed, Scheduled, Absent
  <2>5. QED BY <2>3, <2>4
<1>6. ASSUME NEW k \in 0 .. Len(outputs'), NEW r \in Requests PROVE View(k, r)' = View(k + 1, r)
  <2>1. k = 0 \/ (k = 1 /\ 1 \in 1 .. Len(outputs'))
    BY <1>3
  <2>2. CASE k = 0
    BY <1>4, <2>2
  <2>3. CASE k = 1 /\ 1 \in 1 .. Len(outputs')
    BY <1>5, <2>3
  <2>4. QED BY <2>1, <2>2, <2>3
<1>7. QED BY <1>3, <1>6

LEMMA ExecutedTypes ==
    ASSUME RunnerInv, Execute
    PROVE  TypeOK'
<1> DEFINE o == Head(outputs)
<1>1. /\ outputs # <<>> /\ exec = <<>>
      /\ UNCHANGED <<cfg, stage, graphs, hidden_states, draft_graphs, eng, told, turn, preemptions,
                     last_draft, rows, draft_kv>>
  BY DEF Execute, graphVars, engineVars
<1>2. /\ OutputOK(o) /\ o.new \subseteq Scheduled(o) /\ Scheduled(o) \subseteq Requests
      /\ Removed(o) \cap Scheduled(o) = {}
      /\ \A r \in o.new : o.tokens[r] \in Nat
      /\ \A r \in Requests : /\ o.num[r] \in Nat /\ o.drafts[r] \in Nat /\ o.drafts[r] <= o.num[r]
                             /\ (r \in Scheduled(o) <=> o.num[r] > 0)
  BY <1>1, OutputFacts
<1>3. OutputsTyped'
  <2>1. \A k \in DOMAIN outputs' : OutputOK(outputs'[k])
    <3>1. \A k \in DOMAIN outputs' : outputs'[k] = outputs[k + 1] /\ k + 1 \in DOMAIN outputs
      BY ExecutedViews, StateTypes DEF RunnerInv
    <3>2. \A k \in DOMAIN outputs : OutputOK(outputs[k])
      BY DEF RunnerInv, TypeOK
    <3>3. QED BY <3>1, <3>2
  <2>2. QED BY <1>1, <2>1, ExecutedViews DEF OutputsTyped, OutputOK, Scheduled, Removed
<1>4. AnswersTyped'
  <2>1. AnswerOK(<<>>)
    BY DEF AnswerOK
  <2>2. answers' = answers \/ answers' = Append(answers, <<>>)
    BY DEF Execute
  <2>3. IsSeq(answers') /\ \A k \in DOMAIN answers' : AnswerOK(answers'[k])
    <3>1. /\ IsSeq(answers) /\ DOMAIN answers = 1 .. Len(answers) /\ Len(answers) \in Nat
          /\ \A k \in DOMAIN answers : AnswerOK(answers[k])
      BY StateTypes DEF RunnerInv, TypeOK
    <3>2. CASE answers' = Append(answers, <<>>)
      <4>1. /\ IsSeq(answers') /\ Len(answers') = Len(answers) + 1
            /\ \A i \in 1 .. Len(answers) : answers'[i] = answers[i]
            /\ answers'[Len(answers) + 1] = <<>>
        BY <3>1, <3>2, AppendIsSeq
      <4>2. DOMAIN answers' = 1 .. Len(answers) + 1
        BY <4>1, IsSeqFacts
      <4>3. \A k \in DOMAIN answers' : k \in 1 .. Len(answers) \/ k = Len(answers) + 1
        BY <3>1, <4>2
      <4>4. QED BY <2>1, <3>1, <4>1, <4>3
    <3>3. QED BY <2>2, <3>1, <3>2
  <2>4. QED BY <1>1, <2>3 DEF AnswersTyped, AnswerOK
<1>5. SlotsTyped'
  <2>1. \A i \in Slots : StateOK(st[i])
    BY DEF RunnerInv, TypeOK
  <2>2. \A i \in Slots : \/ st'[i] = st[i]
                         \/ \E r \in o.new : st'[i] = WithRequest(st[i], o, r)
                         \/ \E r \in Scheduled(o) : st'[i] = WithBlocks(st[i], o, r)
    BY ExecutedStates
  <2>3. slot' \in [Requests -> 0 .. MaxNumReqs]
    BY ExecutedSlots
  <2>4. st' = [i \in Slots |-> st'[i]]
    BY ExecutedStates
  <2> HIDE DEF o
  <2>5. \A i \in Slots : StateOK(st'[i])
    BY <1>2, <2>1, <2>2, SlotWithRequest, SlotWithBlocks
  <2>6. QED BY <2>3, <2>4, <2>5 DEF SlotsTyped, StateOK
<1>6. RowsTyped'
  <2>1. /\ IsSeq(exec')
        /\ \A n \in DOMAIN exec' :
             LET b == exec'[n]
                 s == st'[slot'[b.r]]
             IN  /\ b.r \in Scheduled(o) /\ b.slot = slot'[b.r] /\ b.start = s.computed
                 /\ b.num = o.num[b.r] /\ b.drafts = o.drafts[b.r]
                 /\ b.prefill = s.prefill /\ b.guess = s.draft
    BY ExecutedRows
  <2>2. \A r \in Scheduled(o) : slot'[r] # 0 /\ slot'[r] \in Slots
    <3>1. /\ \A r \in o.new : slot'[r] \in Slots
          /\ \A r \in Requests \ o.new : slot'[r] = IF r \in Removed(o) THEN 0 ELSE slot[r]
      BY ExecutedSlots
    <3>2. \A r \in Scheduled(o) : r \notin o.new => slot[r] \in Slots
      BY <1>1, ScheduledHeld
    <3>3. 0 \notin Slots
      BY DEF Slots
    <3> HIDE DEF o
    <3>4. QED BY <1>2, <3>1, <3>2, <3>3
  <2>3. \A i \in Slots : st'[i].draft.hits \in Nat
    BY <1>5 DEF SlotsTyped, StateOK
  <2>4. cfg.async => \A r \in Requests : o.drafts[r] = 0
    BY <1>2 DEF OutputOK
  <2> HIDE DEF o
  <2>5. ASSUME NEW n \in DOMAIN exec'
        PROVE  LET b == exec'[n]
               IN  /\ b.r \in Requests /\ slot'[b.r] # 0 /\ b.slot = slot'[b.r]
                   /\ b.start = st'[b.slot].computed /\ b.prefill = st'[b.slot].prefill
                   /\ b.num \in Nat \ {0} /\ b.drafts \in 0 .. b.num /\ b.guess.hits \in Nat
                   /\ cfg.async => b.drafts = 0
    BY <1>2, <2>1, <2>2, <2>3, <2>4
  <2>6. QED BY <1>1, <2>1, <2>5 DEF RowsTyped, RowOK
<1>7. QED BY <1>1, <1>3, <1>4, <1>5, <1>6, TypeParts, TypePartsNext, TypesSame DEF RunnerInv

LEMMA ExecutedPipeline ==
    ASSUME RunnerInv, Execute
    PROVE  Pipeline' /\ OutputsFit'
<1>1. outputs # <<>> /\ exec = <<>> /\ UNCHANGED cfg
  BY DEF Execute
<1>2. /\ Len(outputs) \in Nat /\ Len(answers) \in Nat /\ IsSeq(answers) /\ cfg.async \in BOOLEAN
      /\ DOMAIN outputs = 1 .. Len(outputs)
  BY StateTypes, CfgTypes DEF RunnerInv
<1>3. /\ Len(outputs') = Len(outputs) - 1 /\ DOMAIN outputs' = 1 .. Len(outputs')
      /\ Len(outputs') \in Nat
      /\ \A k \in 1 .. Len(outputs') : outputs'[k] = outputs[k + 1]
      /\ \A k \in 0 .. Len(outputs'), r \in Requests : View(k, r)' = View(k + 1, r)
  BY ExecutedViews
<1>4. Len(outputs') + Len(answers') + (IF exec' = <<>> THEN 0 ELSE 1)
         <= (IF cfg.async THEN 2 ELSE 1)
  <2>1. Len(outputs) + Len(answers) + 0 <= (IF cfg.async THEN 2 ELSE 1)
    BY <1>1 DEF RunnerInv, Pipeline
  <2>2. Len(answers') + (IF exec' = <<>> THEN 0 ELSE 1) = Len(answers) + 1
    <3>1. /\ exec' = <<>> => answers' = Append(answers, <<>>)
          /\ exec' # <<>> => answers' = answers
      BY ExecutedRows
    <3>2. Len(Append(answers, <<>>)) = Len(answers) + 1
      BY <1>2, AppendIsSeq
    <3>3. QED BY <1>2, <3>1, <3>2
  <2>3. Len(answers') \in Nat
    BY ExecutedTypes, IsSeqFacts DEF TypeOK
  <2>4. (IF cfg.async THEN 2 ELSE 1) \in Nat /\ (IF exec' = <<>> THEN 0 ELSE 1) \in Nat
    OBVIOUS
  <2>5. QED BY <1>2, <1>3, <2>1, <2>2, <2>3, <2>4
<1>5. \A k \in 0 .. Len(outputs') : Cardinality({r \in Requests : View(k, r).has})' <= MaxNumReqs
  <2> SUFFICES ASSUME NEW k \in 0 .. Len(outputs')
               PROVE  Cardinality({r \in Requests : View(k, r)'.has}) <= MaxNumReqs
    OBVIOUS
  <2>1. {r \in Requests : View(k, r)'.has} = {r \in Requests : View(k + 1, r).has}
    BY <1>3
  <2>2. k + 1 \in 0 .. Len(outputs)
    BY <1>2, <1>3
  <2>3. Cardinality({r \in Requests : View(k + 1, r).has}) <= MaxNumReqs
    BY <2>2 DEF RunnerInv, Pipeline
  <2>4. QED BY <2>1, <2>3
<1>6. Pipeline'
  <2>1. \A r, s \in Requests : slot'[r] = slot'[s] /\ slot'[r] # 0 => r = s
    BY ExecutedSlots
  <2>2. \A m, n \in DOMAIN exec' : exec'[m].r = exec'[n].r => m = n
    BY ExecutedRows
  <2>3. QED BY <1>1, <1>4, <1>5, <2>1, <2>2 DEF Pipeline
<1>7. OutputsFit'
  <2>1. \A o : Scheduled(o)' = Scheduled(o)
    BY DEF Scheduled
  <2> SUFFICES ASSUME NEW k \in DOMAIN outputs', NEW r \in Scheduled(outputs'[k])
               PROVE  LET o == outputs'[k]
                      IN  IF r \in o.new
                          THEN ~View(k - 1, r)'.has /\ o.computed[r] = 0
                               /\ o.table[r] = o.blocks[r]
                          ELSE /\ View(k - 1, r)'.has
                               /\ o.computed[r] = View(k - 1, r)'.computed
                               /\ o.table[r] = View(k - 1, r)'.blocks \o o.blocks[r]
    BY <2>1 DEF OutputsFit
  <2>2. k \in Nat /\ k - 1 \in 0 .. Len(outputs') /\ k + 1 \in DOMAIN outputs /\ outputs'[k] = outputs[k + 1]
    BY <1>2, <1>3
  <2>3. r \in Requests
    BY DEF Scheduled
  <2>4. View(k - 1, r)' = View((k - 1) + 1, r)
    BY <1>3, <2>2, <2>3
  <2> DEFINE j == k + 1
             o == outputs[j]
  <2>5. (k - 1) + 1 = j - 1 /\ r \in Scheduled(outputs[j]) /\ j \in DOMAIN outputs
    BY <2>2
  <2>6. View(k - 1, r)' = View(j - 1, r)
    BY <2>4, <2>5
  <2> HIDE DEF j
  <2>7. LET p == outputs[j]
        IN  IF r \in p.new
            THEN ~View(j - 1, r).has /\ p.computed[r] = 0 /\ p.table[r] = p.blocks[r]
            ELSE /\ View(j - 1, r).has /\ p.computed[r] = View(j - 1, r).computed
                 /\ p.table[r] = View(j - 1, r).blocks \o p.blocks[r]
    BY <2>5 DEF RunnerInv, OutputsFit
  <2>8. outputs'[k] = outputs[j]
    BY <2>2 DEF j
  <2>9. QED BY <2>6, <2>7, <2>8
<1>8. QED BY <1>6, <1>7

LEMMA ExecutedAgrees ==
    ASSUME RunnerInv, Execute
    PROVE  EngineAgrees'
<1>1. outputs # <<>> /\ exec = <<>> /\ UNCHANGED <<cfg, eng, told>>
  BY DEF Execute, engineVars
<1>2. IsSeq(answers) /\ (answers = <<>> <=> Len(answers) = 0) /\ Len(outputs) \in Nat
  BY StateTypes DEF RunnerInv
<1>3. \A r \in Requests : View(Len(outputs), r)' = View(Len(outputs), r)
  <2>1. Len(outputs') \in 0 .. Len(outputs') /\ Len(outputs') + 1 = Len(outputs)
    BY <1>2, ExecutedViews
  <2>2. \A k \in 0 .. Len(outputs'), r \in Requests : View(k, r)' = View(k + 1, r)
    BY ExecutedViews
  <2>3. QED BY <2>1, <2>2
<1>4. \A r : Owed(r)' = Owed(r)
  <2>1. CASE answers' = answers
    BY <2>1 DEF Owed
  <2>2. CASE answers' = Append(answers, <<>>)
    <3>1. /\ answers = <<>> => Head(answers') = <<>>
          /\ answers # <<>> => Head(answers') = Head(answers)
          /\ answers' # <<>>
      <4>1. IsSeq(Append(answers, <<>>)) /\ Len(Append(answers, <<>>)) = Len(answers) + 1
        BY <1>2, AppendIsSeq
      <4>2. Len(answers) \in Nat
        BY <1>2, IsSeqFacts
      <4>3. Append(answers, <<>>) # <<>>
        BY <4>1, <4>2, IsSeqFacts
      <4>4. QED BY <1>2, <2>2, <4>3, AppendIsSeq
    <3>2. DOMAIN <<>> = {}
      OBVIOUS
    <3>3. QED BY <3>1, <3>2 DEF Owed
  <2>3. answers' = answers \/ answers' = Append(answers, <<>>)
    BY DEF Execute
  <2>4. QED BY <2>1, <2>2, <2>3
<1>5. QED BY <1>1, <1>3, <1>4 DEF RunnerInv, EngineAgrees

LEMMA ExecutedTokens ==
    ASSUME RunnerInv, Execute
    PROVE  TokensKnown'
<1> DEFINE o == Head(outputs)
<1>1. outputs # <<>> /\ exec = <<>> /\ UNCHANGED <<cfg, eng, told>>
  BY DEF Execute, engineVars
<1>2. /\ o.new \subseteq Scheduled(o) /\ Scheduled(o) \subseteq Requests
      /\ Removed(o) \cap Scheduled(o) = {}
      /\ \A r \in o.new : o.tokens[r] \in Nat /\ o.tokens[r] <= eng[r].tokens
      /\ \A r \in Requests : /\ o.num[r] \in Nat /\ o.drafts[r] \in Nat /\ o.drafts[r] <= o.num[r]
                             /\ (r \in Scheduled(o) <=> o.num[r] > 0)
  BY <1>1, OutputFacts
<1>3. \A r \in Requests : slot'[r] # 0 => st'[slot'[r]].prefill <= eng[r].tokens
  <2> SUFFICES ASSUME NEW r \in Requests, slot'[r] # 0
               PROVE  st'[slot'[r]].prefill <= eng[r].tokens
    OBVIOUS
  <2>1. \A i \in Slots : StateOK(st[i])
    BY DEF RunnerInv, TypeOK
  <2>2. slot[r] # 0 => slot[r] \in Slots /\ st[slot[r]].prefill <= eng[r].tokens
    BY StateTypes, ConstantTypes DEF RunnerInv, Slots, TokensKnown
  <2>3. CASE r \in o.new
    <3>1. slot'[r] \in Slots /\ st'[slot'[r]] = WithRequest(st[slot'[r]], o, r)
      BY <2>3, ExecutedSlots, ExecutedStates
    <3> HIDE DEF o
    <3>2. st'[slot'[r]].prefill = o.tokens[r]
      BY <1>2, <2>1, <2>3, <3>1, SlotWithRequest
    <3>3. QED BY <1>2, <2>3, <3>2
  <2>4. CASE r \in Scheduled(o) \ o.new
    <3>1. slot'[r] = slot[r] /\ st'[slot[r]] = WithBlocks(st[slot[r]], o, r)
      BY <2>4, ExecutedStates
    <3> HIDE DEF o
    <3>2. st'[slot[r]].prefill = st[slot[r]].prefill
      BY <2>1, <2>2, <3>1, SlotWithBlocks
    <3>3. QED BY <2>2, <3>1, <3>2
  <2>5. CASE r \notin Scheduled(o)
    <3>1. slot'[r] = slot[r] /\ st'[slot[r]] = st[slot[r]]
      BY <2>5, ExecutedStates
    <3>2. QED BY <2>2, <3>1
  <2>6. QED BY <2>3, <2>4, <2>5
<1>4. ASSUME ~cfg.async, NEW r \in Requests, eng[r].status = "running"
      PROVE  IF answers' # <<>> /\ r \in DOMAIN Head(answers')
             THEN LET a == Head(answers')[r]
                  IN  eng[r].computed - a.rejected <= eng[r].tokens + Most(0, a.sampled - 1)
             ELSE eng[r].computed - DraftsOf(r)' <= eng[r].tokens
  <2>1. answers = <<>> /\ Len(outputs) = 1 /\ outputs' = <<>>
    <3>1. Len(outputs) \in Nat /\ Len(answers) \in Nat /\ Len(outputs) # 0
      BY <1>1, StateTypes DEF RunnerInv
    <3>2. Len(outputs) + Len(answers) <= 1 /\ answers = <<>>
      BY <1>1, <1>4, PipelineFacts DEF RunnerInv
    <3> DEFINE m == Len(outputs)
               n == Len(answers)
    <3>3. m \in Nat /\ n \in Nat /\ m # 0 /\ m + n <= 1
      BY <3>1, <3>2
    <3> HIDE DEF m, n
    <3>4. m = 1
      BY <3>3
    <3>5. QED BY <3>2, <3>4, ExecutedViews DEF m
  <2>2. DraftsOf(r) = o.drafts[r]
    BY <1>1 DEF DraftsOf
  <2>3. eng[r].computed - DraftsOf(r) <= eng[r].tokens
    BY <1>4, <2>1 DEF RunnerInv, TokensKnown
  <2>4. DraftsOf(r)' = o.drafts[r]
    <3>1. /\ \A n \in DOMAIN exec' :
               exec'[n].r \in Scheduled(o) /\ exec'[n].drafts = o.drafts[exec'[n].r]
          /\ \A s \in Scheduled(o) : \E n \in DOMAIN exec' : exec'[n].r = s
      BY ExecutedRows
    <3>2. r \notin Scheduled(o) => o.drafts[r] = 0
      BY <1>2
    <3> HIDE DEF o
    <3>3. QED BY <2>1, <3>1, <3>2 DEF DraftsOf
  <2>5. answers' # <<>> => r \notin DOMAIN Head(answers')
    <3>1. answers' \in {<<>>, Append(<<>>, <<>>)}
      BY <2>1 DEF Execute
    <3>2. Head(Append(<<>>, <<>>)) = <<>>
      BY EmptyIsSeq, AppendIsSeq
    <3>3. CASE answers' = Append(<<>>, <<>>)
      <4>1. Head(answers') = <<>> /\ DOMAIN <<>> = {}
        BY <3>2, <3>3
      <4>2. QED BY <4>1
    <3>4. QED BY <3>1, <3>3
  <2>6. QED BY <2>2, <2>3, <2>4, <2>5
<1>5. QED BY <1>1, <1>3, <1>4 DEF RunnerInv, TokensKnown

LEMMA ExecuteStep ==
    ASSUME RunnerInv, Execute
    PROVE  RunnerInv'
<1> DEFINE o == Head(outputs)
<1>1. /\ outputs # <<>> /\ exec = <<>>
      /\ UNCHANGED <<cfg, stage, graphs, hidden_states, draft_graphs, eng, told, turn, preemptions,
                     last_draft, rows, draft_kv>>
  BY DEF Execute, graphVars, engineVars
<1>2. GraphsCaptured'
  <2>1. stage = "serve"
    BY <1>1, OutputFacts
  <2>2. QED BY <1>1, <2>1 DEF RunnerInv, GraphsCaptured, GraphSizes, UpperBound
<1>3. FollowsScheduler'
  <2> SUFFICES ASSUME NEW n \in DOMAIN exec'
               PROVE  /\ exec'[n].start = exec'[n].expected.computed
                      /\ exec'[n].blocks = exec'[n].expected.table
    BY DEF FollowsScheduler
  <2> DEFINE b == exec'[n]
             r == b.r
  <2>1. /\ r \in Scheduled(o) /\ b.start = st'[slot'[r]].computed
        /\ b.blocks = st'[slot'[r]].blocks
        /\ b.expected.computed = o.computed[r] /\ b.expected.table = o.table[r]
    BY ExecutedRows
  <2>2. o.new \subseteq Scheduled(o) /\ \A s \in o.new : o.tokens[s] \in Nat
    BY <1>1, OutputFacts
  <2>3. \A i \in Slots : StateOK(st[i])
    BY DEF RunnerInv, TypeOK
  <2> HIDE DEF b, r
  <2>4. CASE r \in o.new
    <3>1. o.computed[r] = 0 /\ o.table[r] = o.blocks[r]
      BY <1>1, <2>1, <2>4, ScheduledHeld
    <3>2. slot'[r] \in Slots /\ st'[slot'[r]] = WithRequest(st[slot'[r]], o, r)
      BY <2>4, ExecutedSlots, ExecutedStates
    <3> HIDE DEF o
    <3>3. st'[slot'[r]].computed = 0 /\ st'[slot'[r]].blocks = o.blocks[r]
      BY <2>2, <2>3, <2>4, <3>2, SlotWithRequest
    <3>4. QED BY <2>1, <3>1, <3>3 DEF b
  <2>5. CASE r \notin o.new
    <3>1. /\ slot[r] \in Slots /\ o.computed[r] = st[slot[r]].computed
          /\ o.table[r] = st[slot[r]].blocks \o o.blocks[r]
      BY <1>1, <2>1, <2>5, ScheduledHeld
    <3>2. slot'[r] = slot[r] /\ st'[slot[r]] = WithBlocks(st[slot[r]], o, r)
      BY <2>1, <2>5, ExecutedStates
    <3> HIDE DEF o
    <3> DEFINE s == st[slot[r]]
               p == WithBlocks(s, o, r)
    <3>3. p.computed = s.computed /\ p.blocks = s.blocks \o o.blocks[r]
      <4>1. StateOK(s)
        BY <2>3, <3>1
      <4> HIDE DEF s
      <4>2. QED BY <4>1 DEF StateOK, WithBlocks
    <3>4. QED BY <2>1, <3>1, <3>2, <3>3 DEF b
  <2>6. QED BY <2>4, <2>5
<1>4. QED BY <1>2, <1>3, ExecutedTypes, ExecutedPipeline, ExecutedAgrees, ExecutedTokens DEF RunnerInv

--------------------------------------------------------------------------------
(* schedule *)

\* The output a step of the scheduler appends, and what becomes of its requests.
Appends(o) ==
    /\ stage = "serve" /\ outputs' = Append(outputs, o)
    /\ Len(outputs) + Len(answers) + (IF exec = <<>> THEN 0 ELSE 1)
          < (IF cfg.async THEN 2 ELSE 1)
    /\ o.finished = {r \in Requests : eng[r].status = "finished"} \ told
    /\ told' = told \cup o.finished /\ preemptions' \in Nat
    /\ o.preempted \subseteq Running
    /\ o.new = {r \in Scheduled(o) : eng[r].status # "running"}
    /\ \A r \in Scheduled(o) : eng[r].status # "finished" /\ r \notin o.preempted
    /\ Cardinality(Running \ o.preempted)
          + Cardinality(o.new) <= MaxNumReqs
    /\ o.num \in [Requests -> Nat] /\ \A r \in Scheduled(o) : o.num[r] <= NewTokens(r)
    /\ cfg.cut # "any" => \A r \in o.new : o.num[r] = NewTokens(r)
    /\ o.drafts = [r \in Requests |-> IF r \in Scheduled(o) THEN Drafts(r, o.num[r]) ELSE 0]
    /\ DOMAIN o.blocks = Scheduled(o) /\ \A r \in Scheduled(o) : IsSeq(o.blocks[r])
    /\ o.computed = [r \in Scheduled(o) |-> eng[r].computed]
    /\ o.tokens = [r \in o.new |-> eng[r].tokens]
    /\ o.table = [r \in Scheduled(o) |-> eng[r].blocks \o o.blocks[r]]
    /\ eng' = [r \in Requests |->
                 IF r \in o.preempted
                 THEN [eng[r] EXCEPT !.status = "preempted", !.computed = 0, !.spec = 0,
                                     !.blocks = <<>>]
                 ELSE IF r \in Scheduled(o)
                 THEN [eng[r] EXCEPT !.status = "running", !.computed = @ + o.num[r], !.spec = 0,
                                     !.blocks = o.table[r],
                                     !.placeholders = IF cfg.async /\ Samples(r, o.num[r])
                                                      THEN @ + 1 ELSE @]
                 ELSE eng[r]]

\* Where the blocks of an output come from.
BlocksTaken(o) == o.blocks = NewBlocks(o.num) /\ TotalMissing(o.num) <= Cardinality(Free)

LEMMA NewBlocksAreSeqs ==
    ASSUME TypeOK, NEW num
    PROVE  /\ DOMAIN NewBlocks(num) = {r \in Requests : num[r] > 0}
           /\ \A r \in Requests : num[r] \in Nat /\ num[r] > 0 => IsSeq(NewBlocks(num)[r])
<1> DEFINE scheduled == {r \in Requests : num[r] > 0}
           order == SetToSeq(scheduled)
           free == Ascending(Free, TotalMissing(num))
           earlier(r) == {s \in scheduled : \E i, j \in DOMAIN order :
                             i < j /\ order[i] = s /\ order[j] = r}
           before(r) == Total([s \in earlier(r) |-> Missing(s, num[s])])
           blocks(r) == [k \in 1 .. Missing(r, num[r]) |-> free[before(r) + k]]
<1>1. NewBlocks(num) = [r \in scheduled |-> blocks(r)]
  BY DEF NewBlocks
<1>2. ASSUME NEW r \in scheduled, num[r] \in Nat PROVE IsSeq(blocks(r))
  <2>1. Missing(r, num[r]) \in Nat
    <3>1. eng[r].computed \in Nat /\ Len(eng[r].blocks) \in Nat /\ BlockSize \in Nat \ {0}
      BY StateTypes, ConstantTypes, IsSeqFacts
    <3> DEFINE a == eng[r].computed + num[r] + BlockSize - 1
    <3>2. a \in Int
      BY <1>2, <3>1
    <3> HIDE DEF a
    <3>3. a \div BlockSize \in Int
      BY <3>1, <3>2
    <3>4. QED BY <3>1, <3>3 DEF Missing, CeilDiv, Most, a
  <2> DEFINE m == Missing(r, num[r])
             f(k) == free[before(r) + k]
             R == {f(k) : k \in 1 .. m}
  <2>2. [k \in 1 .. m |-> f(k)] \in [1 .. m -> R]
    OBVIOUS
  <2>3. m \in Nat
    BY <2>1
  <2>4. blocks(r) = [k \in 1 .. m |-> f(k)]
    OBVIOUS
  <2> HIDE DEF m, R, f, blocks
  <2>5. QED BY <2>2, <2>3, <2>4, FunctionIsSeq
<1> HIDE DEF blocks
<1>3. QED BY <1>1, <1>2

LEMMA ScheduleChoice ==
    ASSUME RunnerInv, Schedule
    PROVE  \E o : Appends(o) /\ BlocksTaken(o)
<1> DEFINE waiting == {r \in cfg.clients : eng[r].status \in {"none", "preempted"}}
           finished == {r \in Requests : eng[r].status = "finished"} \ told
<1>1. PICK preempted \in SUBSET Running :
        /\ preemptions' = preemptions + Cardinality(preempted)
        /\ \E scheduled \in SUBSET ((Running \ preempted) \cup waiting) :
           \E short \in [scheduled -> 0 .. CutTokens] : Appended(preempted, scheduled, short)
  BY DEF Schedule
<1>2. PICK scheduled \in SUBSET ((Running \ preempted) \cup waiting) :
           \E short \in [scheduled -> 0 .. CutTokens] : Appended(preempted, scheduled, short)
  BY <1>1
<1>3. PICK short \in [scheduled -> 0 .. CutTokens] : Appended(preempted, scheduled, short)
  BY <1>2
<1> DEFINE num == [r \in Requests |-> IF r \in scheduled THEN NewTokens(r) - short[r] ELSE 0]
           o == [finished |-> finished, preempted |-> preempted, new |-> scheduled \ Running,
                 num |-> num,
                 drafts |-> [r \in Requests |-> IF r \in scheduled THEN Drafts(r, num[r]) ELSE 0],
                 computed |-> [r \in scheduled |-> eng[r].computed],
                 tokens |-> [r \in scheduled \ Running |-> eng[r].tokens],
                 blocks |-> NewBlocks(num),
                 table |-> [r \in scheduled |-> eng[r].blocks \o NewBlocks(num)[r]]]
           engine ==
             [r \in Requests |->
                IF r \in preempted
                THEN [eng[r] EXCEPT !.status = "preempted", !.computed = 0, !.spec = 0,
                                    !.blocks = <<>>]
                ELSE IF r \in scheduled
                THEN [eng[r] EXCEPT !.status = "running", !.computed = @ + num[r], !.spec = 0,
                                    !.blocks = eng[r].blocks \o NewBlocks(num)[r],
                                    !.placeholders = IF cfg.async /\ Samples(r, num[r])
                                                     THEN @ + 1 ELSE @]
                ELSE eng[r]]
<1>4. /\ stage = "serve"
      /\ Len(outputs) + Len(answers) + (IF exec = <<>> THEN 0 ELSE 1)
            < (IF cfg.async THEN 2 ELSE 1)
  BY DEF Schedule
<1>5. \A r \in Requests : num[r] = IF r \in scheduled THEN NewTokens(r) - short[r] ELSE 0
  OBVIOUS
<1>6. scheduled \subseteq Requests
  BY CfgTypes DEF RunnerInv, Running
<1>7. /\ num \in [Requests -> Nat] /\ \A r \in scheduled : num[r] > 0 /\ num[r] <= NewTokens(r)
      /\ \A r \in Requests \ scheduled : num[r] = 0
      /\ cfg.cut # "any" => \A r \in scheduled \ Running : num[r] = NewTokens(r)
  <2>1. \A r \in Requests : NewTokens(r) \in Int
    <3> SUFFICES ASSUME NEW r \in Requests PROVE NewTokens(r) \in Int
      OBVIOUS
    <3>1. /\ eng[r].tokens \in Nat /\ eng[r].computed \in Nat /\ eng[r].placeholders \in Int
          /\ eng[r].spec \in Int /\ cfg.chunk \in Nat
      BY StateTypes, CfgTypes DEF RunnerInv
    <3>2. QED BY <3>1 DEF NewTokens, Least
  <2>2. \A r \in scheduled : short[r] \in Nat /\ short[r] < NewTokens(r)
    <3>1. CutTokens \in Int
      BY CfgTypes DEF RunnerInv, CutTokens
    <3>2. \A r \in scheduled : short[r] < NewTokens(r)
      BY <1>3 DEF Appended
    <3>3. QED BY <1>3, <3>1, <3>2
  <2>3. num = [r \in Requests |-> num[r]]
    OBVIOUS
  <2> HIDE DEF num
  <2>4. \A r \in scheduled : num[r] \in Nat /\ num[r] > 0 /\ num[r] <= NewTokens(r)
    BY <1>5, <1>6, <2>1, <2>2
  <2>5. cfg.cut # "any" => \A r \in scheduled \ Running : num[r] = NewTokens(r)
    <3>1. cfg.cut # "any" => \A r \in scheduled \ Running : short[r] = 0
      BY <1>3 DEF Appended
    <3>2. QED BY <1>5, <1>6, <2>1, <3>1
  <2>6. QED BY <1>5, <2>3, <2>4, <2>5
<1>8. preemptions' \in Nat
  <2>1. preempted \in SUBSET Requests
    BY DEF Running
  <2>2. IsFiniteSet(preempted)
    BY <2>1, ConstantTypes, FS_Subset
  <2>3. Cardinality(preempted) \in Nat /\ preemptions \in Nat
    BY <2>2, FS_CardinalityType DEF RunnerInv, TypeOK
  <2>4. QED BY <1>1, <2>3
<1> HIDE DEF num
<1>9. scheduled = {r \in Requests : num[r] > 0}
  BY <1>6, <1>7
<1>10. DOMAIN NewBlocks(num) = scheduled /\ \A r \in scheduled : IsSeq(NewBlocks(num)[r])
  BY <1>6, <1>7, <1>9, NewBlocksAreSeqs DEF RunnerInv
<1>11. /\ o.finished = finished /\ o.preempted = preempted /\ o.new = scheduled \ Running
       /\ o.num = num /\ o.blocks = NewBlocks(num)
       /\ o.drafts = [r \in Requests |-> IF r \in scheduled THEN Drafts(r, num[r]) ELSE 0]
       /\ o.computed = [r \in scheduled |-> eng[r].computed]
       /\ o.tokens = [r \in scheduled \ Running |-> eng[r].tokens]
       /\ o.table = [r \in scheduled |-> eng[r].blocks \o NewBlocks(num)[r]]
  OBVIOUS
<1>12. /\ outputs' = Append(outputs, o) /\ told' = told \cup finished /\ eng' = engine
       /\ Cardinality(Running \ preempted) + Cardinality(scheduled \ Running) <= MaxNumReqs
  BY <1>3 DEF Appended, num
<1>13. Scheduled(o) = scheduled
  BY <1>9, <1>11 DEF Scheduled
<1>14. eng' = [r \in Requests |->
                 IF r \in o.preempted
                 THEN [eng[r] EXCEPT !.status = "preempted", !.computed = 0, !.spec = 0,
                                     !.blocks = <<>>]
                 ELSE IF r \in Scheduled(o)
                 THEN [eng[r] EXCEPT !.status = "running", !.computed = @ + o.num[r], !.spec = 0,
                                     !.blocks = o.table[r],
                                     !.placeholders = IF cfg.async /\ Samples(r, o.num[r])
                                                      THEN @ + 1 ELSE @]
                 ELSE eng[r]]
  <2>1. \A r \in scheduled : o.table[r] = eng[r].blocks \o NewBlocks(num)[r]
    BY <1>11
  <2> HIDE DEF o
  <2>2. QED BY <1>11, <1>12, <1>13, <2>1
<1>15. /\ o.new = {r \in Scheduled(o) : eng[r].status # "running"}
       /\ \A r \in Scheduled(o) : eng[r].status # "finished" /\ r \notin o.preempted
  <2> HIDE DEF o
  <2>1. QED BY <1>6, <1>11, <1>13 DEF Running
<1> HIDE DEF o
<1>16. /\ o.drafts = [r \in Requests |-> IF r \in Scheduled(o) THEN Drafts(r, o.num[r]) ELSE 0]
       /\ o.computed = [r \in Scheduled(o) |-> eng[r].computed]
       /\ o.tokens = [r \in o.new |-> eng[r].tokens]
       /\ o.table = [r \in Scheduled(o) |-> eng[r].blocks \o o.blocks[r]]
  BY <1>11, <1>13
<1>17. /\ o.num \in [Requests -> Nat] /\ \A r \in Scheduled(o) : o.num[r] <= NewTokens(r)
       /\ DOMAIN o.blocks = Scheduled(o) /\ \A r \in Scheduled(o) : IsSeq(o.blocks[r])
       /\ o.preempted \subseteq Running
       /\ o.finished = {r \in Requests : eng[r].status = "finished"} \ told
       /\ told' = told \cup o.finished
       /\ Cardinality(Running \ o.preempted)
             + Cardinality(o.new) <= MaxNumReqs
  BY <1>7, <1>10, <1>11, <1>12, <1>13
<1>18. cfg.cut # "any" => \A r \in o.new : o.num[r] = NewTokens(r)
  BY <1>7, <1>11
<1>19. Appends(o)
  BY <1>4, <1>8, <1>12, <1>14, <1>15, <1>16, <1>17, <1>18 DEF Appends
<1>20. BlocksTaken(o)
  <2>1. TotalMissing(num) <= Cardinality(Free)
    BY <1>3 DEF Appended, num
  <2>2. QED BY <1>11, <2>1 DEF BlocksTaken
<1>21. QED BY <1>19, <1>20

\* With one step at a time nothing is under way when the scheduler runs.
LEMMA NothingUnderWay ==
    ASSUME RunnerInv, NEW o, Appends(o)
    PROVE  /\ Len(outputs) \in 0 .. 1 /\ Scheduled(o) \subseteq Requests
           /\ \A r \in Requests : Owed(r) = 0
           /\ ~cfg.async => outputs = <<>> /\ answers = <<>> /\ exec = <<>>
<1>1. /\ Len(outputs) \in Nat /\ Len(answers) \in Nat /\ cfg.async \in BOOLEAN
      /\ outputs = <<>> <=> Len(outputs) = 0
      /\ answers = <<>> <=> Len(answers) = 0
  BY StateTypes, CfgTypes DEF RunnerInv
<1>2. Len(outputs) + Len(answers) + (IF exec = <<>> THEN 0 ELSE 1)
         < (IF cfg.async THEN 2 ELSE 1)
  BY DEF Appends
<1>3. \A r \in Requests : (cfg.async => Owed(r) = 0) /\ (answers = <<>> => Owed(r) = 0)
  BY OwedFacts DEF RunnerInv
<1>4. /\ Len(outputs) \in 0 .. 1
      /\ ~cfg.async => outputs = <<>> /\ answers = <<>> /\ exec = <<>>
  <2>1. CASE cfg.async
    <3> DEFINE x == IF exec = <<>> THEN 0 ELSE 1
               m == Len(outputs)
               n == Len(answers)
    <3>1. x \in Nat /\ m + n + x < 2 /\ m \in Nat /\ n \in Nat
      BY <1>1, <1>2, <2>1
    <3> HIDE DEF x, m, n
    <3>2. m \in 0 .. 1
      BY <3>1
    <3>3. QED BY <2>1, <3>2 DEF m
  <2>2. CASE ~cfg.async
    BY <1>1, <1>2, <2>2
  <2>3. QED BY <2>1, <2>2
<1>5. QED BY <1>1, <1>3, <1>4 DEF Scheduled

\* The drafts of a step are among its tokens.
LEMMA AppendedDrafts ==
    ASSUME RunnerInv, NEW o, Appends(o), NEW r \in Scheduled(o)
    PROVE  /\ o.drafts[r] = Drafts(r, o.num[r]) /\ o.drafts[r] \in Nat
           /\ o.num[r] \in Nat /\ o.num[r] > 0 /\ o.drafts[r] <= o.num[r]
           /\ cfg.async => o.drafts[r] = 0
           /\ ~cfg.async => eng[r].computed + o.num[r] - o.drafts[r] <= eng[r].tokens
<1> DEFINE q == eng[r]
           n == o.num[r]
<1>1. r \in Requests /\ o.num \in [Requests -> Nat] /\ n > 0 /\ n <= NewTokens(r)
      /\ o.drafts[r] = Drafts(r, n)
  BY NothingUnderWay DEF Appends, Scheduled
<1>2. /\ n \in Nat /\ q.tokens \in Nat /\ q.computed \in Nat /\ q.placeholders \in Int
      /\ q.spec \in Nat /\ q.spec <= cfg.spec /\ cfg.spec \in Nat /\ cfg.chunk \in Nat
      /\ q.status \in {"none", "running", "preempted", "finished"}
  BY <1>1, StateTypes, CfgTypes DEF RunnerInv
<1>3. Drafts(r, n) = Most(0, Least(q.spec, n + q.computed - q.tokens - q.placeholders))
  BY DEF Drafts
<1> HIDE DEF q, n
<1>4. CASE cfg.async
  <2>1. q.spec = 0
    BY <1>2, <1>4, CfgTypes DEF RunnerInv
  <2>2. Drafts(r, n) = 0
    BY <1>2, <1>3, <2>1 DEF Most, Least
  <2>3. QED BY <1>1, <1>2, <1>4, <2>2 DEF n
<1>5. CASE ~cfg.async
  <2>1. outputs = <<>> /\ answers = <<>> /\ exec = <<>>
    BY <1>5, NothingUnderWay
  <2>2. q.placeholders = 0
    BY <1>1, <1>5 DEF RunnerInv, TokensKnown, q
  <2>3. q.status # "finished"
    BY DEF Appends, q
  <2>4. q.computed <= q.tokens /\ q.computed + n <= q.tokens + q.spec
    <3>1. CASE q.status = "running"
      <4>1. DraftsOf(r) = 0
        <5>1. DOMAIN exec = {}
          BY <2>1
        <5>2. QED BY <2>1, <5>1 DEF DraftsOf
      <4>2. q.computed - DraftsOf(r) <= q.tokens
        BY <1>1, <1>5, <2>1, <3>1 DEF RunnerInv, TokensKnown, q
      <4>3. n <= q.tokens + q.placeholders + q.spec - q.computed
        <5>1. NewTokens(r) = Least(q.tokens + q.placeholders + q.spec - q.computed, cfg.chunk)
          BY <3>1 DEF NewTokens, q
        <5>2. QED BY <1>1, <1>2, <5>1 DEF Least
      <4>4. QED BY <1>2, <2>2, <4>1, <4>2, <4>3
    <3>2. CASE q.status \in {"none", "preempted"}
      <4>1. q.computed = 0
        BY <1>1, <3>2 DEF RunnerInv, EngineAgrees, q
      <4>2. NewTokens(r) = Least(q.tokens, cfg.chunk)
        BY <3>2 DEF NewTokens, q
      <4>3. QED BY <1>1, <1>2, <4>1, <4>2 DEF Least
    <3>3. QED BY <1>2, <2>3, <3>1, <3>2
  <2>5. /\ Drafts(r, n) \in Nat /\ Drafts(r, n) <= n
        /\ q.computed + n - Drafts(r, n) <= q.tokens
    BY <1>2, <1>3, <2>2, <2>4 DEF Most, Least
  <2>6. QED BY <1>1, <1>2, <1>5, <2>5 DEF n, q
<1>6. QED BY <1>4, <1>5

\* What becomes of a request.
LEMMA AppendedEngine ==
    ASSUME RunnerInv, NEW o, Appends(o), NEW r \in Requests
    PROVE  LET q == eng[r]
               p == eng'[r]
           IN  /\ RequestOK(p) /\ p.tokens = q.tokens
               /\ ~cfg.async => p.placeholders = q.placeholders
               /\ r \in o.preempted => /\ p.status = "preempted" /\ p.computed = 0 /\ p.blocks = <<>>
                                       /\ p.placeholders = q.placeholders
               /\ cfg.async /\ r \in Scheduled(o) =>
                    p.placeholders = q.placeholders + One(Samples(r, o.num[r]))
               /\ r \in Scheduled(o) => /\ r \notin o.preempted /\ p.status = "running"
                                        /\ p.computed = q.computed + o.num[r]
                                        /\ p.blocks = o.table[r]
               /\ r \notin Scheduled(o) /\ r \notin o.preempted => p = q
<1> DEFINE q == eng[r]
           p == eng'[r]
           c == q.computed + o.num[r]
           h == IF cfg.async /\ Samples(r, o.num[r]) THEN q.placeholders + 1 ELSE q.placeholders
           b == o.table[r]
<1>1. RequestOK(q) /\ cfg.spec \in Nat
  BY CfgTypes DEF RunnerInv, TypeOK
<1>2. /\ r \in o.preempted =>
           p = [q EXCEPT !.status = "preempted", !.computed = 0, !.spec = 0, !.blocks = <<>>]
      /\ r \notin o.preempted /\ r \in Scheduled(o) =>
           p = [q EXCEPT !.status = "running", !.computed = c, !.spec = 0, !.blocks = b,
                         !.placeholders = h]
      /\ r \notin o.preempted /\ r \notin Scheduled(o) => p = q
      /\ r \in Scheduled(o) => r \notin o.preempted
  <2>1. r \in Scheduled(o) => r \notin o.preempted
    BY DEF Appends
  <2>2. p = IF r \in o.preempted
            THEN [q EXCEPT !.status = "preempted", !.computed = 0, !.spec = 0, !.blocks = <<>>]
            ELSE IF r \in Scheduled(o)
            THEN [q EXCEPT !.status = "running", !.computed = c, !.spec = 0, !.blocks = b,
                           !.placeholders = h]
            ELSE q
    BY DEF Appends
  <2>3. QED BY <2>1, <2>2
<1>3. r \in Scheduled(o) => c \in Nat /\ h \in Int /\ IsSeq(b)
  <2> SUFFICES ASSUME r \in Scheduled(o) PROVE c \in Nat /\ h \in Int /\ IsSeq(b)
    OBVIOUS
  <2>1. q.computed \in Nat /\ q.placeholders \in Int /\ IsSeq(q.blocks) /\ o.num[r] \in Nat
    BY <1>1, RequestFields DEF Appends
  <2>2. IsSeq(q.blocks \o o.blocks[r])
    BY <2>1, ConcatIsSeq DEF Appends
  <2>3. b = q.blocks \o o.blocks[r]
    BY DEF Appends
  <2>4. QED BY <2>1, <2>2, <2>3
<1>4. /\ ~cfg.async => h = q.placeholders
      /\ cfg.async => h = q.placeholders + One(Samples(r, o.num[r]))
  <2>1. q.placeholders \in Int
    BY <1>1, RequestFields
  <2>2. QED BY <2>1 DEF One
<1> HIDE DEF p, q, c, h, b
<1>5. CASE r \in o.preempted
  <2>1. p = [q EXCEPT !.status = "preempted", !.computed = 0, !.spec = 0, !.blocks = <<>>]
        /\ r \notin Scheduled(o)
    BY <1>2, <1>5
  <2>2. /\ RequestOK(p) /\ p.status = "preempted" /\ p.computed = 0 /\ p.blocks = <<>>
        /\ p.tokens = q.tokens /\ p.placeholders = q.placeholders
    BY <1>1, <2>1, PreemptedRequest
  <2>3. QED BY <1>5, <2>1, <2>2 DEF p, q
<1>6. CASE r \in Scheduled(o)
  <2>1. /\ RequestOK(p) /\ p.status = "running" /\ p.computed = c /\ p.blocks = b
        /\ p.tokens = q.tokens /\ p.placeholders = h
    <3>1. p = [q EXCEPT !.status = "running", !.computed = c, !.spec = 0, !.blocks = b,
                        !.placeholders = h]
      BY <1>2, <1>6
    <3>2. c \in Nat /\ h \in Int /\ IsSeq(b)
      BY <1>3, <1>6
    <3> DEFINE S == 0 .. cfg.spec
    <3>3. q \in [status : {"none", "running", "preempted", "finished"}, tokens : Nat,
                computed : Nat, placeholders : Int, spec : S, blocks : {q.blocks}]
      BY <1>1 DEF RequestOK
    <3>4. 0 \in S
      BY <1>1
    <3> HIDE DEF S
    <3>5. /\ p \in [status : {"none", "running", "preempted", "finished"}, tokens : Nat,
                   computed : Nat, placeholders : Int, spec : S, blocks : {b}]
          /\ p.status = "running" /\ p.computed = c /\ p.blocks = b
          /\ p.tokens = q.tokens /\ p.placeholders = h
      BY <3>1, <3>2, <3>3, <3>4
    <3>6. QED BY <3>2, <3>5 DEF RequestOK, S
  <2>2. r \notin o.preempted
    BY <1>2, <1>6
  <2>3. QED BY <1>4, <1>6, <2>1, <2>2 DEF p, q, c, b
<1>7. CASE r \notin o.preempted /\ r \notin Scheduled(o)
  BY <1>1, <1>2, <1>7 DEF p, q
<1>8. QED BY <1>5, <1>6, <1>7

\* The outputs are then the old ones and o.
LEMMA AppendedOutputs ==
    ASSUME RunnerInv, NEW o, Appends(o)
    PROVE  /\ IsSeq(outputs') /\ Len(outputs') = Len(outputs) + 1
           /\ DOMAIN outputs' = 1 .. Len(outputs) + 1 /\ outputs' # <<>>
           /\ \A i \in 1 .. Len(outputs) : outputs'[i] = outputs[i]
           /\ outputs'[Len(outputs) + 1] = o
           /\ outputs = <<>> => Head(outputs') = o
<1>1. IsSeq(outputs) /\ outputs' = Append(outputs, o) /\ Len(outputs) \in Nat
  BY StateTypes DEF RunnerInv, Appends
<1>2. /\ IsSeq(outputs') /\ Len(outputs') = Len(outputs) + 1
      /\ \A i \in 1 .. Len(outputs) : outputs'[i] = outputs[i]
      /\ outputs'[Len(outputs) + 1] = o
      /\ outputs = <<>> => Head(outputs') = o
  BY <1>1, AppendIsSeq
<1>3. DOMAIN outputs' = 1 .. Len(outputs') /\ (outputs' = <<>> <=> Len(outputs') = 0)
  BY <1>2, IsSeqFacts
<1> DEFINE n == Len(outputs)
<1>4. n \in Nat /\ n + 1 # 0
  BY <1>1
<1>5. QED BY <1>2, <1>3, <1>4

LEMMA AppendedOutputOK ==
    ASSUME RunnerInv, NEW o, Appends(o)
    PROVE  /\ Removed(o) \cap Scheduled(o) = {} /\ o.new \subseteq Scheduled(o)
           /\ o.finished \subseteq Requests /\ o.preempted \subseteq Requests
           /\ o.drafts \in [Requests -> Nat]
           /\ \A r \in Requests \ Scheduled(o) : o.drafts[r] = 0
           /\ OutputOK(o)
<1>1. /\ o.finished \subseteq Requests /\ o.preempted \subseteq Requests
      /\ Removed(o) \cap Scheduled(o) = {} /\ o.new \subseteq Scheduled(o)
      /\ Scheduled(o) \subseteq Requests
      /\ o.num \in [Requests -> Nat] /\ DOMAIN o.blocks = Scheduled(o)
      /\ \A r \in Scheduled(o) : IsSeq(o.blocks[r])
  <2>1. /\ o.finished = {r \in Requests : eng[r].status = "finished"} \ told
        /\ o.preempted \subseteq Running
        /\ o.new = {r \in Scheduled(o) : eng[r].status # "running"}
        /\ \A r \in Scheduled(o) : eng[r].status # "finished" /\ r \notin o.preempted
        /\ o.num \in [Requests -> Nat] /\ DOMAIN o.blocks = Scheduled(o)
        /\ \A r \in Scheduled(o) : IsSeq(o.blocks[r])
    BY Zenon DEF Appends
  <2>2. Scheduled(o) \subseteq Requests /\ Running \subseteq Requests
    BY NothingUnderWay DEF Running
  <2>3. QED BY <2>1, <2>2 DEF Removed
<1>2. \A r \in Scheduled(o) : /\ o.drafts[r] \in Nat /\ o.drafts[r] <= o.num[r]
                              /\ cfg.async => o.drafts[r] = 0
  BY AppendedDrafts
<1>3. /\ o.drafts = [r \in Requests |-> o.drafts[r]]
      /\ \A r \in Requests \ Scheduled(o) : o.drafts[r] = 0
  <2>1. o.drafts = [r \in Requests |-> IF r \in Scheduled(o) THEN Drafts(r, o.num[r]) ELSE 0]
    BY DEF Appends
  <2>2. QED BY <2>1
<1>4. \A r \in Requests : /\ o.drafts[r] \in Nat /\ o.drafts[r] <= o.num[r]
                          /\ cfg.async => o.drafts[r] = 0
  <2>1. \A r \in Requests : o.num[r] \in Nat
    BY <1>1
  <2>2. QED BY <1>2, <1>3, <2>1
<1>5. o.drafts \in [Requests -> Nat]
  BY <1>3, <1>4
<1>6. \A r \in o.new : o.tokens[r] \in 0 .. eng[r].tokens
  <2>1. \A r \in o.new : o.tokens[r] = eng[r].tokens
    BY DEF Appends
  <2>2. \A r \in o.new : eng[r].tokens \in Nat
    BY <1>1, StateTypes DEF RunnerInv
  <2>3. QED BY <2>1, <2>2
<1>7. QED BY <1>1, <1>3, <1>4, <1>5, <1>6 DEF OutputOK

LEMMA ScheduledTypes ==
    ASSUME RunnerInv, Schedule, NEW o, Appends(o)
    PROVE  TypeOK'
<1>1. UNCHANGED <<cfg, stage, graphs, hidden_states, draft_graphs, turn, answers, slot, st, exec,
                  last_draft, rows, draft_kv>>
  BY DEF Schedule, graphVars, workerVars
<1>2. \A r \in Requests : RequestOK(eng'[r]) /\ eng'[r].tokens = eng[r].tokens
  BY AppendedEngine
<1>3. EngineTyped'
  <2>1. eng' = [r \in Requests |-> eng'[r]]
    BY DEF Appends
  <2>2. told' \subseteq Requests /\ preemptions' \in Nat /\ turn' \in {"schedule", "drafts"}
    BY <1>1, AppendedOutputOK DEF Appends, RunnerInv, TypeOK
  <2>3. QED BY <1>1, <1>2, <2>1, <2>2 DEF EngineTyped, RequestOK
<1>4. OutputsTyped'
  <2>1. \A k \in DOMAIN outputs' : OutputOK(outputs'[k])
    <3>1. \A k \in DOMAIN outputs' : k \in 1 .. Len(outputs) \/ k = Len(outputs) + 1
      <4>1. Len(outputs) \in Nat
        BY StateTypes DEF RunnerInv
      <4>2. QED BY <4>1, AppendedOutputs
    <3>2. \A k \in 1 .. Len(outputs) : OutputOK(outputs[k])
      BY StateTypes DEF RunnerInv, TypeOK
    <3>3. QED BY <3>1, <3>2, AppendedOutputs, AppendedOutputOK
  <2>2. ASSUME NEW p, OutputOK(p) PROVE OutputOK(p)'
    <3>1. p.new \subseteq Requests
      BY <2>2 DEF OutputOK, Scheduled
    <3>2. \A r \in p.new : p.tokens[r] \in 0 .. eng'[r].tokens
      BY <1>2, <2>2, <3>1 DEF OutputOK
    <3>3. QED BY <1>1, <2>2, <3>1, <3>2 DEF OutputOK, Scheduled, Removed
  <2>3. QED BY <2>1, <2>2, AppendedOutputs DEF OutputsTyped
<1>5. QED BY <1>1, <1>3, <1>4, TypeParts, TypePartsNext, TypesSame DEF RunnerInv

\* The worker will be as before, and then as o makes it.
LEMMA AppendedViews ==
    ASSUME RunnerInv, Schedule, NEW o, Appends(o), NEW r \in Requests
    PROVE  /\ \A k \in 0 .. Len(outputs) : View(k, r)' = View(k, r)
           /\ \A k : k = Len(outputs) + 1 => View(k, r)' = AfterOutput(View(Len(outputs), r), o, r)
<1>1. Held(r)' = Held(r)
  BY HeldSame DEF Schedule, workerVars
<1>2. View(0, r)' = Held(r) /\ View(0, r) = Held(r)
  BY <1>1 DEF View
<1>3. Len(outputs) = 0 \/ Len(outputs) = 1
  BY NothingUnderWay
<1>4. CASE Len(outputs) = 0
  <2>1. outputs'[1] = o
    BY <1>4, AppendedOutputs
  <2>2. View(1, r)' = AfterOutput(Held(r), o, r)
    BY <1>1, <2>1 DEF View, AfterOutput, Removed, Scheduled, Absent
  <2>3. \A k \in 0 .. Len(outputs) : k = 0
    BY <1>4
  <2>4. QED BY <1>2, <1>4, <2>2, <2>3
<1>5. CASE Len(outputs) = 1
  <2>1. outputs'[1] = outputs[1] /\ outputs'[2] = o
    BY <1>5, AppendedOutputs
  <2>2. View(1, r)' = View(1, r) /\ View(1, r) = AfterOutput(Held(r), outputs[1], r)
    BY <1>1, <2>1 DEF View, AfterOutput, Removed, Scheduled, Absent
  <2> DEFINE v == AfterOutput(Held(r), outputs[1], r)
  <2>3. View(2, r)' = AfterOutput(v, o, r)
    BY <1>1, <2>1 DEF View, AfterOutput, Removed, Scheduled, Absent
  <2>4. \A k \in 0 .. Len(outputs) : k = 0 \/ k = 1
    BY <1>5
  <2> HIDE DEF v
  <2>5. View(1, r) = v
    BY <2>2 DEF v
  <2>6. QED BY <1>2, <1>5, <2>2, <2>3, <2>4, <2>5
<1>6. QED BY <1>3, <1>4, <1>5

\* A request of the engine and what the worker will have of it, before the step.
LEMMA EngineView ==
    ASSUME RunnerInv, NEW o, Appends(o), NEW r \in Requests
    PROVE  LET v == View(Len(outputs), r)
               q == eng[r]
           IN  /\ v.computed \in Nat
               /\ q.status = "running" => v.has /\ v.blocks = q.blocks /\ v.computed = q.computed
               /\ q.status \in {"none", "preempted"} =>
                    ~v.has /\ q.computed = 0 /\ q.blocks = <<>>
               /\ r \in told => ~v.has /\ q.status = "finished"
<1> DEFINE v == View(Len(outputs), r)
           q == eng[r]
<1>1. Owed(r) = 0 /\ q.computed \in Nat
  BY NothingUnderWay, StateTypes DEF RunnerInv
<1>2. q.computed - 0 = q.computed
  BY <1>1
<1>3. QED BY <1>1, <1>2 DEF RunnerInv, EngineAgrees

\* The output is addressed to the worker as it will be then.
LEMMA AppendedFits ==
    ASSUME RunnerInv, NEW o, Appends(o), NEW r \in Scheduled(o)
    PROVE  LET v == View(Len(outputs), r)
           IN  IF r \in o.new
               THEN ~v.has /\ o.computed[r] = 0 /\ o.table[r] = o.blocks[r]
               ELSE /\ v.has /\ o.computed[r] = v.computed
                    /\ o.table[r] = v.blocks \o o.blocks[r]
<1> DEFINE v == View(Len(outputs), r)
           q == eng[r]
<1>1. r \in Requests /\ q.status \in {"none", "running", "preempted", "finished"}
  BY NothingUnderWay, StateTypes DEF RunnerInv
<1>2. /\ q.status = "running" => v.has /\ v.blocks = q.blocks /\ v.computed = q.computed
      /\ q.status \in {"none", "preempted"} => ~v.has /\ q.computed = 0 /\ q.blocks = <<>>
  BY <1>1, EngineView
<1>3. /\ r \in o.new <=> q.status # "running"
      /\ q.status # "finished" /\ o.computed[r] = q.computed /\ IsSeq(o.blocks[r])
      /\ o.table[r] = q.blocks \o o.blocks[r]
  BY DEF Appends
<1> HIDE DEF v, q
<1>4. CASE r \in o.new
  <2>1. ~v.has /\ q.computed = 0 /\ q.blocks = <<>>
    BY <1>1, <1>2, <1>3, <1>4
  <2>2. <<>> \o o.blocks[r] = o.blocks[r]
    BY <1>3, EmptyIsSeq, ConcatIsSeq
  <2>3. QED BY <1>3, <1>4, <2>1, <2>2 DEF v
<1>5. CASE r \notin o.new
  BY <1>2, <1>3, <1>5 DEF v
<1>6. QED BY <1>4, <1>5

\* And after it.
LEMMA AppendedRequest ==
    ASSUME RunnerInv, NEW o, Appends(o), NEW r \in Requests
    PROVE  LET v == View(Len(outputs), r)
               w == AfterOutput(v, o, r)
               p == eng'[r]
           IN  /\ w.computed \in Nat
               /\ p.status = "running" =>
                    w.has /\ w.blocks = p.blocks /\ w.computed = p.computed
               /\ p.status \in {"none", "preempted"} =>
                    ~w.has /\ p.computed = 0 /\ p.blocks = <<>>
               /\ r \in told' => ~w.has /\ p.status = "finished"
               /\ w.has => r \in (Running \ o.preempted) \cup o.new
<1> DEFINE v == View(Len(outputs), r)
           w == AfterOutput(v, o, r)
           p == eng'[r]
           q == eng[r]
<1>1. /\ v.computed \in Nat
      /\ q.status = "running" => v.has /\ v.blocks = q.blocks /\ v.computed = q.computed
      /\ q.status \in {"none", "preempted"} => ~v.has /\ q.computed = 0 /\ q.blocks = <<>>
      /\ r \in told => ~v.has /\ q.status = "finished"
  BY EngineView
<1>2. /\ r \in o.preempted => p.status = "preempted" /\ p.computed = 0 /\ p.blocks = <<>>
      /\ r \in Scheduled(o) => /\ r \notin o.preempted /\ p.status = "running"
                               /\ p.computed = q.computed + o.num[r]
                               /\ p.blocks = o.table[r]
      /\ r \notin Scheduled(o) /\ r \notin o.preempted => p = q
  BY AppendedEngine
<1>3. /\ r \in Running <=> q.status = "running"
      /\ r \in o.preempted => q.status = "running"
      /\ r \in o.finished <=> q.status = "finished" /\ r \notin told
      /\ r \in o.new <=> r \in Scheduled(o) /\ q.status # "running"
      /\ r \in Scheduled(o) => q.status # "finished"
      /\ told' = told \cup o.finished
  BY DEF Appends, Running
<1>4. /\ q.status \in {"none", "running", "preempted", "finished"} /\ q.computed \in Nat
      /\ IsSeq(q.blocks) /\ o.num[r] \in Nat
  BY StateTypes DEF RunnerInv, Appends
<1>5. r \in Scheduled(o) => /\ o.computed[r] = q.computed /\ IsSeq(o.blocks[r])
                            /\ o.table[r] = q.blocks \o o.blocks[r]
  BY DEF Appends
<1>6. r \in Removed(o) <=> r \in o.finished \/ r \in o.preempted
  BY DEF Removed
<1> HIDE DEF v, p, q
<1>7. CASE r \in o.new
  <2>1. w = [has |-> TRUE, computed |-> o.num[r], blocks |-> o.blocks[r]]
    BY <1>7 DEF AfterOutput
  <2>2. w.has = TRUE /\ w.computed = o.num[r] /\ w.blocks = o.blocks[r]
    BY <2>1
  <2>3. q.status \in {"none", "preempted"} /\ r \in Scheduled(o)
    BY <1>3, <1>4, <1>7
  <2>4. ~v.has /\ q.computed = 0 /\ q.blocks = <<>>
    BY <1>1, <2>3
  <2>5. o.table[r] = o.blocks[r] /\ o.computed[r] = 0
    BY <1>7, <2>3, AppendedFits
  <2>6. p.status = "running" /\ p.blocks = o.blocks[r] /\ p.computed = o.num[r]
    BY <1>2, <1>4, <2>3, <2>4, <2>5
  <2>7. r \notin told'
    BY <1>1, <1>3, <2>3
  <2> HIDE DEF w
  <2>8. QED BY <1>4, <1>7, <2>2, <2>4, <2>5, <2>6, <2>7 DEF v, w, p
<1>8. CASE r \in Scheduled(o) /\ r \notin o.new
  <2>1. q.status = "running" /\ r \notin Removed(o)
    BY <1>2, <1>3, <1>6, <1>8
  <2>2. v.has /\ v.blocks = q.blocks /\ v.computed = q.computed
    BY <1>1, <2>1
  <2>3. w = [has |-> TRUE, computed |-> v.computed + o.num[r], blocks |-> v.blocks \o o.blocks[r]]
    BY <1>8, <2>1 DEF AfterOutput
  <2> DEFINE c == v.computed + o.num[r]
             b == v.blocks \o o.blocks[r]
  <2>4. w.has = TRUE /\ w.computed = c /\ w.blocks = b
    <3> HIDE DEF w, c, b
    <3>1. w = [has |-> TRUE, computed |-> c, blocks |-> b]
      BY <2>3 DEF c, b
    <3>2. QED BY <3>1
  <2>5. o.computed[r] = v.computed /\ o.table[r] = b
    BY <1>5, <1>8, <2>2
  <2>6. p.status = "running" /\ p.blocks = w.blocks /\ p.computed = w.computed /\ w.computed \in Nat
    <3>1. c = q.computed + o.num[r] /\ c \in Nat
      BY <1>4, <2>2
    <3> HIDE DEF w, b, c
    <3>2. QED BY <1>2, <1>8, <2>4, <2>5, <3>1
  <2>7. r \notin told'
    BY <1>1, <1>3, <2>1
  <2>8. r \in Running \ o.preempted
    BY <1>2, <1>3, <1>8, <2>1
  <2> HIDE DEF w
  <2>9. QED BY <1>8, <2>2, <2>4, <2>5, <2>6, <2>7, <2>8 DEF v, w, p
<1>9. CASE r \notin Scheduled(o) /\ r \in Removed(o)
  <2>1. w = Absent
    BY <1>3, <1>9 DEF AfterOutput
  <2>2. ~w.has /\ w.computed \in Nat
    BY <2>1 DEF Absent
  <2>3. CASE r \in o.preempted
    <3>1. p.status = "preempted" /\ p.computed = 0 /\ p.blocks = <<>>
      BY <1>2, <2>3
    <3>2. r \notin told'
      BY <1>1, <1>3, <2>3
    <3> HIDE DEF w
    <3>3. QED BY <1>9, <2>2, <3>1, <3>2 DEF v, w, p
  <2>4. CASE r \in o.finished /\ r \notin o.preempted
    <3>1. p.status = "finished"
      BY <1>2, <1>3, <1>9, <2>4
    <3> HIDE DEF w
    <3>2. QED BY <1>9, <2>2, <3>1 DEF v, w, p
  <2>5. QED BY <1>6, <1>9, <2>3, <2>4
<1>10. CASE r \notin Scheduled(o) /\ r \notin Removed(o)
  <2>1. w = v /\ p = q /\ r \notin o.new
    BY <1>2, <1>3, <1>6, <1>10 DEF AfterOutput
  <2>2. r \in told' => r \in told
    BY <1>3, <1>6, <1>10
  <2>3. v.has => r \in Running \ o.preempted
    BY <1>1, <1>3, <1>4, <1>6, <1>10
  <2> HIDE DEF w
  <2>4. QED BY <1>1, <1>10, <2>1, <2>2, <2>3 DEF v, w, p
<1>11. QED BY <1>7, <1>8, <1>9, <1>10

LEMMA ScheduledPipeline ==
    ASSUME RunnerInv, Schedule, NEW o, Appends(o)
    PROVE  Pipeline'
<1> DEFINE n == Len(outputs)
           W == {r \in Requests : AfterOutput(View(n, r), o, r).has}
           kept == Running \ o.preempted
<1>1. UNCHANGED <<cfg, answers, slot, exec>>
  BY DEF Schedule, workerVars
<1>2. n \in Nat /\ Len(outputs') = n + 1 /\ Len(answers) \in Nat /\ cfg.async \in BOOLEAN
  BY AppendedOutputs, StateTypes, CfgTypes DEF RunnerInv
<1>3. Len(outputs') + Len(answers) + (IF exec = <<>> THEN 0 ELSE 1) <= (IF cfg.async THEN 2 ELSE 1)
  <2>1. n + Len(answers) + (IF exec = <<>> THEN 0 ELSE 1) < (IF cfg.async THEN 2 ELSE 1)
    BY DEF Appends
  <2> DEFINE x == IF exec = <<>> THEN 0 ELSE 1
             y == IF cfg.async THEN 2 ELSE 1
             m == Len(answers)
  <2>2. x \in Nat /\ y \in Nat /\ m \in Nat /\ n + m + x < y
    BY <1>2, <2>1
  <2> HIDE DEF n, m, x, y
  <2>3. n + 1 + m + x <= y
    BY <1>2, <2>2
  <2>4. QED BY <1>2, <2>3 DEF m, x, y
<1>4. Cardinality(W) <= MaxNumReqs
  <2>1. W \subseteq kept \cup o.new
    BY AppendedRequest
  <2>2. Cardinality(kept) + Cardinality(o.new) <= MaxNumReqs
    BY DEF Appends
  <2>3. kept \cap o.new = {}
    BY DEF Appends, Running
  <2>4. kept \in SUBSET Requests /\ o.new \in SUBSET Requests /\ W \in SUBSET Requests
    BY AppendedOutputOK, NothingUnderWay DEF Running
  <2> HIDE DEF W, kept
  <2>5. /\ IsFiniteSet(kept) /\ IsFiniteSet(o.new) /\ IsFiniteSet(W)
        /\ Cardinality(kept) \in Nat /\ Cardinality(o.new) \in Nat /\ Cardinality(W) \in Nat
    BY <2>4, ConstantTypes, FS_Subset, FS_CardinalityType
  <2>6. /\ IsFiniteSet(kept \cup o.new)
        /\ Cardinality(kept \cup o.new)
             = Cardinality(kept) + Cardinality(o.new) - Cardinality(kept \cap o.new)
    BY <2>5, FS_Union
  <2>7. Cardinality(kept \cap o.new) = 0
    BY <2>3, FS_EmptySet
  <2>8. Cardinality(W) <= Cardinality(kept \cup o.new)
    BY <2>1, <2>6, FS_Subset
  <2>9. QED BY <2>2, <2>5, <2>6, <2>7, <2>8, ConstantTypes
<1>5. ASSUME NEW k \in 0 .. Len(outputs')
      PROVE  Cardinality({r \in Requests : View(k, r)'.has}) <= MaxNumReqs
  <2>1. CASE k \in 0 .. n
    <3>1. {r \in Requests : View(k, r)'.has} = {r \in Requests : View(k, r).has}
      BY <2>1, AppendedViews
    <3>2. Cardinality({r \in Requests : View(k, r).has}) <= MaxNumReqs
      BY <2>1 DEF RunnerInv, Pipeline
    <3>3. QED BY <3>1, <3>2
  <2>2. CASE k = n + 1
    <3>1. {r \in Requests : View(k, r)'.has} = W
      BY <2>2, AppendedViews
    <3>2. QED BY <1>4, <3>1
  <2>3. k \in 0 .. n \/ k = n + 1
    <3> HIDE DEF n
    <3>1. QED BY <1>2
  <2>4. QED BY <2>1, <2>2, <2>3
<1>6. \A k \in 0 .. Len(outputs') : Cardinality({r \in Requests : View(k, r).has})' <= MaxNumReqs
  BY <1>5
<1>7. /\ \A r, s \in Requests : slot[r] = slot[s] /\ slot[r] # 0 => r = s
      /\ \A i, j \in DOMAIN exec : exec[i].r = exec[j].r => i = j
  BY DEF RunnerInv, Pipeline
<1>8. QED BY <1>1, <1>3, <1>6, <1>7 DEF Pipeline

LEMMA ScheduledFit ==
    ASSUME RunnerInv, Schedule, NEW o, Appends(o)
    PROVE  OutputsFit'
<1> DEFINE n == Len(outputs)
<1>1. \A p : Scheduled(p)' = Scheduled(p)
  BY DEF Scheduled
<1> SUFFICES ASSUME NEW k \in DOMAIN outputs', NEW r \in Scheduled(outputs'[k])
             PROVE  LET p == outputs'[k]
                    IN  IF r \in p.new
                        THEN ~View(k - 1, r)'.has /\ p.computed[r] = 0
                             /\ p.table[r] = p.blocks[r]
                        ELSE /\ View(k - 1, r)'.has
                             /\ p.computed[r] = View(k - 1, r)'.computed
                             /\ p.table[r] = View(k - 1, r)'.blocks \o p.blocks[r]
  BY <1>1 DEF OutputsFit
<1>2. /\ n \in Nat /\ DOMAIN outputs = 1 .. n /\ DOMAIN outputs' = 1 .. n + 1
      /\ \A i \in 1 .. n : outputs'[i] = outputs[i]
      /\ outputs'[n + 1] = o
  BY AppendedOutputs, StateTypes DEF RunnerInv
<1>3. r \in Requests
  BY DEF Scheduled
<1>4. k - 1 \in 0 .. n /\ (k \in 1 .. n \/ k = n + 1)
  <2> HIDE DEF n
  <2>1. QED BY <1>2
<1>5. View(k - 1, r)' = View(k - 1, r)
  BY <1>3, <1>4, AppendedViews
<1>6. CASE k \in 1 .. n
  <2>1. outputs'[k] = outputs[k] /\ k \in DOMAIN outputs /\ r \in Scheduled(outputs[k])
    BY <1>2, <1>6
  <2>2. LET p == outputs[k]
        IN  IF r \in p.new
            THEN ~View(k - 1, r).has /\ p.computed[r] = 0 /\ p.table[r] = p.blocks[r]
            ELSE /\ View(k - 1, r).has /\ p.computed[r] = View(k - 1, r).computed
                 /\ p.table[r] = View(k - 1, r).blocks \o p.blocks[r]
    BY <2>1 DEF RunnerInv, OutputsFit
  <2>3. QED BY <1>5, <2>1, <2>2
<1>7. CASE k = n + 1
  <2>1. outputs'[k] = o /\ r \in Scheduled(o) /\ k - 1 = n
    BY <1>2, <1>7
  <2>2. LET v == View(n, r)
        IN  IF r \in o.new
            THEN ~v.has /\ o.computed[r] = 0 /\ o.table[r] = o.blocks[r]
            ELSE /\ v.has /\ o.computed[r] = v.computed
                 /\ o.table[r] = v.blocks \o o.blocks[r]
    BY <2>1, AppendedFits
  <2>3. View(k - 1, r)' = View(n, r)
    BY <1>5, <2>1
  <2>4. QED BY <2>1, <2>2, <2>3
<1>8. QED BY <1>4, <1>6, <1>7

LEMMA ScheduledAgrees ==
    ASSUME RunnerInv, Schedule, NEW o, Appends(o)
    PROVE  EngineAgrees'
<1>1. UNCHANGED <<cfg, answers>>
  BY DEF Schedule
<1>2. \A r \in Requests : Owed(r)' = 0
  BY <1>1, NothingUnderWay DEF Owed
<1>3. \A r \in Requests : View(Len(outputs), r)' = AfterOutput(View(Len(outputs), r), o, r)
  <2>1. Len(outputs') = Len(outputs) + 1
    BY AppendedOutputs
  <2>2. \A k, r : r \in Requests /\ k = Len(outputs) + 1 =>
           View(k, r)' = AfterOutput(View(Len(outputs), r), o, r)
    BY AppendedViews
  <2>3. QED BY <2>1, <2>2
<1> SUFFICES ASSUME NEW r \in Requests
             PROVE  LET w == AfterOutput(View(Len(outputs), r), o, r)
                        p == eng'[r]
                    IN  /\ w.computed \in Nat
                        /\ p.status = "running" =>
                             w.has /\ w.blocks = p.blocks /\ w.computed = p.computed - 0
                        /\ p.status \in {"none", "preempted"} =>
                             ~w.has /\ p.computed = 0 /\ p.blocks = <<>>
                        /\ r \in told' => ~w.has /\ p.status = "finished"
  BY <1>2, <1>3 DEF EngineAgrees
<1>4. eng'[r].computed - 0 = eng'[r].computed
  <2>1. eng'[r].computed \in Nat
    BY AppendedEngine DEF RequestOK
  <2>2. QED BY <2>1
<1> DEFINE w == AfterOutput(View(Len(outputs), r), o, r)
           p == eng'[r]
<1>5. /\ w.computed \in Nat
      /\ p.status = "running" => w.has /\ w.blocks = p.blocks /\ w.computed = p.computed
      /\ p.status \in {"none", "preempted"} => ~w.has /\ p.computed = 0 /\ p.blocks = <<>>
      /\ r \in told' => ~w.has /\ p.status = "finished"
  BY AppendedRequest
<1>6. p.computed - 0 = p.computed
  BY <1>4
<1> HIDE DEF w, p
<1>7. QED BY <1>5, <1>6 DEF w, p

LEMMA ScheduledTokens ==
    ASSUME RunnerInv, Schedule, NEW o, Appends(o)
    PROVE  TokensKnown'
<1>1. UNCHANGED <<cfg, answers, slot, st, exec>>
  BY DEF Schedule, workerVars
<1>2. \A r \in Requests : /\ eng'[r].tokens = eng[r].tokens
                          /\ ~cfg.async => eng'[r].placeholders = eng[r].placeholders
                          /\ eng'[r].status = "finished" <=> eng[r].status = "finished"
  <2> SUFFICES ASSUME NEW r \in Requests
               PROVE  /\ eng'[r].tokens = eng[r].tokens
                      /\ ~cfg.async => eng'[r].placeholders = eng[r].placeholders
                      /\ eng'[r].status = "finished" <=> eng[r].status = "finished"
    OBVIOUS
  <2>1. /\ r \in o.preempted => eng[r].status = "running"
        /\ r \in Scheduled(o) => eng[r].status # "finished"
    BY DEF Appends, Running
  <2>2. QED BY <2>1, AppendedEngine
<1>3. ASSUME ~cfg.async, NEW r \in Requests, eng'[r].status = "running"
      PROVE  /\ answers = <<>>
             /\ eng'[r].computed - DraftsOf(r)' <= eng'[r].tokens
  <2>1. outputs = <<>> /\ answers = <<>> /\ exec = <<>>
    BY <1>3, NothingUnderWay
  <2>2. DraftsOf(r)' = o.drafts[r]
    <3>1. outputs' # <<>> /\ Head(outputs') = o
      BY <2>1, AppendedOutputs
    <3>2. QED BY <3>1 DEF DraftsOf
  <2>3. CASE r \in Scheduled(o)
    <3>1. eng[r].computed + o.num[r] - o.drafts[r] <= eng[r].tokens
      BY <1>3, <2>3, AppendedDrafts
    <3>2. eng'[r].computed = eng[r].computed + o.num[r]
      BY <2>3, AppendedEngine
    <3>3. eng'[r].computed - o.drafts[r] <= eng[r].tokens
      <4>1. /\ eng[r].computed \in Nat /\ o.num[r] \in Nat /\ o.drafts[r] \in Nat
            /\ eng[r].tokens \in Nat
        BY <2>3, AppendedDrafts, StateTypes DEF RunnerInv
      <4>2. QED BY <3>1, <3>2, <4>1
    <3>4. QED BY <1>2, <2>1, <2>2, <3>3
  <2>4. CASE r \notin Scheduled(o)
    <3>1. r \notin o.preempted /\ eng'[r] = eng[r]
      BY <1>3, <2>4, AppendedEngine
    <3>2. eng[r].computed - DraftsOf(r) <= eng[r].tokens
      BY <1>3, <2>1, <3>1 DEF RunnerInv, TokensKnown
    <3>3. DraftsOf(r) = 0
      <4>1. DOMAIN exec = {}
        BY <2>1
      <4>2. QED BY <2>1, <4>1 DEF DraftsOf
    <3>4. o.drafts[r] = 0
      BY <2>4, AppendedOutputOK
    <3>5. QED BY <2>1, <2>2, <3>1, <3>2, <3>3, <3>4
  <2>5. QED BY <2>3, <2>4
<1>4. /\ \A r \in Requests : slot[r] # 0 => st[slot[r]].prefill <= eng'[r].tokens
      /\ \A r \in Requests : eng'[r].status # "finished" =>
            eng'[r].tokens < PromptLen[r] + MaxTokens[r]
      /\ ~cfg.async => \A r \in Requests : eng'[r].placeholders = 0
  BY <1>2 DEF RunnerInv, TokensKnown
<1>5. QED BY <1>1, <1>3, <1>4 DEF TokensKnown

LEMMA ScheduleStep ==
    ASSUME RunnerInv, Schedule
    PROVE  RunnerInv'
<1>1. PICK o : Appends(o)
  BY ScheduleChoice
<1>2. UNCHANGED <<cfg, stage, graphs, hidden_states, draft_graphs, exec>>
  BY DEF Schedule, graphVars, workerVars
<1>3. GraphsCaptured'
  BY <1>1, <1>2 DEF Appends, RunnerInv, GraphsCaptured, GraphSizes, UpperBound
<1>4. FollowsScheduler'
  BY <1>2 DEF RunnerInv, FollowsScheduler
<1>5. QED BY <1>1, <1>3, <1>4, ScheduledTypes, ScheduledPipeline, ScheduledFit, ScheduledAgrees,
            ScheduledTokens DEF RunnerInv

--------------------------------------------------------------------------------
(* The theorems *)

LEMMA NextStep ==
    ASSUME RunnerInv, PaddedRowsInert, [Next]_vars
    PROVE  RunnerInv' /\ PaddedRowsInert'
<1>1. PaddedRowsInert'
  BY PaddedStep DEF RunnerInv
<1> SUFFICES RunnerInv'
  BY <1>1
<1>2. CASE CaptureGraph
  BY <1>2, CaptureGraphStep
<1>3. CASE CaptureDraftGraph
  BY <1>3, CaptureDraftGraphStep
<1>4. CASE CaptureDone
  BY <1>4, CaptureDoneStep
<1>5. CASE Schedule
  BY <1>5, ScheduleStep
<1>6. CASE Update
  BY <1>6, UpdateStep
<1>7. CASE TakeDraftTokenIds
  BY <1>7, TakeDraftTokenIdsStep
<1>8. CASE \E r \in Requests : Abort(r)
  BY <1>8, AbortStep
<1>9. CASE Execute
  BY <1>9, ExecuteStep
<1>10. CASE SampleTokens
  BY <1>10, SampleTokensStep
<1>11. CASE UNCHANGED vars
  <2>1. UNCHANGED <<cfg, stage, graphs, hidden_states, draft_graphs, eng, told, turn, preemptions,
                    outputs, answers, slot, st, exec, last_draft, rows, draft_kv>>
    BY <1>11 DEF vars, graphVars, engineVars, workerVars
  <2>2. TypeOK'
    BY <2>1, TypeParts, TypePartsNext, TypesSame DEF RunnerInv
  <2>3. Rest'
    BY <2>1, RestSame DEF RunnerInv, Rest
  <2>4. GraphsCaptured'
    BY <2>1 DEF RunnerInv, GraphsCaptured, GraphSizes, UpperBound
  <2>5. QED BY <2>2, <2>3, <2>4 DEF RunnerInv, Rest
<1>12. QED
  BY <1>2, <1>3, <1>4, <1>5, <1>6, <1>7, <1>8, <1>9, <1>10, <1>11 DEF Next

\* The invariant, in every deployment: what the worker has of a request, and will have
\* once it has executed the outputs on their way, is what the engine has of it.
THEOREM RunnerInvariant == Spec => [](RunnerInv /\ PaddedRowsInert)
<1>1. Init => RunnerInv /\ PaddedRowsInert
  BY InitInv
<1>2. RunnerInv /\ PaddedRowsInert /\ [Next]_vars => (RunnerInv /\ PaddedRowsInert)'
  BY NextStep
<1>3. QED BY <1>1, <1>2, PTL DEF Spec

\* The worker computes the positions the scheduler scheduled, in the blocks the scheduler
\* allocated, though nothing of a slot is sent again after the request was added
\* (update_requests, prepare_inputs, postprocess).
THEOREM WorkerFollowsScheduler == Spec => []FollowsScheduler
<1>1. RunnerInv => FollowsScheduler
  BY DEF RunnerInv
<1>2. QED BY <1>1, RunnerInvariant, PTL

\* No batch is larger than the graph it is replayed with, which has been captured, and no
\* graph is larger than the output buffer the first one allocated (capture_graphs, run).
THEOREM ReplayedGraphsFit == Spec => []GraphsFitBuffer
<1>1. RunnerInv => GraphsFitBuffer
  BY GraphsFit DEF RunnerInv
<1>2. QED BY <1>1, RunnerInvariant, PTL

\* The rows that pad a draft step to the size of its graph attend to nothing, store nothing
\* and scatter nothing, whatever earlier batches and the capture left in them
\* (_prepare_dspark_inputs_kernel, _build_draft_attn_metadata).
THEOREM PaddingIsInert == Spec => []PaddedRowsInert
BY RunnerInvariant, PTL

--------------------------------------------------------------------------------
(* Whose tokens: prefills *)

LEMMA PrefillSame ==
    ASSUME UNCHANGED <<slot, st, outputs>>, NEW k, NEW r
    PROVE  Prefill(k, r)' = Prefill(k, r)
BY DEF Prefill

\* A prefill is known to the engine.
LEMMA PrefillKnown ==
    ASSUME RunnerInv, NEW r \in Requests, NEW k \in 0 .. Len(outputs)
    PROVE  Prefill(k, r) \in Nat /\ Prefill(k, r) <= eng[r].tokens
<1>1. /\ eng[r].tokens \in Nat /\ Len(outputs) \in Nat /\ DOMAIN outputs = 1 .. Len(outputs)
      /\ slot[r] \in 0 .. MaxNumReqs /\ MaxNumReqs \in Nat
  BY StateTypes, ConstantTypes DEF RunnerInv
<1>2. \A i \in DOMAIN outputs : r \in outputs[i].new =>
        outputs[i].tokens[r] \in Nat /\ outputs[i].tokens[r] <= eng[r].tokens
  <2>1. \A i \in DOMAIN outputs : r \in outputs[i].new =>
          outputs[i].tokens[r] \in 0 .. eng[r].tokens
    BY DEF RunnerInv, TypeOK, OutputOK
  <2>2. QED BY <1>1, <2>1
<1>3. slot[r] # 0 => st[slot[r]].prefill \in Nat /\ st[slot[r]].prefill <= eng[r].tokens
  <2>1. slot[r] # 0 => slot[r] \in Slots
    BY <1>1 DEF Slots
  <2>2. slot[r] # 0 => StateOK(st[slot[r]])
    BY <2>1 DEF RunnerInv, TypeOK
  <2>3. QED BY <2>2, SlotFields DEF RunnerInv, TokensKnown
<1>4. (k = 2 => 2 \in DOMAIN outputs) /\ (k >= 1 => 1 \in DOMAIN outputs)
  BY <1>1
<1>5. QED BY <1>1, <1>2, <1>3, <1>4 DEF Prefill

\* Appending an output changes the prefill of its new requests.
LEMMA AppendedPrefill ==
    ASSUME RunnerInv, NEW o, Appends(o), UNCHANGED <<slot, st>>, NEW r
    PROVE  /\ \A k \in 0 .. Len(outputs) : Prefill(k, r)' = Prefill(k, r)
           /\ \A k : k = Len(outputs) + 1 =>
                Prefill(k, r)' = IF r \in o.new THEN o.tokens[r] ELSE Prefill(Len(outputs), r)
<1>1. Len(outputs) \in 0 .. 1
  BY NothingUnderWay
<1>2. /\ \A i \in 1 .. Len(outputs) : outputs'[i] = outputs[i]
      /\ outputs'[Len(outputs) + 1] = o
  BY AppendedOutputs
<1>3. CASE Len(outputs) = 0
  <2>1. outputs'[1] = o /\ \A k \in 0 .. Len(outputs) : k = 0
    BY <1>2, <1>3
  <2>2. Prefill(0, r)' = Prefill(0, r)
    BY DEF Prefill
  <2>3. Prefill(1, r)' = IF r \in o.new THEN o.tokens[r] ELSE Prefill(0, r)
    BY <2>1 DEF Prefill
  <2>4. \A k : k = Len(outputs) + 1 => k = 1
    BY <1>3
  <2>5. QED BY <1>3, <2>1, <2>2, <2>3, <2>4
<1>4. CASE Len(outputs) = 1
  <2>1. outputs'[1] = outputs[1] /\ outputs'[2] = o /\ \A k \in 0 .. Len(outputs) : k = 0 \/ k = 1
    BY <1>2, <1>4
  <2>2. Prefill(0, r)' = Prefill(0, r) /\ Prefill(1, r)' = Prefill(1, r)
    BY <2>1 DEF Prefill
  <2>3. Prefill(2, r)' = IF r \in o.new THEN o.tokens[r] ELSE Prefill(1, r)
    BY <2>1 DEF Prefill
  <2>4. \A k : k = Len(outputs) + 1 => k = 2
    BY <1>4
  <2>5. QED BY <1>4, <2>1, <2>2, <2>3, <2>4
<1>5. QED BY <1>1, <1>3, <1>4

\* Executing an output leaves the prefills as they were announced, but for requests
\* that left.
LEMMA ExecutedPrefill ==
    ASSUME RunnerInv, Execute, NEW r \in Requests, NEW k \in 0 .. Len(outputs'),
           r \notin Removed(Head(outputs)) \/ (k = 1 /\ r \in outputs[2].new)
    PROVE  Prefill(k, r)' = Prefill(k + 1, r)
<1> DEFINE o == Head(outputs)
<1>1. /\ o = outputs[1] /\ Len(outputs') \in 0 .. 1
      /\ \A i \in 1 .. Len(outputs') : outputs'[i] = outputs[i + 1]
      /\ o.new \subseteq Scheduled(o) /\ Scheduled(o) \subseteq Requests
      /\ Removed(o) \cap Scheduled(o) = {}
  BY OutputFacts, ExecutedViews DEF Execute
<1>2. k = 0 \/ k = 1
  BY <1>1
<1>3. k = 1 => outputs'[1] = outputs[2]
  BY <1>1
<1>4. CASE k = 1 /\ r \in outputs[2].new
  BY <1>3, <1>4 DEF Prefill
<1>5. CASE ~(k = 1 /\ r \in outputs[2].new)
  <2>1. r \notin Removed(o)
    BY <1>5
  <2>2. Prefill(k + 1, r) = IF r \in o.new THEN o.tokens[r]
                            ELSE IF slot[r] = 0 THEN 0 ELSE st[slot[r]].prefill
    BY <1>1, <1>2, <1>5 DEF Prefill
  <2>3. Prefill(k, r)' = IF slot'[r] = 0 THEN 0 ELSE st'[slot'[r]].prefill
    BY <1>2, <1>3, <1>5 DEF Prefill
  <2> HIDE DEF o
  <2>4. CASE r \in o.new
    <3>1. slot'[r] \in Slots /\ st'[slot'[r]] = WithRequest(st[slot'[r]], o, r)
      BY <2>4, ExecutedSlots, ExecutedStates DEF o
    <3>2. /\ slot'[r] # 0 /\ StateOK(st[slot'[r]])
          /\ o.tokens[r] \in Nat
      <4>1. \A i \in Slots : i # 0 /\ StateOK(st[i])
        BY DEF RunnerInv, TypeOK, Slots
      <4>2. outputs # <<>>
        BY DEF Execute
      <4>3. QED BY <2>4, <3>1, <4>1, <4>2, OutputFacts DEF o
    <3>3. st'[slot'[r]].prefill = o.tokens[r]
      BY <3>1, <3>2, SlotWithRequest
    <3>4. QED BY <2>2, <2>3, <2>4, <3>2, <3>3
  <2>5. CASE r \notin o.new
    <3>1. slot'[r] = slot[r]
      BY <2>1, <2>5, ExecutedSlots DEF o
    <3>2. slot[r] # 0 => slot[r] \in Slots /\ StateOK(st[slot[r]])
      BY StateTypes, ConstantTypes DEF RunnerInv, TypeOK, Slots
    <3>3. slot[r] # 0 => st'[slot[r]].prefill = st[slot[r]].prefill
      <4>1. CASE r \in Scheduled(o)
        BY <2>5, <3>2, <4>1, ExecutedStates, SlotWithBlocks DEF o
      <4>2. CASE r \notin Scheduled(o)
        BY <3>1, <4>2, ExecutedStates DEF o
      <4>3. QED BY <4>1, <4>2
    <3>4. QED BY <2>2, <2>3, <2>5, <3>1, <3>3
  <2>6. QED BY <2>4, <2>5
<1>6. QED BY <1>4, <1>5

--------------------------------------------------------------------------------
(* Whose tokens: the parts of TokenInv, and the steps of the engine alone *)

WorkerOwn ==
    /\ OutputsOwn /\ \A n \in DOMAIN exec : RowOwn(exec[n])
    /\ \A r \in Requests : SlotOwn(r)
    /\ \A n \in DOMAIN last_draft : AnchorOwn(last_draft[n])

KnownTokens == \A r \in Requests : eng[r].status = "running" => KnownAhead(r)

SamplesAwaited ==
    cfg.async =>
      /\ \A k \in DOMAIN answers : \A r \in DOMAIN answers[k] : answers[k][r].sampled <= 1
      /\ \A r \in Requests : PlaceholdersAwaited(r) /\ PreemptedApart(r)

LEMMA TokenParts ==
    /\ TokenInv <=> WorkerOwn /\ KnownTokens /\ SamplesAwaited
    /\ TokenInv' <=> WorkerOwn' /\ KnownTokens' /\ SamplesAwaited'
BY DEF TokenInv, WorkerOwn, KnownTokens, SamplesAwaited

LEMMA WorkerOwnSame ==
    ASSUME WorkerOwn, UNCHANGED <<cfg, slot, st, outputs, exec, last_draft>>
    PROVE  WorkerOwn'
<1>1. OutputsOwn'
  <2>1. \A k, r : Prefill(k, r)' = Prefill(k, r)
    BY PrefillSame
  <2>2. \A k \in DOMAIN outputs : Scheduled(outputs[k])' = Scheduled(outputs[k])
    BY DEF Scheduled
  <2>3. QED BY <2>1, <2>2 DEF WorkerOwn, OutputsOwn
<1>2. \A n \in DOMAIN exec' : RowOwn(exec[n])'
  BY DEF WorkerOwn, RowOwn, Chunked
<1>3. \A r \in Requests : SlotOwn(r)'
  BY DEF WorkerOwn, SlotOwn, InBatch
<1>4. \A n \in DOMAIN last_draft' : AnchorOwn(last_draft[n])'
  BY DEF WorkerOwn, AnchorOwn
<1>5. QED BY <1>1, <1>2, <1>3, <1>4 DEF WorkerOwn

LEMMA KnownSame ==
    ASSUME UNCHANGED <<cfg, slot, st, outputs, exec, answers>>, NEW r \in Requests,
           eng'[r].tokens = eng[r].tokens, eng'[r].computed = eng[r].computed,
           eng'[r].placeholders = eng[r].placeholders, KnownAhead(r)
    PROVE  KnownAhead(r)'
BY DEF KnownAhead, NumOf, DraftsOf, Batched, Prefill

LEMMA AwaitedSame ==
    ASSUME UNCHANGED <<slot, st, outputs, exec, answers>>, NEW r
    PROVE  Awaited(r)' = Awaited(r)
<1>1. \A k : OutputSamples(k, r)' = OutputSamples(k, r)
  BY DEF OutputSamples, Scheduled, Prefill
<1>2. RowSamples(r)' = RowSamples(r)
  BY DEF RowSamples, Chunked
<1>3. \A k : AnswerSamples(k, r)' = AnswerSamples(k, r)
  BY DEF AnswerSamples
<1>4. QED BY <1>1, <1>2, <1>3 DEF Awaited, One

\* A step that touches neither the worker nor what is under way leaves TokenInv as it is,
\* if it leaves the counts of the requests it does not finish.
LEMMA EngineTokens ==
    ASSUME TokenInv, UNCHANGED <<cfg, slot, st, outputs, exec, answers, last_draft>>,
           \A r \in Requests :
             \/ eng'[r].status = "finished"
             \/ /\ eng'[r].status = eng[r].status /\ eng'[r].tokens = eng[r].tokens
                /\ eng'[r].computed = eng[r].computed
                /\ eng'[r].placeholders = eng[r].placeholders
    PROVE  TokenInv'
<1>1. WorkerOwn'
  BY WorkerOwnSame, TokenParts
<1>2. KnownTokens'
  <2> SUFFICES ASSUME NEW r \in Requests, eng'[r].status = "running" PROVE KnownAhead(r)'
    BY DEF KnownTokens
  <2>1. eng[r].status = "running" => KnownAhead(r)
    BY TokenParts DEF KnownTokens
  <2>2. QED BY <2>1, KnownSame
<1>3. SamplesAwaited'
  <2> SUFFICES ASSUME cfg.async
               PROVE  /\ \A k \in DOMAIN answers : \A r \in DOMAIN answers[k] :
                           answers[k][r].sampled <= 1
                      /\ \A r \in Requests : PlaceholdersAwaited(r)' /\ PreemptedApart(r)'
    BY DEF SamplesAwaited
  <2>1. SamplesAwaited
    BY TokenParts
  <2>2. ASSUME NEW r \in Requests PROVE PlaceholdersAwaited(r)' /\ PreemptedApart(r)'
    <3>1. Awaited(r)' = Awaited(r)
      BY AwaitedSame
    <3>2. PlaceholdersAwaited(r)'
      BY <2>1, <3>1 DEF SamplesAwaited, PlaceholdersAwaited
    <3>3. PreemptedApart(r)'
      BY <2>1 DEF SamplesAwaited, PreemptedApart, Scheduled, InBatch
    <3>4. QED BY <3>2, <3>3
  <2>3. QED BY <2>1, <2>2 DEF SamplesAwaited
<1>4. QED BY <1>1, <1>2, <1>3, TokenParts

LEMMA InitTokens ==
    ASSUME Init
    PROVE  TokenInv
<1>1. /\ outputs = <<>> /\ answers = <<>> /\ exec = <<>> /\ last_draft = <<>>
      /\ DOMAIN outputs = {} /\ DOMAIN answers = {} /\ DOMAIN exec = {} /\ DOMAIN last_draft = {}
      /\ slot = [r \in Requests |-> 0] /\ eng = [r \in Requests |-> NewRequest(r)]
  BY DEF Init
<1>2. \A r \in Requests : eng[r].status = "none" /\ eng[r].placeholders = 0 /\ slot[r] = 0
  BY <1>1 DEF NewRequest
<1>3. WorkerOwn
  BY <1>1, <1>2 DEF WorkerOwn, OutputsOwn, SlotOwn
<1>4. KnownTokens
  BY <1>2 DEF KnownTokens
<1>5. \A r \in Requests : Awaited(r) = 0
  BY <1>1 DEF Awaited, OutputSamples, RowSamples, AnswerSamples, One
<1>6. SamplesAwaited
  BY <1>1, <1>2, <1>5 DEF SamplesAwaited, PlaceholdersAwaited, PreemptedApart
<1>7. QED BY <1>3, <1>4, <1>6, TokenParts

\* The captures, the drafts' way back, an abort and a stutter.
LEMMA QuietTokens ==
    ASSUME RunnerInv, TokenInv,
           \/ CaptureGraph \/ CaptureDraftGraph \/ CaptureDone \/ TakeDraftTokenIds
           \/ \E r \in Requests : Abort(r)
           \/ UNCHANGED vars
    PROVE  TokenInv'
<1> DEFINE Frame == UNCHANGED <<cfg, slot, st, outputs, exec, answers, last_draft>>
           Kept == \A r \in Requests :
             \/ eng'[r].status = "finished"
             \/ /\ eng'[r].status = eng[r].status /\ eng'[r].tokens = eng[r].tokens
                /\ eng'[r].computed = eng[r].computed
                /\ eng'[r].placeholders = eng[r].placeholders
<1>1. SUFFICES Frame /\ Kept
  <2> SUFFICES ASSUME Frame, Kept PROVE TokenInv'
    OBVIOUS
  <2>1. QED BY EngineTokens
<1>2. \A r \in Requests : RequestOK(eng[r]) /\ cfg.spec \in Nat
  BY CfgTypes DEF RunnerInv, TypeOK
<1>3. CASE CaptureGraph \/ CaptureDraftGraph \/ CaptureDone \/ UNCHANGED vars
  BY <1>3 DEF CaptureGraph, CaptureDraftGraph, CaptureDone, vars, graphVars, engineVars,
     workerVars
<1>4. CASE TakeDraftTokenIds
  <2>1. Frame
    BY <1>4 DEF TakeDraftTokenIds, graphVars, workerVars
  <2>2. ASSUME NEW r \in Requests
        PROVE  eng'[r] = [eng[r] EXCEPT !.spec = cfg.spec] \/ eng'[r] = eng[r]
    BY <1>4 DEF TakeDraftTokenIds
  <2>3. \A r \in Requests :
          /\ eng'[r].status = eng[r].status /\ eng'[r].tokens = eng[r].tokens
          /\ eng'[r].computed = eng[r].computed
          /\ eng'[r].placeholders = eng[r].placeholders
    BY <1>2, <2>2, DraftedRequest
  <2>4. QED BY <2>1, <2>3
<1>5. CASE \E r \in Requests : Abort(r)
  <2>1. PICK a \in Requests : Abort(a)
    BY <1>5
  <2>2. Frame
    BY <2>1 DEF Abort, graphVars, workerVars
  <2>3. eng' = [eng EXCEPT ![a] = [eng[a] EXCEPT !.status = "finished", !.blocks = <<>>]]
    BY <2>1 DEF Abort
  <2>4. eng = [r \in Requests |-> eng[r]]
    BY DEF RunnerInv, TypeOK
  <2>5. \A r \in Requests : r # a => eng'[r] = eng[r]
    BY <2>3, <2>4
  <2>6. eng'[a].status = "finished"
    <3>1. eng'[a] = [eng[a] EXCEPT !.status = "finished", !.blocks = <<>>]
      BY <2>3, <2>4
    <3>2. QED BY <1>2, <3>1, FinishedRequest
  <2>7. QED BY <2>2, <2>5, <2>6
<1>6. QED BY <1>3, <1>4, <1>5

--------------------------------------------------------------------------------
(* Whose tokens: update_from_output *)

LEMMA UpdatedEngine ==
    ASSUME RunnerInv, Update, NEW r \in Requests
    PROVE  LET a == Head(answers)[r]
           IN  IF r \in DOMAIN Head(answers) /\ eng[r].status \notin {"none", "finished"}
               THEN /\ a.sampled \in Nat /\ a.rejected \in Nat
                    /\ eng'[r].status = "finished" \/
                         /\ eng'[r].tokens = eng[r].tokens + a.sampled
                         /\ eng'[r].status = eng[r].status
                         /\ eng'[r].computed = Most(0, eng[r].computed - a.rejected)
                         /\ cfg.async => eng'[r].placeholders = eng[r].placeholders - a.sampled
               ELSE eng'[r] = eng[r]
<1>1. answers # <<>> /\ RequestOK(eng[r]) /\ cfg.async \in BOOLEAN
  BY CfgTypes DEF RunnerInv, TypeOK, Update
<1>2. AnswerOK(Head(answers))
  <2>1. IsSeq(answers) /\ \A k \in DOMAIN answers : AnswerOK(answers[k])
    BY DEF RunnerInv, TypeOK
  <2>2. QED BY <1>1, <2>1, TailIsSeq
<1>3. CASE r \in DOMAIN Head(answers) /\ eng[r].status \notin {"none", "finished"}
  <2> DEFINE a == Head(answers)[r]
  <2>1. eng'[r] = Updated(eng[r], r, a)
    BY <1>3 DEF Update
  <2>2. a.sampled \in Nat /\ a.rejected \in Nat
    BY <1>2, <1>3 DEF AnswerOK
  <2>3. eng[r].tokens < PromptLen[r] + MaxTokens[r]
    BY <1>3 DEF RunnerInv, TokensKnown
  <2> HIDE DEF a
  <2>4. LET p == Updated(eng[r], r, a)
        IN  p.status = "finished" \/
              /\ p.tokens = eng[r].tokens + a.sampled /\ p.status = eng[r].status
              /\ p.computed = Most(0, eng[r].computed - a.rejected)
              /\ cfg.async => p.placeholders = eng[r].placeholders - a.sampled
    BY <1>1, <2>2, <2>3, UpdatedFacts
  <2>5. QED BY <1>3, <2>1, <2>2, <2>4 DEF a
<1>4. CASE ~(r \in DOMAIN Head(answers) /\ eng[r].status \notin {"none", "finished"})
  BY <1>4 DEF Update
<1>5. QED BY <1>3, <1>4

\* The answers that are left.
LEMMA UpdatedAnswers ==
    ASSUME RunnerInv, Update
    PROVE  /\ Len(answers) \in 1 .. 2 /\ DOMAIN answers = 1 .. Len(answers)
           /\ Head(answers) = answers[1] /\ Len(answers') = Len(answers) - 1
           /\ DOMAIN answers' = 1 .. Len(answers') /\ (answers' = <<>> <=> Len(answers') = 0)
           /\ \A k \in 1 .. Len(answers') : answers'[k] = answers[k + 1]
           /\ UNCHANGED <<cfg, slot, st, outputs, exec, last_draft>>
           /\ ~cfg.async => answers' = <<>> /\ outputs = <<>> /\ exec = <<>>
<1>1. /\ answers # <<>> /\ answers' = Tail(answers)
      /\ UNCHANGED <<cfg, slot, st, outputs, exec, last_draft>>
  BY DEF Update, graphVars, workerVars
<1>2. /\ IsSeq(answers) /\ Len(answers) \in Nat /\ DOMAIN answers = 1 .. Len(answers)
      /\ answers = <<>> <=> Len(answers) = 0
      /\ Len(outputs) \in Nat
  BY StateTypes DEF RunnerInv
<1>3. /\ IsSeq(answers') /\ Len(answers') = Len(answers) - 1 /\ Head(answers) = answers[1]
      /\ \A k \in 1 .. Len(answers) - 1 : answers'[k] = answers[k + 1]
  BY <1>1, <1>2, TailIsSeq
<1>4. DOMAIN answers' = 1 .. Len(answers') /\ (answers' = <<>> <=> Len(answers') = 0)
  BY <1>3, IsSeqFacts
<1>5. /\ Len(outputs) + Len(answers) <= 2
      /\ ~cfg.async => Len(outputs) + Len(answers) <= 1 /\ outputs = <<>> /\ exec = <<>>
  BY <1>1, PipelineFacts DEF RunnerInv
<1>6. Len(answers) \in 1 .. 2 /\ (~cfg.async => Len(answers') = 0)
  BY <1>1, <1>2, <1>3, <1>5
<1>7. QED BY <1>1, <1>2, <1>3, <1>4, <1>5, <1>6

LEMMA UpdatedKnown ==
    ASSUME RunnerInv, TokenInv, Update, NEW r \in Requests, eng'[r].status = "running"
    PROVE  KnownAhead(r)'
<1> DEFINE e == eng[r]
           f == eng'[r]
           p == Prefill(Len(outputs), r)
           a == Head(answers)[r]
           Live == r \in DOMAIN Head(answers)
<1>1. UNCHANGED <<cfg, slot, st, outputs, exec, last_draft>>
  BY UpdatedAnswers
<1>2. e.status = "running" /\ KnownAhead(r)
  <2>1. e.status = "running"
    BY UpdatedEngine
  <2>2. QED BY <2>1, TokenParts DEF KnownTokens
<1>3. /\ ~Live => f = e
      /\ Live => /\ a.sampled \in Nat /\ a.rejected \in Nat
                 /\ f.tokens = e.tokens + a.sampled /\ f.computed = Most(0, e.computed - a.rejected)
                 /\ cfg.async => f.placeholders = e.placeholders - a.sampled
  BY <1>2, UpdatedEngine
<1>4. /\ e.tokens \in Nat /\ e.computed \in Nat /\ e.placeholders \in Int /\ p \in Nat
      /\ cfg.spec \in Nat /\ cfg.async \in BOOLEAN
  <2>1. Len(outputs) \in 0 .. Len(outputs)
    BY StateTypes DEF RunnerInv
  <2>2. QED BY <2>1, StateTypes, CfgTypes, PrefillKnown DEF RunnerInv
<1>5. Prefill(Len(outputs), r)' = p
  BY <1>1 DEF Prefill
<1>6. Live => e.computed - a.rejected \in Nat /\ f.computed = e.computed - a.rejected
  <2> SUFFICES ASSUME Live PROVE e.computed - a.rejected \in Nat /\ f.computed = e.computed - a.rejected
    OBVIOUS
  <2>1. Owed(r) = a.rejected
    BY DEF Update, Owed
  <2>2. e.computed - Owed(r) \in Nat
    BY <1>2 DEF RunnerInv, EngineAgrees
  <2>3. QED BY <1>3, <2>1, <2>2 DEF Most
<1>7. CASE cfg.async
  <2>1. e.tokens + e.placeholders <= Most(p, e.computed + 1)
    BY <1>2, <1>7 DEF KnownAhead
  <2>2. f.tokens + f.placeholders <= Most(p, f.computed + 1)
    <3>1. CASE Live
      <4>1. a.rejected = 0
        <5>1. AnswerOK(Head(answers))
          BY UpdatedAnswers DEF RunnerInv, TypeOK
        <5>2. QED BY <1>7, <3>1, <5>1 DEF AnswerOK
      <4>2. f.tokens + f.placeholders = e.tokens + e.placeholders /\ f.computed = e.computed
        <5> HIDE DEF e, f, p, a, Live
        <5>1. /\ f.tokens = e.tokens + a.sampled /\ f.placeholders = e.placeholders - a.sampled
              /\ f.computed = e.computed - a.rejected
          BY <1>3, <1>6, <1>7, <3>1
        <5>2. /\ e.tokens \in Nat /\ e.placeholders \in Int /\ e.computed \in Nat
              /\ a.sampled \in Nat
          BY <1>3, <1>4, <3>1
        <5>3. QED BY <4>1, <5>1, <5>2
      <4>3. QED BY <2>1, <4>2
    <3>2. CASE ~Live
      BY <1>3, <2>1, <3>2
    <3>3. QED BY <3>1, <3>2
  <2> HIDE DEF f, p
  <2>3. QED BY <1>1, <1>5, <1>7, <2>2 DEF KnownAhead, f
<1>8. CASE ~cfg.async
  <2>1. answers # <<>> /\ answers' = <<>> /\ outputs = <<>> /\ exec = <<>> /\ DOMAIN exec = {}
    BY <1>8, UpdatedAnswers DEF Update
  <2>2. NumOf(r) = 0 /\ NumOf(r)' = 0 /\ DraftsOf(r) = 0 /\ DraftsOf(r)' = 0
    BY <1>1, <2>1 DEF NumOf, DraftsOf, Batched
  <2>3. /\ f.tokens <= Most(p, f.computed + 1) /\ f.computed < f.tokens
        /\ cfg.spec > 0 => p <= f.computed
    <3>1. CASE Live
      <4>1. /\ e.tokens + a.sampled <= Most(p, e.computed - a.rejected + 1)
            /\ e.computed - a.rejected < e.tokens + a.sampled
            /\ cfg.spec > 0 => p <= e.computed - a.rejected
        BY <1>2, <1>8, <2>1, <3>1 DEF KnownAhead
      <4>2. QED BY <1>3, <1>6, <3>1, <4>1
    <3>2. CASE ~Live
      <4>1. /\ e.tokens <= Most(p, e.computed - 0 + 1) /\ e.computed < e.tokens
            /\ cfg.spec > 0 => p <= e.computed - 0
        BY <1>2, <1>8, <2>1, <2>2, <3>2 DEF KnownAhead
      <4>2. e.computed - 0 = e.computed
        BY <1>4
      <4>3. QED BY <1>3, <3>2, <4>1, <4>2
    <3>3. QED BY <3>1, <3>2
  <2>4. f.computed - 0 = f.computed
    BY <1>3, <1>4, <1>6
  <2> HIDE DEF f, p
  <2>5. QED BY <1>1, <1>5, <1>8, <2>1, <2>2, <2>3, <2>4 DEF KnownAhead, f
<1>9. QED BY <1>4, <1>7, <1>8

LEMMA UpdatedAwaited ==
    ASSUME RunnerInv, TokenInv, Update, cfg.async, NEW r \in Requests
    PROVE  PlaceholdersAwaited(r)' /\ PreemptedApart(r)'
<1> DEFINE a == Head(answers)[r]
           Live == r \in DOMAIN Head(answers)
           rest == One(OutputSamples(1, r)) + One(OutputSamples(2, r)) + One(RowSamples(r))
<1>1. /\ UNCHANGED <<cfg, slot, st, outputs, exec, last_draft>>
      /\ Len(answers) \in 1 .. 2 /\ DOMAIN answers = 1 .. Len(answers)
      /\ Head(answers) = answers[1] /\ Len(answers') = Len(answers) - 1
      /\ DOMAIN answers' = 1 .. Len(answers') /\ (answers' = <<>> <=> Len(answers') = 0)
      /\ \A k \in 1 .. Len(answers') : answers'[k] = answers[k + 1]
  BY UpdatedAnswers
<1>2. PlaceholdersAwaited(r) /\ PreemptedApart(r) /\ (Live => a.sampled <= 1)
  <2>1. SamplesAwaited
    BY TokenParts
  <2>2. QED BY <1>1, <2>1 DEF SamplesAwaited
<1>3. rest \in Nat /\ \A b \in BOOLEAN : One(b) \in Nat
  BY DEF One, OutputSamples, RowSamples
<1>4. /\ OutputSamples(1, r)' = OutputSamples(1, r) /\ OutputSamples(2, r)' = OutputSamples(2, r)
      /\ RowSamples(r)' = RowSamples(r)
  BY <1>1 DEF OutputSamples, RowSamples, Scheduled, Prefill, Chunked
<1>5. AnswerSamples(1, r)' = AnswerSamples(2, r) /\ ~AnswerSamples(2, r)'
  <2>1. 1 \in DOMAIN answers' <=> 2 \in DOMAIN answers
    BY <1>1
  <2>2. 1 \in DOMAIN answers' => answers'[1] = answers[2]
    BY <1>1
  <2>3. 2 \notin DOMAIN answers'
    BY <1>1
  <2>4. QED BY <2>1, <2>2, <2>3 DEF AnswerSamples
<1>6. AnswerSamples(1, r) <=> Live /\ a.sampled > 0
  BY <1>1 DEF AnswerSamples
<1>7. /\ Awaited(r) = rest + One(AnswerSamples(1, r)) + One(AnswerSamples(2, r))
      /\ Awaited(r)' = rest + One(AnswerSamples(2, r)) + 0
  BY <1>4, <1>5 DEF Awaited, One
<1> DEFINE x == One(AnswerSamples(1, r))
           y == One(AnswerSamples(2, r))
<1>8. x \in Nat /\ y \in Nat /\ (AnswerSamples(1, r) => x = 1) /\ (~AnswerSamples(1, r) => x = 0)
  BY DEF One
<1> HIDE DEF rest, x, y
<1>9. Awaited(r) = Awaited(r)' + x /\ Awaited(r)' \in Nat /\ Awaited(r) \in Nat
  BY <1>3, <1>7, <1>8 DEF x, y
<1>10. PlaceholdersAwaited(r)'
  <2>1. CASE Live /\ eng[r].status \notin {"none", "finished"}
    <3>1. CASE eng'[r].status = "finished"
      BY <3>1 DEF PlaceholdersAwaited
    <3>2. CASE eng'[r].status # "finished"
      <4>1. /\ a.sampled \in Nat /\ eng'[r].placeholders = eng[r].placeholders - a.sampled
            /\ eng'[r].status = eng[r].status
        BY <2>1, <3>2, UpdatedEngine
      <4>2. a.sampled = x
        BY <1>2, <1>6, <1>8, <2>1, <4>1
      <4>3. eng[r].status \in {"running", "preempted"}
        BY <2>1, StateTypes DEF RunnerInv
      <4>4. eng[r].placeholders = Awaited(r)
        BY <1>2, <4>3 DEF PlaceholdersAwaited
      <4>5. eng'[r].placeholders = Awaited(r)'
        BY <1>8, <1>9, <4>1, <4>2, <4>4
      <4>6. QED BY <2>1, <4>1, <4>5 DEF PlaceholdersAwaited
    <3>3. QED BY <3>1, <3>2
  <2>2. CASE ~(Live /\ eng[r].status \notin {"none", "finished"})
    <3>1. eng'[r] = eng[r]
      BY <2>2, UpdatedEngine
    <3>2. CASE eng[r].status = "finished"
      BY <3>1, <3>2 DEF PlaceholdersAwaited
    <3>3. CASE eng[r].status = "none"
      <4>1. Awaited(r)' = 0
        BY <1>2, <1>8, <1>9, <3>3 DEF PlaceholdersAwaited
      <4>2. QED BY <1>2, <3>1, <3>3, <4>1 DEF PlaceholdersAwaited
    <3>4. CASE eng[r].status \notin {"none", "finished"}
      <4>1. x = 0
        BY <1>6, <1>8, <2>2, <3>4
      <4>2. Awaited(r)' = Awaited(r)
        BY <1>9, <4>1
      <4>3. QED BY <1>2, <3>1, <4>2 DEF PlaceholdersAwaited
    <3>5. QED BY <3>2, <3>3, <3>4
  <2>3. QED BY <2>1, <2>2
<1>11. PreemptedApart(r)'
  <2> SUFFICES ASSUME eng'[r].status = "preempted" PROVE PreemptedApart(r)'
    BY DEF PreemptedApart
  <2>1. eng[r].status = "preempted"
    BY UpdatedEngine
  <2>2. answers' # <<>> => answers # <<>> /\ answers'[Len(answers')] = answers[Len(answers)]
    <3>1. answers' # <<>> => Len(answers') = 1 /\ Len(answers) = 2
      BY <1>1
    <3>2. QED BY <1>1, <3>1
  <2>3. QED BY <1>1, <1>2, <2>1, <2>2 DEF PreemptedApart, Scheduled, InBatch
<1>12. QED BY <1>10, <1>11

LEMMA UpdateTokens ==
    ASSUME RunnerInv, TokenInv, Update
    PROVE  TokenInv'
<1>1. WorkerOwn'
  BY UpdatedAnswers, WorkerOwnSame, TokenParts
<1>2. KnownTokens'
  BY UpdatedKnown DEF KnownTokens
<1>3. SamplesAwaited'
  <2> SUFFICES ASSUME cfg.async PROVE SamplesAwaited'
    BY UpdatedAnswers DEF SamplesAwaited
  <2>1. \A k \in DOMAIN answers' : k + 1 \in DOMAIN answers /\ answers'[k] = answers[k + 1]
    BY UpdatedAnswers
  <2>2. \A k \in DOMAIN answers' : \A r \in DOMAIN answers'[k] : answers'[k][r].sampled <= 1
    BY <2>1, TokenParts DEF SamplesAwaited
  <2>3. QED BY <2>2, UpdatedAwaited DEF SamplesAwaited
<1>4. QED BY <1>1, <1>2, <1>3, TokenParts

--------------------------------------------------------------------------------
(* Whose tokens: sample_tokens *)

\* The token each draft starts from.
LEMMA SampledAnchors ==
    ASSUME RunnerInv, SampleTokens
    PROVE  /\ cfg.spec = 0 => last_draft' = last_draft
           /\ cfg.spec # 0 =>
                /\ DOMAIN last_draft' = DOMAIN exec
                /\ \A n \in DOMAIN exec :
                     /\ last_draft'[n].r = exec[n].r /\ last_draft'[n].end = ValidEnd(exec[n])
                     /\ last_draft'[n].anchor =
                          IF Sampled(exec[n]) > 0 THEN <<exec[n].r, ValidEnd(exec[n])>>
                          ELSE exec[n].next
<1> DEFINE b == exec
           at(i) == CHOOSE n \in DOMAIN b : b[n].slot = i
           after == [i \in Slots |-> IF \E n \in DOMAIN b : b[n].slot = i
                                     THEN AfterStep(st[i], b[at(i)]) ELSE st[i]]
<1>1. cfg.spec = 0 => last_draft' = last_draft
  BY DEF SampleTokens
<1>2. cfg.spec # 0 =>
        last_draft' = [n \in DOMAIN b |->
                         [r |-> b[n].r, slot |-> b[n].slot, end |-> ValidEnd(b[n]),
                          anchor |-> Anchor(after[b[n].slot], b[n])]]
  BY DEF SampleTokens
<1>3. ASSUME NEW n \in DOMAIN exec
      PROVE  Anchor(after[b[n].slot], b[n]) =
               IF Sampled(exec[n]) > 0 THEN <<exec[n].r, ValidEnd(exec[n])>> ELSE exec[n].next
  <2>1. at(exec[n].slot) = n
    <3>1. at(exec[n].slot) \in DOMAIN exec /\ exec[at(exec[n].slot)].slot = exec[n].slot
      OBVIOUS
    <3> HIDE DEF at
    <3>2. QED BY <3>1, RowsDistinct
  <2>2. exec[n].slot \in Slots /\ StateOK(st[exec[n].slot]) /\ ValidEnd(exec[n]) \in Nat
    BY RowFacts
  <2>3. after[exec[n].slot] = AfterStep(st[exec[n].slot], exec[n])
    <3>1. after[exec[n].slot] = AfterStep(st[exec[n].slot], exec[at(exec[n].slot)])
      BY <2>2
    <3> HIDE DEF at, after
    <3>2. QED BY <2>1, <3>1
  <2> HIDE DEF after, at
  <2>4. /\ after[exec[n].slot].next = exec[n].next
        /\ Sampled(exec[n]) > 0 => after[exec[n].slot].last = <<exec[n].r, ValidEnd(exec[n])>>
    BY <2>2, <2>3, SlotAfterStep
  <2>5. QED BY <2>4 DEF Anchor
<1> HIDE DEF after
<1>4. QED BY <1>1, <1>2, <1>3

\* Where the rows end.
LEMMA RowEnds ==
    ASSUME RunnerInv, TokenInv, NEW n \in DOMAIN exec
    PROVE  LET b == exec[n]
           IN  /\ RowOwn(b) /\ b.prefill \in Nat
               /\ Chunked(b) => ValidEnd(b) = b.start + b.num /\ ValidEnd(b) < b.prefill
               /\ ~Chunked(b) => Sampled(b) > 0
               /\ Sampled(b) > 0 => ~Chunked(b)
               /\ cfg.async => Sampled(b) <= 1
<1> DEFINE b == exec[n]
<1>1. /\ b.start \in Nat /\ b.num \in Nat /\ b.drafts \in Nat /\ Accepted(b) \in Nat
      /\ Accepted(b) <= b.drafts /\ (cfg.async => b.drafts = 0)
      /\ ValidEnd(b) = b.start + b.num - Rejected(b)
      /\ ~Chunked(b) => Sampled(b) = Accepted(b) + 1 /\ Rejected(b) = b.drafts - Accepted(b)
      /\ Chunked(b) => Sampled(b) = 0 /\ Rejected(b) = 0
      /\ b.prefill \in Nat
  BY RowFacts, SlotFields
<1>2. RowOwn(b)
  BY TokenParts DEF WorkerOwn
<1> HIDE DEF b
<1>3. Chunked(b) => ValidEnd(b) = b.start + b.num /\ ValidEnd(b) < b.prefill
  BY <1>1 DEF Chunked
<1>4. QED BY <1>1, <1>2, <1>3 DEF b

LEMMA SampledOwn ==
    ASSUME RunnerInv, TokenInv, SampleTokens
    PROVE  WorkerOwn'
<1>1. slot' = slot /\ outputs' = outputs /\ cfg' = cfg /\ exec' = <<>> /\ DOMAIN exec' = {}
  BY DEF SampleTokens
<1>2. \A r \in Requests : \A k : Prefill(k, r)' = Prefill(k, r)
  BY <1>1, SampledHeld DEF Prefill
<1>3. OutputsOwn'
  <2>1. \A k \in DOMAIN outputs : /\ Scheduled(outputs[k])' = Scheduled(outputs[k])
                                  /\ Scheduled(outputs[k]) \subseteq Requests
    BY <1>1 DEF Scheduled
  <2>2. OutputsOwn
    BY TokenParts DEF WorkerOwn
  <2>3. QED BY <1>1, <1>2, <2>1, <2>2 DEF OutputsOwn
<1>4. \A n \in DOMAIN exec' : RowOwn(exec[n])'
  BY <1>1
<1>5. ASSUME NEW r \in Requests PROVE SlotOwn(r)'
  <2> DEFINE t == st'[slot[r]]
  <2>1. SUFFICES ASSUME slot[r] # 0, t.prefill <= t.computed
                 PROVE  /\ t.last = <<r, t.computed>>
                        /\ cfg.spec > 0 => t.draft.r = r /\ t.draft.pos = t.computed + 1
    BY <1>1 DEF SlotOwn
  <2>2. CASE InBatch(r)
    <3>1. PICK n \in DOMAIN exec : exec[n].r = r
      BY <2>2 DEF InBatch
    <3> DEFINE b == exec[n]
    <3>2. b.slot = slot[r] /\ b.prefill = st[slot[r]].prefill
      BY <3>1, RowFacts
    <3>3. /\ t.prefill = b.prefill /\ t.computed = ValidEnd(b)
          /\ Sampled(b) > 0 => t.last = <<r, ValidEnd(b)>>
          /\ cfg.spec # 0 => t.draft.r = r /\ t.draft.pos = ValidEnd(b) + 1
      BY <3>1, <3>2, SampledSlots
    <3>4. Sampled(b) > 0
      <4>1. Chunked(b) => ValidEnd(b) < b.prefill
        BY RowEnds
      <4>2. b.prefill \in Nat /\ ValidEnd(b) \in Nat /\ (~Chunked(b) => Sampled(b) > 0)
        BY RowEnds, RowFacts
      <4> HIDE DEF b, t
      <4>3. QED BY <2>1, <3>3, <4>1, <4>2
    <3>5. cfg.spec > 0 => cfg.spec # 0
      BY CfgTypes DEF RunnerInv
    <3>6. QED BY <3>3, <3>4, <3>5
  <2>3. CASE ~InBatch(r)
    <3>1. t = st[slot[r]]
      <4>1. slot[r] \in Slots
        BY <2>1, SampledHeld
      <4>2. \A n \in DOMAIN exec : exec[n].slot # slot[r]
        <5> SUFFICES ASSUME NEW n \in DOMAIN exec, exec[n].slot = slot[r] PROVE FALSE
          OBVIOUS
        <5>1. exec[n].r \in Requests /\ slot[exec[n].r] = slot[r]
          BY RowFacts
        <5>2. exec[n].r = r
          BY <2>1, <5>1 DEF RunnerInv, Pipeline
        <5>3. QED BY <2>3, <5>2 DEF InBatch
      <4>3. QED BY <4>1, <4>2, SampledSlots
    <3>2. SlotOwn(r)
      BY TokenParts DEF WorkerOwn
    <3>3. QED BY <2>1, <2>3, <3>1, <3>2 DEF SlotOwn
  <2>4. QED BY <2>2, <2>3
<1>6. \A n \in DOMAIN last_draft' : AnchorOwn(last_draft[n])'
  <2>1. CASE cfg.spec = 0
    <3>1. last_draft' = last_draft
      BY <2>1, SampledAnchors
    <3>2. QED BY <3>1, TokenParts DEF WorkerOwn, AnchorOwn
  <2>2. CASE cfg.spec # 0
    <3> SUFFICES ASSUME NEW n \in DOMAIN exec
                 PROVE  last_draft'[n].anchor = <<last_draft'[n].r, last_draft'[n].end>>
      BY <2>2, SampledAnchors DEF AnchorOwn
    <3>1. ~(Sampled(exec[n]) > 0) =>
             exec[n].next = <<exec[n].r, ValidEnd(exec[n])>>
      <4>1. ~(Sampled(exec[n]) > 0) => Chunked(exec[n])
        BY RowEnds
      <4>2. RowOwn(exec[n]) /\ (Chunked(exec[n]) => ValidEnd(exec[n]) = exec[n].start + exec[n].num)
        BY RowEnds
      <4>3. QED BY <4>1, <4>2 DEF RowOwn
    <3>2. QED BY <2>2, <3>1, SampledAnchors
  <2>3. QED BY <2>1, <2>2
<1>7. QED BY <1>3, <1>4, <1>5, <1>6 DEF WorkerOwn

LEMMA SampledKnown ==
    ASSUME RunnerInv, TokenInv, SampleTokens, NEW r \in Requests, eng[r].status = "running"
    PROVE  KnownAhead(r)'
<1> DEFINE e == eng[r]
           p == Prefill(Len(outputs), r)
<1>1. /\ cfg' = cfg /\ slot' = slot /\ outputs' = outputs /\ eng' = eng
      /\ exec' = <<>> /\ DOMAIN exec' = {} /\ exec # <<>>
  BY DEF SampleTokens, engineVars
<1>2. Prefill(Len(outputs), r)' = p
  BY <1>1, SampledHeld DEF Prefill
<1>3. KnownAhead(r)
  BY TokenParts DEF KnownTokens
<1>4. /\ e.tokens \in Nat /\ e.computed \in Nat /\ e.placeholders \in Int /\ p \in Nat
      /\ p <= e.tokens /\ cfg.spec \in Nat /\ cfg.async \in BOOLEAN
  <2>1. Len(outputs) \in 0 .. Len(outputs)
    BY StateTypes DEF RunnerInv
  <2>2. QED BY <2>1, StateTypes, CfgTypes, PrefillKnown DEF RunnerInv
<1>5. CASE cfg.async
  BY <1>1, <1>2, <1>3, <1>5 DEF KnownAhead
<1>6. CASE ~cfg.async
  <2>1. outputs = <<>> /\ answers = <<>>
    BY <1>1, <1>6, PipelineFacts DEF RunnerInv
  <2>2. PICK g : /\ answers' = Append(answers, g)
                 /\ DOMAIN g = {exec[n].r : n \in DOMAIN exec}
                 /\ \A n \in DOMAIN exec : /\ g[exec[n].r].sampled = Sampled(exec[n])
                                           /\ g[exec[n].r].rejected = Rejected(exec[n])
    BY SampledAnswer
  <2>3. answers' # <<>> /\ Head(answers') = g
    <3>1. IsSeq(answers)
      BY StateTypes DEF RunnerInv
    <3>2. Len(answers') = Len(answers) + 1 /\ Head(answers') = g
      BY <2>1, <2>2, <3>1, AppendIsSeq
    <3>3. QED BY <2>1, <3>2
  <2>4. /\ e.tokens <= Most(p, e.computed - Batched(r) + 1)
        /\ Batched(r) = 0 => e.computed < e.tokens
        /\ cfg.spec > 0 => p <= e.computed - DraftsOf(r)
    BY <1>3, <1>6, <2>1 DEF KnownAhead, NumOf
  <2>5. CASE InBatch(r)
    <3>1. PICK n \in DOMAIN exec : exec[n].r = r
      BY <2>5 DEF InBatch
    <3> DEFINE b == exec[n]
    <3>2. \A m \in DOMAIN exec : exec[m].r = r => m = n
      BY <3>1, RowsDistinct
    <3>3. Batched(r) = b.num /\ DraftsOf(r) = b.drafts
      <4>1. (CHOOSE m \in DOMAIN exec : exec[m].r = r) = n
        BY <3>1, <3>2
      <4>2. QED BY <2>1, <3>1, <4>1 DEF Batched, DraftsOf
    <3>4. /\ b.start \in Nat /\ b.num \in Nat /\ b.num > 0 /\ b.drafts \in Nat
          /\ Accepted(b) \in Nat /\ Accepted(b) <= b.drafts
          /\ ~Chunked(b) => Sampled(b) = Accepted(b) + 1 /\ Rejected(b) = b.drafts - Accepted(b)
          /\ Chunked(b) => Sampled(b) = 0 /\ Rejected(b) = 0
          /\ RowOwn(b)
      BY RowFacts, RowEnds
    <3>5. p = b.prefill
      <4>1. b.slot = slot[r] /\ b.slot # 0 /\ b.prefill = st[b.slot].prefill
        BY <3>1, RowFacts, ConstantTypes DEF Slots
      <4>2. Len(outputs) = 0
        BY <2>1
      <4>3. QED BY <4>1, <4>2 DEF Prefill
    <3>6. e.computed = b.start + b.num
      <4>1. Held(r).computed = b.start + b.num
        BY <3>1, SampledHeld
      <4>2. View(Len(outputs), r) = Held(r)
        BY <2>1 DEF View
      <4>3. Owed(r) = 0
        BY <2>1, OwedFacts DEF RunnerInv
      <4>4. Held(r).computed = e.computed - 0
        BY <4>2, <4>3 DEF RunnerInv, EngineAgrees
      <4>5. QED BY <1>4, <4>1, <4>4
    <3>7. e.computed - b.drafts <= e.tokens
      <4>1. e.computed - DraftsOf(r) <= e.tokens
        BY <1>6, <2>1 DEF RunnerInv, TokensKnown
      <4>2. QED BY <3>3, <4>1
    <3> HIDE DEF b, e, p
    <3>8. /\ e.tokens + Sampled(b) <= Most(p, e.computed - Rejected(b) + 1)
          /\ e.computed - Rejected(b) < e.tokens + Sampled(b)
          /\ cfg.spec > 0 => p <= e.computed - Rejected(b)
      <4>1. CASE Chunked(b)
        <5>1. b.start + b.num < b.prefill
          BY <4>1 DEF Chunked
        <5>2. Sampled(b) = 0 /\ Rejected(b) = 0
          BY <3>4, <4>1
        <5>3. b.drafts = 0
          BY <3>4, <3>5, <1>4, <5>1 DEF RowOwn
        <5>4. QED BY <1>4, <2>4, <3>3, <3>4, <3>5, <3>6, <5>1, <5>2, <5>3 DEF Most
      <4>2. CASE ~Chunked(b)
        <5>1. ~(b.start + b.num < b.prefill)
          BY <4>2 DEF Chunked
        <5>2. Sampled(b) = Accepted(b) + 1 /\ Rejected(b) = b.drafts - Accepted(b)
          BY <3>4, <4>2
        <5>3. CASE b.start + b.num <= b.prefill
          <6>1. b.drafts = 0 /\ b.start + b.num = b.prefill
            BY <1>4, <3>4, <3>5, <5>1, <5>3 DEF RowOwn
          <6>2. QED BY <1>4, <2>4, <3>3, <3>4, <3>5, <3>6, <3>7, <5>2, <6>1 DEF Most
        <5>4. CASE ~(b.start + b.num <= b.prefill)
          <6>1. b.prefill <= b.start /\ b.num = b.drafts + 1
            BY <3>4, <5>4 DEF RowOwn
          <6>2. QED BY <1>4, <2>4, <3>3, <3>4, <3>5, <3>6, <3>7, <5>2, <6>1 DEF Most
        <5>5. QED BY <5>3, <5>4
      <4>3. QED BY <4>1, <4>2
    <3>9. r \in DOMAIN g /\ g[r].sampled = Sampled(b) /\ g[r].rejected = Rejected(b)
      BY <2>2, <3>1 DEF b
    <3>10. QED BY <1>1, <1>2, <1>6, <2>3, <3>8, <3>9 DEF KnownAhead, e
  <2>6. CASE ~InBatch(r)
    <3>1. r \notin DOMAIN g
      BY <2>2, <2>6 DEF InBatch
    <3>2. Batched(r) = 0 /\ DraftsOf(r) = 0
      BY <2>1, <2>6 DEF Batched, DraftsOf, InBatch
    <3>3. NumOf(r)' = 0 /\ DraftsOf(r)' = 0
      BY <1>1, <2>1 DEF NumOf, Batched, DraftsOf
    <3> HIDE DEF e, p
    <3>4. QED BY <1>1, <1>2, <1>6, <2>3, <2>4, <3>1, <3>2, <3>3 DEF KnownAhead, e
  <2>7. QED BY <2>5, <2>6
<1>7. QED BY <1>4, <1>5, <1>6

\* What was awaited of the rows is awaited of the new answer.
LEMMA SampledAwaited ==
    ASSUME RunnerInv, TokenInv, SampleTokens, cfg.async
    PROVE  /\ \A k \in DOMAIN answers' : \A r \in DOMAIN answers'[k] : answers'[k][r].sampled <= 1
           /\ \A r \in Requests : PlaceholdersAwaited(r)' /\ PreemptedApart(r)'
<1>1. /\ cfg' = cfg /\ slot' = slot /\ outputs' = outputs /\ eng' = eng
      /\ exec' = <<>> /\ DOMAIN exec' = {} /\ exec # <<>>
  BY DEF SampleTokens, engineVars
<1>2. PICK g : /\ answers' = Append(answers, g)
               /\ DOMAIN g = {exec[n].r : n \in DOMAIN exec}
               /\ \A n \in DOMAIN exec : /\ g[exec[n].r].sampled = Sampled(exec[n])
                                         /\ g[exec[n].r].rejected = Rejected(exec[n])
  BY SampledAnswer
<1>3. /\ IsSeq(answers) /\ Len(answers) \in 0 .. 1 /\ DOMAIN answers = 1 .. Len(answers)
      /\ answers = <<>> <=> Len(answers) = 0
  <2>1. /\ IsSeq(answers) /\ Len(answers) \in Nat /\ DOMAIN answers = 1 .. Len(answers)
        /\ answers = <<>> <=> Len(answers) = 0
        /\ Len(outputs) \in Nat
    BY StateTypes DEF RunnerInv
  <2>2. Len(outputs) + Len(answers) <= 1
    BY <1>1, PipelineFacts DEF RunnerInv
  <2>3. QED BY <2>1, <2>2
<1>4. /\ IsSeq(answers') /\ Len(answers') = Len(answers) + 1
      /\ \A k \in 1 .. Len(answers) : answers'[k] = answers[k]
      /\ answers'[Len(answers) + 1] = g
  BY <1>2, <1>3, AppendIsSeq
<1>5. DOMAIN answers' = 1 .. Len(answers) + 1 /\ answers' # <<>>
  BY <1>3, <1>4, IsSeqFacts
<1>6. SamplesAwaited
  BY TokenParts
<1>7. ASSUME NEW k \in DOMAIN answers', NEW r \in DOMAIN answers'[k]
      PROVE  answers'[k][r].sampled <= 1
  <2>1. CASE k \in DOMAIN answers
    BY <1>3, <1>4, <1>6, <1>7, <2>1 DEF SamplesAwaited
  <2>2. CASE k \notin DOMAIN answers
    <3>1. k = Len(answers) + 1
      BY <1>3, <1>5, <2>2
    <3>2. answers'[k] = g
      BY <1>4, <3>1
    <3>3. PICK n \in DOMAIN exec : exec[n].r = r
      BY <1>2, <1>7, <3>2
    <3>4. g[r].sampled = Sampled(exec[n]) /\ Sampled(exec[n]) <= 1
      BY <1>2, <3>3, RowEnds
    <3>5. QED BY <3>2, <3>4
  <2>3. QED BY <2>1, <2>2
<1>8. ASSUME NEW r \in Requests PROVE PlaceholdersAwaited(r)'
  <2>1. \A k : OutputSamples(k, r)' = OutputSamples(k, r)
    <3>1. \A k : Prefill(k, r)' = Prefill(k, r)
      BY <1>1, SampledHeld DEF Prefill
    <3>2. QED BY <1>1, <3>1 DEF OutputSamples, Scheduled
  <2>2. ~RowSamples(r)'
    BY <1>1 DEF RowSamples
  <2>3. RowSamples(r) <=> r \in DOMAIN g /\ g[r].sampled > 0
    <3>1. ASSUME RowSamples(r) PROVE r \in DOMAIN g /\ g[r].sampled > 0
      <4>1. PICK n \in DOMAIN exec : exec[n].r = r /\ ~Chunked(exec[n])
        BY <3>1 DEF RowSamples
      <4>2. QED BY <1>2, <4>1, RowEnds
    <3>2. ASSUME r \in DOMAIN g, g[r].sampled > 0 PROVE RowSamples(r)
      <4>1. PICK n \in DOMAIN exec : exec[n].r = r
        BY <1>2, <3>2
      <4>2. Sampled(exec[n]) > 0
        BY <1>2, <3>2, <4>1
      <4>3. ~Chunked(exec[n])
        BY <4>2, RowEnds
      <4>4. QED BY <4>1, <4>3 DEF RowSamples
    <3>3. QED BY <3>1, <3>2
  <2> DEFINE L == Len(answers)
             One1 == One(AnswerSamples(1, r))
             o == One(OutputSamples(1, r)) + One(OutputSamples(2, r))
  <2>4. o \in Nat /\ One1 \in Nat /\ One(RowSamples(r)) \in Nat
    BY DEF One
  <2>5. Awaited(r)' = Awaited(r)
    <3>1. CASE Len(answers) = 0
      <4>1. DOMAIN answers = {} /\ DOMAIN answers' = {1} /\ answers'[1] = g
        BY <1>3, <1>4, <1>5, <3>1
      <4>2. /\ ~AnswerSamples(1, r) /\ ~AnswerSamples(2, r) /\ ~AnswerSamples(2, r)'
            /\ AnswerSamples(1, r)' <=> RowSamples(r)
        BY <2>3, <4>1 DEF AnswerSamples
      <4>3. Awaited(r) = o + One(RowSamples(r)) + 0 + 0
        BY <4>2 DEF Awaited, One
      <4>4. Awaited(r)' = o + 0 + One(RowSamples(r)) + 0
        BY <2>1, <2>2, <4>2 DEF Awaited, One
      <4> HIDE DEF o
      <4>5. QED BY <2>4, <4>3, <4>4
    <3>2. CASE Len(answers) = 1
      <4>1. /\ DOMAIN answers = {1} /\ DOMAIN answers' = {1, 2} /\ answers'[1] = answers[1]
            /\ answers'[2] = g
        BY <1>3, <1>4, <1>5, <3>2
      <4>2. /\ ~AnswerSamples(2, r) /\ (AnswerSamples(1, r)' <=> AnswerSamples(1, r))
            /\ AnswerSamples(2, r)' <=> RowSamples(r)
        BY <2>3, <4>1 DEF AnswerSamples
      <4>3. Awaited(r) = o + One(RowSamples(r)) + One1 + 0
        BY <4>2 DEF Awaited, One
      <4>4. Awaited(r)' = o + 0 + One1 + One(RowSamples(r))
        BY <2>1, <2>2, <4>2 DEF Awaited, One
      <4> HIDE DEF o, One1
      <4>5. QED BY <2>4, <4>3, <4>4
    <3>3. QED BY <1>3, <3>1, <3>2
  <2>6. QED BY <1>1, <1>6, <2>5 DEF SamplesAwaited, PlaceholdersAwaited
<1>9. ASSUME NEW r \in Requests PROVE PreemptedApart(r)'
  <2>1. PreemptedApart(r)
    BY <1>6 DEF SamplesAwaited
  <2>2. CASE outputs # <<>>
    BY <1>1, <2>1, <2>2 DEF PreemptedApart, Scheduled
  <2>3. CASE outputs = <<>>
    <3>1. answers'[Len(answers')] = g
      BY <1>4
    <3>2. InBatch(r) <=> r \in DOMAIN g
      BY <1>2 DEF InBatch
    <3>3. QED BY <1>1, <2>1, <2>3, <3>1, <3>2 DEF PreemptedApart
  <2>4. QED BY <2>2, <2>3
<1>10. QED BY <1>7, <1>8, <1>9

LEMMA SampleTokensTokens ==
    ASSUME RunnerInv, TokenInv, SampleTokens
    PROVE  TokenInv'
<1>1. cfg' = cfg /\ eng' = eng
  BY DEF SampleTokens, engineVars
<1>2. KnownTokens'
  BY <1>1, SampledKnown DEF KnownTokens
<1>3. SamplesAwaited'
  BY <1>1, SampledAwaited DEF SamplesAwaited
<1>4. QED BY <1>2, <1>3, SampledOwn, TokenParts

--------------------------------------------------------------------------------
(* Whose tokens: execute_model *)

LEMMA ExecutedFacts ==
    ASSUME RunnerInv, Execute
    PROVE  LET o == Head(outputs)
           IN  /\ exec = <<>> /\ outputs # <<>> /\ o = outputs[1] /\ 1 \in DOMAIN outputs
               /\ DOMAIN exec = {} /\ Len(outputs) \in 1 .. 2 /\ DOMAIN outputs = 1 .. Len(outputs)
               /\ Len(outputs') = Len(outputs) - 1 /\ DOMAIN outputs' = 1 .. Len(outputs')
               /\ outputs' = <<>> <=> Len(outputs') = 0
               /\ Len(outputs') > 0 => outputs'[1] = outputs[2]
               /\ o.new \subseteq Scheduled(o) /\ Scheduled(o) \subseteq Requests
               /\ Removed(o) \cap Scheduled(o) = {}
               /\ UNCHANGED <<cfg, eng, last_draft>>
<1>1. exec = <<>> /\ outputs # <<>> /\ UNCHANGED <<cfg, eng, last_draft>>
  BY DEF Execute, engineVars
<1>2. /\ Len(outputs') = Len(outputs) - 1 /\ Len(outputs') \in 0 .. 1
      /\ DOMAIN outputs' = 1 .. Len(outputs') /\ (outputs' = <<>> <=> Len(outputs') = 0)
      /\ \A k \in 1 .. Len(outputs') : outputs'[k] = outputs[k + 1]
  BY ExecutedViews
<1>3. Len(outputs) \in Nat /\ DOMAIN outputs = 1 .. Len(outputs)
  BY StateTypes DEF RunnerInv
<1>4. Len(outputs) \in 1 .. 2 /\ (Len(outputs') > 0 => outputs'[1] = outputs[2])
  BY <1>2, <1>3
<1>5. QED BY <1>1, <1>2, <1>3, <1>4, OutputFacts

\* A request that the worker will have then has not lost its slot.
LEMMA ExecutedKeeps ==
    ASSUME RunnerInv, Execute, NEW r \in Requests
    PROVE  /\ View(1, r).has => r \notin Removed(Head(outputs))
           /\ Len(outputs) = 2 /\ View(2, r).has =>
                r \notin Removed(Head(outputs)) \/ r \in outputs[2].new
           /\ Len(outputs) = 2 /\ r \in Scheduled(outputs[2]) =>
                r \notin Removed(Head(outputs)) \/ r \in outputs[2].new
<1> DEFINE o == Head(outputs)
<1>1. /\ o = outputs[1] /\ o.new \subseteq Scheduled(o) /\ Removed(o) \cap Scheduled(o) = {}
      /\ DOMAIN outputs = 1 .. Len(outputs)
  BY ExecutedFacts
<1>2. ~Absent.has
  BY DEF Absent
<1>3. View(1, r).has => r \notin Removed(o)
  BY <1>1, <1>2 DEF View, AfterOutput
<1>4. Len(outputs) = 2 /\ r \in Scheduled(outputs[2]) /\ r \notin outputs[2].new => View(1, r).has
  <2> SUFFICES ASSUME Len(outputs) = 2, r \in Scheduled(outputs[2]), r \notin outputs[2].new
               PROVE  View(1, r).has
    OBVIOUS
  <2>1. 2 \in DOMAIN outputs /\ 2 - 1 = 1
    BY <1>1
  <2>2. View(2 - 1, r).has
    BY <2>1 DEF RunnerInv, OutputsFit
  <2>3. QED BY <2>1, <2>2
<1>5. View(2, r) = AfterOutput(View(1, r), outputs[2], r)
  BY DEF View
<1>6. View(2, r).has =>
        r \in outputs[2].new \/ r \in Scheduled(outputs[2]) \/ View(1, r).has
  BY <1>2, <1>5 DEF AfterOutput
<1>7. QED BY <1>3, <1>4, <1>6 DEF o

\* The rows of the batch against what the output announced.
LEMMA ExecutedRow ==
    ASSUME RunnerInv, Execute, NEW n \in DOMAIN exec'
    PROVE  LET o == Head(outputs)
               b == exec'[n]
           IN  /\ b.r \in Scheduled(o) /\ b.r \in Requests /\ b.num = o.num[b.r]
               /\ b.drafts = o.drafts[b.r] /\ b.start = o.computed[b.r] /\ b.start \in Nat
               /\ b.prefill = Prefill(1, b.r) /\ b.prefill \in Nat
               /\ Chunked(b) => b.next = <<b.r, b.start + b.num>>
               /\ b.r \notin o.new =>
                    LET s == st[slot[b.r]]
                    IN  /\ slot[b.r] # 0 /\ b.start = s.computed /\ b.prefill = s.prefill
                        /\ b.first = s.last /\ b.guess = s.draft
<1> DEFINE o == Head(outputs)
           b == exec'[n]
           r == b.r
           s == st'[slot'[b.r]]
<1>1. /\ r \in Scheduled(o) /\ b.start = s.computed /\ b.num = o.num[r]
      /\ b.drafts = o.drafts[r] /\ b.prefill = s.prefill /\ b.guess = s.draft
      /\ b.first = s.last
      /\ Chunked(b) => b.next = <<b.r, b.start + b.num>>
  BY ExecutedRows
<1>2. /\ o = outputs[1] /\ exec = <<>> /\ outputs # <<>> /\ r \in Requests
      /\ o.new \subseteq Scheduled(o)
  BY <1>1, ExecutedFacts
<1>3. \A i \in Slots : i # 0 /\ StateOK(st[i])
  BY DEF RunnerInv, TypeOK, Slots
<1> HIDE DEF o, b, s
<1>4. CASE r \in o.new
  <2>1. slot'[r] \in Slots /\ st'[slot'[r]] = WithRequest(st[slot'[r]], o, r)
    BY <1>4, ExecutedSlots, ExecutedStates DEF o
  <2>2. o.tokens[r] \in Nat
    BY <1>2, <1>4, OutputFacts DEF o
  <2>3. s.prefill = o.tokens[r] /\ s.computed = 0
    BY <1>3, <2>1, <2>2, SlotWithRequest DEF s
  <2>4. o.computed[r] = 0
    BY <1>1, <1>2, <1>4, ScheduledHeld DEF o
  <2>5. Prefill(1, r) = o.tokens[r]
    BY <1>2, <1>4 DEF Prefill
  <2>6. b.start = 0 /\ b.start \in Nat /\ b.prefill = o.tokens[r]
    BY <1>1, <2>3
  <2>7. QED BY <1>1, <1>2, <1>4, <2>2, <2>4, <2>5, <2>6 DEF o, b, s
<1>5. CASE r \notin o.new
  <2>1. slot[r] # 0 /\ slot[r] \in Slots /\ o.computed[r] = st[slot[r]].computed
    BY <1>1, <1>2, <1>5, ScheduledHeld DEF o
  <2>2. slot'[r] = slot[r] /\ st'[slot[r]] = WithBlocks(st[slot[r]], o, r)
    BY <1>1, <1>5, ExecutedStates DEF o
  <2>3. /\ s.prefill = st[slot[r]].prefill /\ s.computed = st[slot[r]].computed
        /\ s.last = st[slot[r]].last /\ s.draft = st[slot[r]].draft
    BY <1>3, <2>1, <2>2, SlotWithBlocks DEF s
  <2>4. Prefill(1, r) = st[slot[r]].prefill
    BY <1>2, <1>5, <2>1 DEF Prefill
  <2>5. st[slot[r]].computed \in Nat /\ st[slot[r]].prefill \in Nat
    BY <1>3, <2>1, SlotFields
  <2>6. QED BY <1>1, <1>2, <1>5, <2>1, <2>3, <2>4, <2>5 DEF o, b, s
<1>6. QED BY <1>4, <1>5

LEMMA ExecutedOwn ==
    ASSUME RunnerInv, TokenInv, Execute
    PROVE  WorkerOwn'
<1> DEFINE o == Head(outputs)
<1>1. /\ exec = <<>> /\ outputs # <<>> /\ o = outputs[1] /\ 1 \in DOMAIN outputs
      /\ DOMAIN exec = {} /\ Len(outputs) \in 1 .. 2 /\ DOMAIN outputs = 1 .. Len(outputs)
      /\ Len(outputs') = Len(outputs) - 1 /\ DOMAIN outputs' = 1 .. Len(outputs')
      /\ Len(outputs') > 0 => outputs'[1] = outputs[2]
      /\ o.new \subseteq Scheduled(o) /\ Scheduled(o) \subseteq Requests
      /\ UNCHANGED <<cfg, eng, last_draft>>
  BY ExecutedFacts
<1>2. WorkerOwn
  BY TokenParts
<1>3. OutputsOwn'
  <2>1. \A k \in DOMAIN outputs' : k = 1 /\ 2 \in DOMAIN outputs /\ Len(outputs) = 2
                                   /\ outputs'[1] = outputs[2] /\ 1 \in 0 .. Len(outputs')
    BY <1>1
  <2>2. ASSUME 1 \in DOMAIN outputs', NEW r \in Scheduled(outputs[2])
        PROVE  r \in Requests /\ Prefill(1, r)' = Prefill(2, r)
    <3>1. r \in Requests
      BY DEF Scheduled
    <3>2. r \notin Removed(o) \/ r \in outputs[2].new
      BY <2>1, <2>2, <3>1, ExecutedKeeps DEF o
    <3>3. 1 + 1 = 2
      OBVIOUS
    <3>4. QED BY <2>1, <2>2, <3>1, <3>2, <3>3, ExecutedPrefill DEF o
  <2>3. 1 \in DOMAIN outputs' => Scheduled(outputs[1])' = Scheduled(outputs[2])
    BY <2>1 DEF Scheduled
  <2>4. OutputsOwn
    BY <1>2 DEF WorkerOwn
  <2>5. QED BY <1>1, <2>1, <2>2, <2>3, <2>4 DEF OutputsOwn
<1>4. ASSUME NEW n \in DOMAIN exec' PROVE RowOwn(exec[n])'
  <2> DEFINE b == exec'[n]
             r == b.r
  <2>1. /\ r \in Scheduled(o) /\ r \in Requests /\ b.num = o.num[r]
        /\ b.drafts = o.drafts[r] /\ b.start = o.computed[r] /\ b.start \in Nat
        /\ b.prefill = Prefill(1, r) /\ b.prefill \in Nat
        /\ Chunked(b) => b.next = <<b.r, b.start + b.num>>
        /\ r \notin o.new =>
             LET s == st[slot[r]]
             IN  /\ slot[r] # 0 /\ b.start = s.computed /\ b.prefill = s.prefill
                 /\ b.first = s.last /\ b.guess = s.draft
    BY ExecutedRow
  <2>2. /\ cfg.spec = 0 => o.drafts[r] = 0
        /\ r \in o.new => o.num[r] <= o.tokens[r]
        /\ IF o.computed[r] + o.num[r] <= Prefill(1, r) THEN o.drafts[r] = 0
           ELSE Prefill(1, r) <= o.computed[r] /\ o.num[r] = o.drafts[r] + 1
    BY <1>1, <1>2, <2>1 DEF WorkerOwn, OutputsOwn
  <2>3. o.num[r] \in Nat /\ o.drafts[r] \in Nat /\ cfg.spec \in Nat
    BY <1>1, <2>1, OutputFacts, CfgTypes DEF RunnerInv
  <2>4. ASSUME ~(b.start + b.num <= b.prefill)
        PROVE  /\ b.first = <<r, b.start>>
               /\ b.drafts > 0 => b.guess.r = r /\ b.guess.pos = b.start + 1
    <3>1. r \notin o.new
      <4> SUFFICES ASSUME r \in o.new PROVE FALSE
        OBVIOUS
      <4>1. o.computed[r] = 0
        BY <1>1, <2>1, ScheduledHeld
      <4>2. Prefill(1, r) = o.tokens[r]
        BY <1>1 DEF Prefill
      <4>3. QED BY <2>1, <2>2, <2>3, <2>4, <4>1, <4>2
    <3>2. b.prefill <= b.start
      BY <2>1, <2>2, <2>4
    <3>3. SlotOwn(r)
      BY <1>2, <2>1 DEF WorkerOwn
    <3>4. ~InBatch(r)
      BY <1>1 DEF InBatch
    <3>5. b.first = <<r, b.start>> /\ (cfg.spec > 0 => b.guess.r = r /\ b.guess.pos = b.start + 1)
      BY <2>1, <3>1, <3>2, <3>3, <3>4 DEF SlotOwn
    <3>6. b.drafts > 0 => cfg.spec > 0
      BY <2>1, <2>2, <2>3
    <3>7. QED BY <3>5, <3>6
  <2> HIDE DEF b, o
  <2>5. RowOwn(b)
    BY <2>1, <2>2, <2>4 DEF RowOwn
  <2>6. QED BY <2>5 DEF RowOwn, b, Chunked
<1>5. ASSUME NEW r \in Requests PROVE SlotOwn(r)'
  <2>1. SUFFICES ASSUME slot'[r] # 0, ~(\E n \in DOMAIN exec' : exec'[n].r = r)
                 PROVE  SlotOwn(r)'
    BY DEF SlotOwn, InBatch
  <2>2. r \notin Scheduled(o)
    BY <2>1, ExecutedRows
  <2>3. slot'[r] = slot[r] /\ st'[slot[r]] = st[slot[r]]
    BY <2>1, <2>2, ExecutedStates
  <2>4. SlotOwn(r) /\ ~InBatch(r)
    BY <1>1, <1>2 DEF WorkerOwn, InBatch
  <2>5. QED BY <1>1, <2>3, <2>4 DEF SlotOwn
<1>6. \A n \in DOMAIN last_draft' : AnchorOwn(last_draft[n])'
  BY <1>1, <1>2 DEF WorkerOwn, AnchorOwn
<1>7. QED BY <1>3, <1>4, <1>5, <1>6 DEF WorkerOwn

LEMMA ExecutedKnown ==
    ASSUME RunnerInv, TokenInv, Execute, NEW r \in Requests, eng[r].status = "running"
    PROVE  KnownAhead(r)'
<1> DEFINE o == Head(outputs)
           e == eng[r]
           p == Prefill(Len(outputs), r)
<1>1. /\ exec = <<>> /\ outputs # <<>> /\ o = outputs[1] /\ Len(outputs) \in 1 .. 2
      /\ Len(outputs') = Len(outputs) - 1 /\ (outputs' = <<>> <=> Len(outputs') = 0)
      /\ Scheduled(o) \subseteq Requests
      /\ UNCHANGED <<cfg, eng, last_draft>>
  BY ExecutedFacts
<1>2. KnownAhead(r)
  BY TokenParts DEF KnownTokens
<1>3. Prefill(Len(outputs), r)' = p
  <2>1. View(Len(outputs), r).has
    BY DEF RunnerInv, EngineAgrees
  <2>2. CASE Len(outputs) = 1
    <3>1. r \notin Removed(o) /\ 0 \in 0 .. Len(outputs') /\ 0 + 1 = 1 /\ Len(outputs') = 0
      BY <1>1, <2>1, <2>2, ExecutedKeeps
    <3>2. Prefill(0, r)' = Prefill(1, r)
      BY <3>1, ExecutedPrefill
    <3>3. Prefill(Len(outputs), r)' = Prefill(0, r)'
      BY <3>1 DEF Prefill
    <3>4. QED BY <2>2, <3>2, <3>3
  <2>3. CASE Len(outputs) = 2
    <3>1. /\ r \notin Removed(o) \/ r \in outputs[2].new
          /\ 1 \in 0 .. Len(outputs') /\ 1 + 1 = 2 /\ Len(outputs') = 1
      BY <1>1, <2>1, <2>3, ExecutedKeeps
    <3>2. Prefill(1, r)' = Prefill(2, r)
      BY <3>1, ExecutedPrefill
    <3>3. Prefill(Len(outputs), r)' = Prefill(1, r)'
      BY <3>1 DEF Prefill
    <3>4. QED BY <2>3, <3>2, <3>3
  <2>4. QED BY <1>1, <2>2, <2>3
<1>4. cfg.async \in BOOLEAN
  BY CfgTypes DEF RunnerInv
<1>5. CASE cfg.async
  BY <1>1, <1>2, <1>3, <1>5 DEF KnownAhead
<1>6. CASE ~cfg.async
  <2>1. answers = <<>> /\ Len(outputs) = 1 /\ outputs' = <<>>
    <3>1. Len(outputs) + Len(answers) <= 1 /\ Len(answers) \in Nat
          /\ (answers = <<>> <=> Len(answers) = 0)
      BY <1>6, PipelineFacts, StateTypes DEF RunnerInv
    <3>2. QED BY <1>1, <3>1
  <2>2. answers' # <<>> => Head(answers') = <<>> /\ r \notin DOMAIN Head(answers')
    <3>1. answers' = IF Scheduled(o) = {} THEN Append(answers, <<>>) ELSE answers
      BY ExecutedRows
    <3>2. Head(Append(answers, <<>>)) = <<>> /\ DOMAIN <<>> = {}
      BY <2>1
    <3>3. QED BY <2>1, <3>1, <3>2
  <2>3. /\ o.num[r] \in Nat /\ o.drafts[r] \in Nat /\ o.drafts[r] <= o.num[r]
        /\ r \in Scheduled(o) <=> o.num[r] > 0
    BY <1>1, OutputFacts
  <2>4. Batched(r)' = o.num[r] /\ DraftsOf(r)' = o.drafts[r]
    <3>1. CASE r \in Scheduled(o)
      <4>1. PICK n \in DOMAIN exec' : exec'[n].r = r
        BY <3>1, ExecutedRows
      <4>2. \A m \in DOMAIN exec' : exec'[m].r = r => m = n
        BY <4>1, ExecutedRows
      <4>3. exec'[n].num = o.num[r] /\ exec'[n].drafts = o.drafts[r]
        BY <4>1, ExecutedRow
      <4>4. (CHOOSE m \in DOMAIN exec' : exec'[m].r = r) = n
        BY <4>1, <4>2
      <4>5. QED BY <2>1, <4>1, <4>3, <4>4 DEF Batched, DraftsOf
    <3>2. CASE r \notin Scheduled(o)
      <4>1. \A n \in DOMAIN exec' : exec'[n].r # r
        BY <3>2, ExecutedRow
      <4>2. o.num[r] = 0 /\ o.drafts[r] = 0
        BY <2>3, <3>2
      <4>3. QED BY <2>1, <4>1, <4>2 DEF Batched, DraftsOf
    <3>3. QED BY <3>1, <3>2
  <2>5. NumOf(r) = o.num[r] /\ DraftsOf(r) = o.drafts[r] /\ NumOf(r)' = o.num[r]
    BY <1>1, <2>1, <2>4 DEF NumOf, DraftsOf
  <2>6. /\ e.tokens <= Most(p, e.computed - o.num[r] + 1)
        /\ o.num[r] = 0 => e.computed < e.tokens
        /\ cfg.spec > 0 => p <= e.computed - o.drafts[r]
    BY <1>2, <1>6, <2>1, <2>5 DEF KnownAhead
  <2> HIDE DEF o, e, p
  <2>7. QED BY <1>1, <1>3, <1>6, <2>2, <2>4, <2>5, <2>6 DEF KnownAhead, e
<1>7. QED BY <1>4, <1>5, <1>6

\* What was awaited of the output is awaited of the rows.
LEMMA ExecutedAwaited ==
    ASSUME RunnerInv, TokenInv, Execute, cfg.async
    PROVE  /\ \A k \in DOMAIN answers' : \A r \in DOMAIN answers'[k] : answers'[k][r].sampled <= 1
           /\ \A r \in Requests : PlaceholdersAwaited(r)' /\ PreemptedApart(r)'
<1> DEFINE o == Head(outputs)
<1>1. /\ exec = <<>> /\ outputs # <<>> /\ o = outputs[1] /\ Len(outputs) \in 1 .. 2
      /\ DOMAIN exec = {} /\ 1 \in DOMAIN outputs /\ DOMAIN outputs = 1 .. Len(outputs)
      /\ Len(outputs') = Len(outputs) - 1 /\ (outputs' = <<>> <=> Len(outputs') = 0)
      /\ DOMAIN outputs' = 1 .. Len(outputs')
      /\ Len(outputs') > 0 => outputs'[1] = outputs[2]
      /\ Scheduled(o) \subseteq Requests
      /\ UNCHANGED <<cfg, eng, last_draft>>
  BY ExecutedFacts
<1>2. answers' = IF Scheduled(o) = {} THEN Append(answers, <<>>) ELSE answers
  BY ExecutedRows
<1>3. SamplesAwaited
  BY TokenParts
<1>4. /\ IsSeq(answers) /\ DOMAIN answers = 1 .. Len(answers) /\ Len(answers) \in Nat
      /\ answers = <<>> <=> Len(answers) = 0
  BY StateTypes DEF RunnerInv
<1>5. Scheduled(o) = {} =>
        /\ IsSeq(answers') /\ Len(answers') = Len(answers) + 1
        /\ \A k \in 1 .. Len(answers) : answers'[k] = answers[k]
        /\ answers'[Len(answers) + 1] = <<>>
        /\ DOMAIN answers' = 1 .. Len(answers) + 1 /\ answers' # <<>>
  <2> SUFFICES ASSUME Scheduled(o) = {}
               PROVE  /\ IsSeq(answers') /\ Len(answers') = Len(answers) + 1
                      /\ \A k \in 1 .. Len(answers) : answers'[k] = answers[k]
                      /\ answers'[Len(answers) + 1] = <<>>
                      /\ DOMAIN answers' = 1 .. Len(answers) + 1 /\ answers' # <<>>
    OBVIOUS
  <2>1. answers' = Append(answers, <<>>)
    BY <1>2
  <2>2. /\ IsSeq(answers') /\ Len(answers') = Len(answers) + 1
        /\ \A k \in 1 .. Len(answers) : answers'[k] = answers[k]
        /\ answers'[Len(answers) + 1] = <<>>
    BY <1>4, <2>1, AppendIsSeq
  <2>3. QED BY <1>4, <2>2, IsSeqFacts
<1>6. \A k \in DOMAIN answers' :
         (k \in DOMAIN answers /\ answers'[k] = answers[k]) \/ answers'[k] = <<>>
  <2>1. CASE Scheduled(o) = {}
    <3>1. \A k \in DOMAIN answers' : k \in 1 .. Len(answers) \/ k = Len(answers) + 1
      BY <1>4, <1>5, <2>1
    <3>2. QED BY <1>4, <1>5, <2>1, <3>1
  <2>2. CASE Scheduled(o) # {}
    BY <1>2, <2>2
  <2>3. QED BY <2>1, <2>2
<1>7. \A k \in DOMAIN answers : k \in DOMAIN answers' /\ answers'[k] = answers[k]
  <2>1. CASE Scheduled(o) = {}
    BY <1>4, <1>5, <2>1
  <2>2. CASE Scheduled(o) # {}
    BY <1>2, <2>2
  <2>3. QED BY <2>1, <2>2
<1>8. DOMAIN <<>> = {}
  OBVIOUS
<1>9. \A k \in DOMAIN answers' : \A r \in DOMAIN answers'[k] : answers'[k][r].sampled <= 1
  BY <1>3, <1>6, <1>8 DEF SamplesAwaited
<1>10. ASSUME NEW r \in Requests PROVE PlaceholdersAwaited(r)'
  <2>1. \A k : AnswerSamples(k, r)' <=> AnswerSamples(k, r)
    BY <1>6, <1>7, <1>8 DEF AnswerSamples
  <2>2. OutputSamples(1, r)' <=> OutputSamples(2, r)
    <3>1. 1 \in DOMAIN outputs' <=> 2 \in DOMAIN outputs
      BY <1>1
    <3>2. CASE 2 \in DOMAIN outputs
      <4>1. Len(outputs) = 2 /\ outputs'[1] = outputs[2] /\ 1 \in 0 .. Len(outputs') /\ 1 + 1 = 2
        BY <1>1, <3>2
      <4>2. r \in Scheduled(outputs[2]) => Prefill(1, r)' = Prefill(2, r)
        BY <4>1, ExecutedKeeps, ExecutedPrefill
      <4>3. Scheduled(outputs[1])' = Scheduled(outputs[2])
        BY <4>1 DEF Scheduled
      <4>4. QED BY <3>1, <3>2, <4>1, <4>2, <4>3 DEF OutputSamples
    <3>3. CASE 2 \notin DOMAIN outputs
      BY <3>1, <3>3 DEF OutputSamples
    <3>4. QED BY <3>2, <3>3
  <2>3. ~OutputSamples(2, r)' /\ ~RowSamples(r)
    <3>1. 2 \notin DOMAIN outputs'
      BY <1>1
    <3>2. QED BY <1>1, <3>1 DEF OutputSamples, RowSamples
  <2>4. RowSamples(r)' <=> OutputSamples(1, r)
    <3> DEFINE Ends(b) == b.prefill <= b.start + b.num
    <3>1. RowSamples(r)' <=> \E n \in DOMAIN exec' : exec'[n].r = r /\ Ends(exec'[n])
      <4>1. ASSUME NEW n \in DOMAIN exec' PROVE Chunked(exec[n])' <=> ~Ends(exec'[n])
        <5>1. exec'[n].start \in Nat /\ exec'[n].prefill \in Nat /\ exec'[n].num \in Nat
          <6>1. /\ exec'[n].r \in Requests /\ exec'[n].num = o.num[exec'[n].r]
                /\ exec'[n].start \in Nat /\ exec'[n].prefill \in Nat
            BY ExecutedRow
          <6>2. QED BY <1>1, <6>1, OutputFacts
        <5>2. Chunked(exec[n])' <=> exec'[n].start + exec'[n].num < exec'[n].prefill
          BY DEF Chunked
        <5>3. QED BY <5>1, <5>2
      <4>2. QED BY <4>1 DEF RowSamples
    <3>2. OutputSamples(1, r) <=> r \in Scheduled(o) /\ Prefill(1, r) <= o.computed[r] + o.num[r]
      BY <1>1 DEF OutputSamples
    <3>3. ASSUME NEW n \in DOMAIN exec', exec'[n].r = r
          PROVE  Ends(exec'[n]) <=> Prefill(1, r) <= o.computed[r] + o.num[r]
      BY <3>3, ExecutedRow
    <3>4. r \in Scheduled(o) <=> \E n \in DOMAIN exec' : exec'[n].r = r
      BY ExecutedRows
    <3> HIDE DEF Ends
    <3>5. QED BY <3>1, <3>2, <3>3, <3>4
  <2> DEFINE x == One(OutputSamples(1, r))
             y == One(OutputSamples(2, r))
             z == One(AnswerSamples(1, r)) + One(AnswerSamples(2, r))
  <2>5. x \in Nat /\ y \in Nat /\ z \in Nat
    BY DEF One
  <2>6. Awaited(r) = x + y + 0 + One(AnswerSamples(1, r)) + One(AnswerSamples(2, r))
    BY <2>3 DEF Awaited, One
  <2>7. Awaited(r)' = y + 0 + x + One(AnswerSamples(1, r)) + One(AnswerSamples(2, r))
    BY <2>1, <2>2, <2>3, <2>4 DEF Awaited, One
  <2>8. One(AnswerSamples(1, r)) \in Nat /\ One(AnswerSamples(2, r)) \in Nat
    BY DEF One
  <2> HIDE DEF x, y
  <2>9. Awaited(r)' = Awaited(r)
    BY <2>5, <2>6, <2>7, <2>8
  <2>10. QED BY <1>1, <1>3, <2>9 DEF SamplesAwaited, PlaceholdersAwaited
<1>11. ASSUME NEW r \in Requests PROVE PreemptedApart(r)'
  <2> SUFFICES ASSUME eng[r].status = "preempted" PROVE PreemptedApart(r)'
    BY <1>1 DEF PreemptedApart
  <2>1. r \notin Scheduled(outputs[Len(outputs)])
    BY <1>1, <1>3 DEF SamplesAwaited, PreemptedApart
  <2>2. CASE Len(outputs) = 2
    <3>1. outputs' # <<>> /\ Len(outputs') = 1 /\ outputs'[Len(outputs')] = outputs[Len(outputs)]
      BY <1>1, <2>2
    <3>2. r \notin Scheduled(outputs[Len(outputs)])'
      BY <2>1, <3>1 DEF Scheduled
    <3>3. QED BY <3>1, <3>2 DEF PreemptedApart
  <2>3. CASE Len(outputs) = 1
    <3>1. outputs' = <<>> /\ r \notin Scheduled(o)
      BY <1>1, <2>1, <2>3
    <3>2. ~InBatch(r)'
      BY <3>1, ExecutedRow DEF InBatch
    <3>3. exec' = <<>> => answers'[Len(answers')] = <<>>
      BY <1>5, ExecutedRows
    <3>4. QED BY <1>8, <3>1, <3>2, <3>3 DEF PreemptedApart
  <2>4. QED BY <1>1, <2>2, <2>3
<1>12. QED BY <1>9, <1>10, <1>11

LEMMA ExecuteTokens ==
    ASSUME RunnerInv, TokenInv, Execute
    PROVE  TokenInv'
<1>1. cfg' = cfg /\ eng' = eng
  BY ExecutedFacts
<1>2. KnownTokens'
  BY <1>1, ExecutedKnown DEF KnownTokens
<1>3. SamplesAwaited'
  BY <1>1, ExecutedAwaited DEF SamplesAwaited
<1>4. QED BY <1>2, <1>3, ExecutedOwn, TokenParts

--------------------------------------------------------------------------------
(* Whose tokens: schedule *)

\* Nothing of a request without a slot is on its way when the scheduler runs.
LEMMA NothingAwaited ==
    ASSUME RunnerInv, TokenInv, NEW o, Appends(o), NEW r \in Requests,
           eng[r].status \in {"none", "preempted"}
    PROVE  eng[r].placeholders = 0
<1>1. /\ Len(outputs) \in Nat /\ DOMAIN outputs = 1 .. Len(outputs)
      /\ Len(answers) \in Nat /\ DOMAIN answers = 1 .. Len(answers)
      /\ DOMAIN exec = 1 .. Len(exec) /\ (exec = <<>> <=> Len(exec) = 0)
      /\ outputs = <<>> <=> Len(outputs) = 0
      /\ answers = <<>> <=> Len(answers) = 0
      /\ cfg.async \in BOOLEAN
  BY StateTypes, CfgTypes DEF RunnerInv
<1>2. CASE ~cfg.async
  BY <1>2 DEF RunnerInv, TokensKnown
<1>3. CASE cfg.async
  <2>1. PlaceholdersAwaited(r) /\ PreemptedApart(r)
    BY <1>3, TokenParts DEF SamplesAwaited
  <2>2. CASE eng[r].status = "none"
    BY <2>1, <2>2 DEF PlaceholdersAwaited
  <2>3. CASE eng[r].status = "preempted"
    <3>1. Len(outputs) + Len(answers) + (IF exec = <<>> THEN 0 ELSE 1) < 2
      BY <1>3 DEF Appends
    <3>2. \/ Len(outputs) = 1 /\ Len(answers) = 0 /\ exec = <<>>
          \/ Len(outputs) = 0 /\ Len(answers) = 0 /\ exec # <<>>
          \/ Len(outputs) = 0 /\ Len(answers) <= 1 /\ exec = <<>>
      <4> DEFINE x == IF exec = <<>> THEN 0 ELSE 1
                 m == Len(outputs)
                 n == Len(answers)
      <4>1. m \in Nat /\ n \in Nat /\ m + n + x < 2 /\ (x = 0 <=> exec = <<>>) /\ x \in {0, 1}
        BY <1>1, <3>1
      <4> HIDE DEF x, m, n
      <4>2. \/ m = 1 /\ n = 0 /\ x = 0
            \/ m = 0 /\ n = 0 /\ x = 1
            \/ m = 0 /\ n <= 1 /\ x = 0
        BY <4>1
      <4>3. QED BY <4>1, <4>2 DEF m, n
    <3>3. ~OutputSamples(1, r)
      <4>1. CASE Len(outputs) = 1
        <5>1. r \notin Scheduled(outputs[1])
          BY <1>1, <2>1, <2>3, <4>1 DEF PreemptedApart
        <5>2. QED BY <5>1 DEF OutputSamples
      <4>2. CASE Len(outputs) = 0
        BY <1>1, <4>2 DEF OutputSamples
      <4>3. QED BY <3>2, <4>1, <4>2
    <3>4. ~OutputSamples(2, r) /\ ~AnswerSamples(2, r)
      <4>1. 2 \notin DOMAIN outputs /\ 2 \notin DOMAIN answers
        BY <1>1, <3>2
      <4>2. QED BY <4>1 DEF OutputSamples, AnswerSamples
    <3>5. ~RowSamples(r)
      <4>1. CASE exec # <<>>
        <5>1. ~InBatch(r)
          BY <1>1, <2>1, <2>3, <3>2, <4>1 DEF PreemptedApart
        <5>2. QED BY <5>1 DEF RowSamples, InBatch
      <4>2. CASE exec = <<>>
        BY <1>1, <4>2 DEF RowSamples
      <4>3. QED BY <4>1, <4>2
    <3>6. ~AnswerSamples(1, r)
      <4>1. CASE 1 \in DOMAIN answers
        <5>1. Len(answers) = 1 /\ outputs = <<>> /\ exec = <<>> /\ answers # <<>>
          BY <1>1, <3>2, <4>1
        <5>2. r \notin DOMAIN answers[1]
          BY <2>1, <2>3, <5>1 DEF PreemptedApart
        <5>3. QED BY <5>2 DEF AnswerSamples
      <4>2. CASE 1 \notin DOMAIN answers
        BY <4>2 DEF AnswerSamples
      <4>3. QED BY <4>1, <4>2
    <3>7. Awaited(r) = 0
      BY <3>3, <3>4, <3>5, <3>6 DEF Awaited, One
    <3>8. QED BY <2>1, <2>3, <3>7 DEF PlaceholdersAwaited
  <2>4. QED BY <2>2, <2>3
<1>4. QED BY <1>1, <1>2, <1>3

\* A request that comes to the worker comes with all of its tokens as a prefill, whole if
\* there are drafts to follow.
LEMMA AppendedNew ==
    ASSUME WholePrefills, RunnerInv, TokenInv, NEW o, Appends(o), NEW r \in o.new
    PROVE  /\ r \in Scheduled(o) /\ r \in Requests /\ o.tokens[r] = eng[r].tokens
           /\ o.num[r] \in Nat /\ o.num[r] > 0 /\ o.num[r] <= eng[r].tokens
           /\ o.computed[r] = 0 /\ eng[r].computed = 0 /\ eng[r].placeholders = 0
           /\ o.drafts[r] = 0
           /\ cfg.spec > 0 => o.num[r] = eng[r].tokens
<1> DEFINE e == eng[r]
           n == o.num[r]
<1>1. /\ r \in Scheduled(o) /\ r \in Requests /\ o.tokens[r] = e.tokens
      /\ e.status # "running" /\ e.status # "finished" /\ o.computed[r] = e.computed
      /\ n <= NewTokens(r) /\ (cfg.cut # "any" => n = NewTokens(r))
  BY NothingUnderWay DEF Appends
<1>2. e.status \in {"none", "preempted"} /\ e.computed = 0
  <2>1. e.status \in {"none", "preempted"}
    BY <1>1, StateTypes DEF RunnerInv
  <2>2. QED BY <1>1, <2>1 DEF RunnerInv, EngineAgrees
<1>3. e.placeholders = 0
  BY <1>1, <1>2, NothingAwaited
<1>4. /\ e.tokens \in Nat /\ e.spec \in 0 .. cfg.spec /\ cfg.spec \in Nat /\ cfg.chunk \in Nat
      /\ n \in Nat /\ n > 0 /\ o.drafts[r] = Drafts(r, n)
      /\ cfg \in Configs
  BY <1>1, StateTypes, CfgTypes, AppendedDrafts DEF RunnerInv
<1>5. NewTokens(r) = Least(e.tokens, cfg.chunk)
  BY <1>1 DEF NewTokens
<1>6. cfg.spec > 0 => n = e.tokens
  <2> SUFFICES ASSUME cfg.spec > 0 PROVE n = e.tokens
    OBVIOUS
  <2>1. cfg.cut # "any" /\ PromptLen[r] + MaxTokens[r] <= cfg.chunk
    BY <1>1, <1>4 DEF WholePrefills
  <2>2. e.tokens < PromptLen[r] + MaxTokens[r]
    BY <1>1 DEF RunnerInv, TokensKnown
  <2>3. PromptLen[r] \in Nat /\ MaxTokens[r] \in Nat
    BY <1>1, ConstantTypes
  <2>4. NewTokens(r) = e.tokens
    BY <1>4, <1>5, <2>1, <2>2, <2>3 DEF Least
  <2>5. QED BY <1>1, <2>1, <2>4
<1>7. n <= e.tokens
  BY <1>1, <1>4, <1>5 DEF Least
<1>8. Drafts(r, n) = 0
  <2>1. Drafts(r, n) = Most(0, Least(e.spec, n + 0 - e.tokens - 0))
    BY <1>2, <1>3 DEF Drafts
  <2> HIDE DEF e, n
  <2>2. QED BY <1>4, <1>7, <2>1 DEF Most, Least
<1>9. QED BY <1>1, <1>2, <1>3, <1>4, <1>6, <1>7, <1>8

\* A step of a request the worker has: inside its prefill, or a token with its drafts.
LEMMA AppendedOld ==
    ASSUME RunnerInv, TokenInv, NEW o, Appends(o), NEW r \in Scheduled(o) \ o.new
    PROVE  LET e == eng[r]
               p == Prefill(Len(outputs), r)
               n == o.num[r]
           IN  /\ r \in Requests /\ e.status = "running" /\ o.computed[r] = e.computed
               /\ p \in Nat /\ p <= e.tokens /\ n \in Nat /\ n > 0 /\ o.drafts[r] \in Nat
               /\ e.tokens \in Nat /\ e.computed \in Nat /\ e.placeholders \in Int
               /\ cfg.spec = 0 => o.drafts[r] = 0
               /\ cfg.async => e.tokens + e.placeholders <= Most(p, e.computed + 1)
               /\ ~cfg.async => /\ e.tokens <= Most(p, e.computed + 1)
                                /\ cfg.spec > 0 => p <= e.computed /\ o.drafts[r] <= n
               /\ IF e.computed + n <= p THEN o.drafts[r] = 0
                  ELSE p <= e.computed /\ n = o.drafts[r] + 1
<1> DEFINE e == eng[r]
           p == Prefill(Len(outputs), r)
           n == o.num[r]
           d == o.drafts[r]
<1>1. /\ r \in Scheduled(o) /\ r \in Requests /\ e.status = "running"
      /\ o.computed[r] = e.computed /\ n <= NewTokens(r)
  BY NothingUnderWay DEF Appends
<1>2. /\ e.tokens \in Nat /\ e.spec \in 0 .. cfg.spec /\ cfg.spec \in Nat /\ cfg.chunk \in Nat
      /\ e.computed \in Nat /\ e.placeholders \in Int /\ cfg.async \in BOOLEAN
      /\ cfg.async => cfg.spec = 0
      /\ n \in Nat /\ n > 0 /\ d = Drafts(r, n) /\ d \in Nat /\ d <= n
  BY <1>1, StateTypes, CfgTypes, AppendedDrafts DEF RunnerInv
<1>3. p \in Nat /\ p <= e.tokens
  <2>1. Len(outputs) \in 0 .. Len(outputs)
    BY StateTypes DEF RunnerInv
  <2>2. QED BY <1>1, <2>1, PrefillKnown
<1>4. n <= e.tokens + e.placeholders + e.spec - e.computed
  <2>1. NewTokens(r) = Least(e.tokens + e.placeholders + e.spec - e.computed, cfg.chunk)
    BY <1>1 DEF NewTokens
  <2> HIDE DEF e, n
  <2>2. QED BY <1>1, <1>2, <2>1 DEF Least
<1>5. d = Most(0, Least(e.spec, n + e.computed - e.tokens - e.placeholders))
  BY <1>2 DEF Drafts
<1>6. KnownAhead(r)
  BY <1>1, TokenParts DEF KnownTokens
<1>7. cfg.async => e.tokens + e.placeholders <= Most(p, e.computed + 1)
  BY <1>6 DEF KnownAhead
<1>8. ~cfg.async => /\ e.placeholders = 0 /\ e.computed < e.tokens
                    /\ e.tokens <= Most(p, e.computed + 1)
                    /\ cfg.spec > 0 => p <= e.computed
  <2> SUFFICES ASSUME ~cfg.async
               PROVE  /\ e.placeholders = 0 /\ e.computed < e.tokens
                      /\ e.tokens <= Most(p, e.computed + 1)
                      /\ cfg.spec > 0 => p <= e.computed
    OBVIOUS
  <2>1. outputs = <<>> /\ answers = <<>> /\ exec = <<>> /\ DOMAIN exec = {}
    <3>1. DOMAIN <<>> = {}
      OBVIOUS
    <3>2. QED BY <3>1, NothingUnderWay
  <2>2. NumOf(r) = 0 /\ DraftsOf(r) = 0
    BY <2>1 DEF NumOf, DraftsOf, Batched
  <2>3. /\ e.tokens <= Most(p, e.computed - 0 + 1) /\ e.computed < e.tokens
        /\ cfg.spec > 0 => p <= e.computed - 0
    BY <1>6, <2>1, <2>2 DEF KnownAhead
  <2>4. e.placeholders = 0
    BY <1>1 DEF RunnerInv, TokensKnown
  <2>5. e.computed - 0 = e.computed
    BY <1>2
  <2>6. QED BY <2>3, <2>4, <2>5
<1> HIDE DEF e, p, n, d
<1>9. cfg.spec = 0 => d = 0
  BY <1>2, <1>5 DEF Most, Least
<1>10. IF e.computed + n <= p THEN d = 0 ELSE p <= e.computed /\ n = d + 1
  <2>1. CASE cfg.spec = 0
    <3>1. e.spec = 0
      BY <1>2, <2>1
    <3>2. e.tokens + e.placeholders <= Most(p, e.computed + 1)
      BY <1>2, <1>7, <1>8
    <3>3. QED BY <1>2, <1>3, <1>4, <1>9, <2>1, <3>1, <3>2 DEF Most
  <2>2. CASE cfg.spec # 0
    <3>1. ~cfg.async /\ cfg.spec > 0
      BY <1>2, <2>2
    <3>2. e.tokens = e.computed + 1 /\ p <= e.computed /\ e.placeholders = 0
      BY <1>2, <1>3, <1>8, <3>1 DEF Most
    <3>3. n <= e.spec + 1
      BY <1>2, <1>4, <3>2
    <3>4. d = n - 1
      BY <1>2, <1>5, <3>2, <3>3 DEF Most, Least
    <3>5. QED BY <1>2, <1>3, <3>2, <3>4
  <2>3. QED BY <2>1, <2>2
<1>11. QED BY <1>1, <1>2, <1>3, <1>7, <1>8, <1>9, <1>10 DEF e, p, n, d

LEMMA ScheduledOwn ==
    ASSUME WholePrefills, RunnerInv, TokenInv, Schedule, NEW o, Appends(o)
    PROVE  WorkerOwn'
<1> DEFINE L == Len(outputs)
<1>1. UNCHANGED <<cfg, slot, st, exec, last_draft>>
  BY DEF Schedule, workerVars
<1>2. /\ DOMAIN outputs' = 1 .. L + 1 /\ \A i \in 1 .. L : outputs'[i] = outputs[i]
      /\ outputs'[L + 1] = o /\ L \in Nat /\ DOMAIN outputs = 1 .. L
  BY AppendedOutputs, StateTypes DEF RunnerInv
<1>3. WorkerOwn
  BY TokenParts
<1>4. ASSUME NEW k \in DOMAIN outputs', NEW r \in Scheduled(outputs'[k])
      PROVE  LET q == outputs'[k]
             IN  /\ cfg.spec = 0 => q.drafts[r] = 0
                 /\ r \in q.new => q.num[r] <= q.tokens[r]
                 /\ IF q.computed[r] + q.num[r] <= Prefill(k, r)' THEN q.drafts[r] = 0
                    ELSE Prefill(k, r)' <= q.computed[r] /\ q.num[r] = q.drafts[r] + 1
  <2>1. CASE k \in 1 .. L
    <3>1. outputs'[k] = outputs[k] /\ k \in DOMAIN outputs /\ k \in 0 .. L
      BY <1>2, <2>1
    <3>2. Prefill(k, r)' = Prefill(k, r)
      BY <1>1, <3>1, AppendedPrefill
    <3>3. r \in Scheduled(outputs[k])
      BY <1>4, <3>1
    <3>4. OutputsOwn
      BY <1>3 DEF WorkerOwn
    <3>5. LET q == outputs[k]
          IN  /\ cfg.spec = 0 => q.drafts[r] = 0
              /\ r \in q.new => q.num[r] <= q.tokens[r]
              /\ IF q.computed[r] + q.num[r] <= Prefill(k, r) THEN q.drafts[r] = 0
                 ELSE Prefill(k, r) <= q.computed[r] /\ q.num[r] = q.drafts[r] + 1
      BY <3>1, <3>3, <3>4 DEF OutputsOwn
    <3>6. QED BY <3>1, <3>2, <3>5
  <2>2. CASE k \notin 1 .. L
    <3>1. k = L + 1 /\ outputs'[k] = o
      BY <1>2, <2>2
    <3>2. Prefill(k, r)' = IF r \in o.new THEN o.tokens[r] ELSE Prefill(Len(outputs), r)
      BY <1>1, <3>1, AppendedPrefill
    <3>3. r \in Scheduled(o)
      BY <1>4, <3>1
    <3>4. CASE r \in o.new
      <4>1. /\ o.tokens[r] = eng[r].tokens /\ o.num[r] \in Nat /\ o.num[r] <= eng[r].tokens
            /\ o.computed[r] = 0 /\ o.drafts[r] = 0
        BY <3>4, AppendedNew
      <4>2. 0 + o.num[r] = o.num[r]
        BY <4>1
      <4>3. QED BY <3>1, <3>2, <3>4, <4>1, <4>2
    <3>5. CASE r \notin o.new
      <4>1. r \in Scheduled(o) \ o.new
        BY <3>3, <3>5
      <4>2. /\ o.computed[r] = eng[r].computed /\ (cfg.spec = 0 => o.drafts[r] = 0)
            /\ IF eng[r].computed + o.num[r] <= Prefill(Len(outputs), r) THEN o.drafts[r] = 0
               ELSE /\ Prefill(Len(outputs), r) <= eng[r].computed
                    /\ o.num[r] = o.drafts[r] + 1
        BY <4>1, AppendedOld
      <4>3. QED BY <3>1, <3>2, <3>5, <4>2
    <3>6. QED BY <3>4, <3>5
  <2>3. QED BY <2>1, <2>2
<1>5. OutputsOwn'
  BY <1>1, <1>4 DEF OutputsOwn, Scheduled
<1>6. \A n \in DOMAIN exec' : RowOwn(exec[n])'
  BY <1>1, <1>3 DEF WorkerOwn, RowOwn, Chunked
<1>7. \A r \in Requests : SlotOwn(r)'
  BY <1>1, <1>3 DEF WorkerOwn, SlotOwn, InBatch
<1>8. \A n \in DOMAIN last_draft' : AnchorOwn(last_draft[n])'
  BY <1>1, <1>3 DEF WorkerOwn, AnchorOwn
<1>9. QED BY <1>5, <1>6, <1>7, <1>8 DEF WorkerOwn

\* The prefill of a request after the step.
LEMMA ScheduledPrefill ==
    ASSUME RunnerInv, Schedule, NEW o, Appends(o), NEW r
    PROVE  Prefill(Len(outputs), r)' =
             IF r \in o.new THEN o.tokens[r] ELSE Prefill(Len(outputs), r)
<1>1. UNCHANGED <<slot, st>>
  BY DEF Schedule, workerVars
<1>2. Len(outputs') = Len(outputs) + 1 /\ Len(outputs) \in 0 .. 1
  BY AppendedOutputs, NothingUnderWay
<1>3. CASE Len(outputs) = 0
  <2>1. Len(outputs') = 1 /\ 1 = Len(outputs) + 1
    BY <1>2, <1>3
  <2>2. Prefill(1, r)' = IF r \in o.new THEN o.tokens[r] ELSE Prefill(Len(outputs), r)
    BY <1>1, <2>1, AppendedPrefill
  <2>3. Prefill(Len(outputs), r)' = Prefill(1, r)'
    BY <2>1 DEF Prefill
  <2>4. QED BY <2>2, <2>3
<1>4. CASE Len(outputs) = 1
  <2>1. Len(outputs') = 2 /\ 2 = Len(outputs) + 1
    BY <1>2, <1>4
  <2>2. Prefill(2, r)' = IF r \in o.new THEN o.tokens[r] ELSE Prefill(Len(outputs), r)
    BY <1>1, <2>1, AppendedPrefill
  <2>3. Prefill(Len(outputs), r)' = Prefill(2, r)'
    BY <2>1 DEF Prefill
  <2>4. QED BY <2>2, <2>3
<1>5. QED BY <1>2, <1>3, <1>4

LEMMA ScheduledKnown ==
    ASSUME WholePrefills, RunnerInv, TokenInv, Schedule, NEW o, Appends(o),
           NEW r \in Requests, eng'[r].status = "running"
    PROVE  KnownAhead(r)'
<1> DEFINE e == eng[r]
           f == eng'[r]
           p == Prefill(Len(outputs), r)
           p1 == IF r \in o.new THEN o.tokens[r] ELSE p
           n == o.num[r]
           d == o.drafts[r]
<1>1. /\ UNCHANGED <<cfg, slot, st, exec, last_draft, answers>>
  BY DEF Schedule, workerVars
<1>2. Prefill(Len(outputs), r)' = p1
  BY ScheduledPrefill
<1>3. /\ e.tokens \in Nat /\ e.computed \in Nat /\ e.placeholders \in Int
      /\ cfg.spec \in Nat /\ cfg.async \in BOOLEAN /\ (cfg.async => cfg.spec = 0)
      /\ n \in Nat /\ (r \in Scheduled(o) <=> n > 0)
  BY StateTypes, CfgTypes DEF RunnerInv, Appends, Scheduled
<1>4. p \in Nat /\ p <= e.tokens
  <2>1. Len(outputs) \in 0 .. Len(outputs)
    BY StateTypes DEF RunnerInv
  <2>2. QED BY <2>1, PrefillKnown
<1>5. /\ f.tokens = e.tokens /\ r \notin o.preempted
      /\ ~cfg.async => f.placeholders = e.placeholders
      /\ r \in Scheduled(o) => f.computed = e.computed + n
      /\ cfg.async /\ r \in Scheduled(o) => f.placeholders = e.placeholders + One(Samples(r, n))
      /\ r \notin Scheduled(o) => f = e
  BY AppendedEngine
<1>6. Samples(r, n) <=> e.computed + n >= e.tokens + e.placeholders
  BY DEF Samples
<1>7. /\ cfg.async => f.tokens + f.placeholders <= Most(p1, f.computed + 1)
      /\ ~cfg.async => /\ f.tokens <= Most(p1, f.computed - n + 1)
                       /\ n = 0 => f.computed < f.tokens
                       /\ cfg.spec > 0 => p1 <= f.computed - d
  <2>1. CASE r \in o.new
    <3>1. /\ r \in Scheduled(o) /\ p1 = e.tokens
          /\ n > 0 /\ n <= e.tokens /\ e.computed = 0 /\ e.placeholders = 0
          /\ d = 0 /\ (cfg.spec > 0 => n = e.tokens)
      BY <2>1, AppendedNew
    <3>2. f.computed = n /\ f.tokens = e.tokens
      BY <1>3, <1>5, <3>1
    <3>3. cfg.async => f.placeholders = One(Samples(r, n)) /\ (Samples(r, n) <=> n >= e.tokens)
      <4>1. cfg.async => f.placeholders = 0 + One(Samples(r, n))
        BY <1>5, <3>1
      <4>2. One(Samples(r, n)) \in Nat
        BY DEF One
      <4>3. QED BY <1>3, <1>6, <3>1, <4>1, <4>2
    <3> HIDE DEF e, f, p1, n, d
    <3>4. cfg.async => f.tokens + f.placeholders <= Most(p1, f.computed + 1)
      BY <1>3, <3>1, <3>2, <3>3 DEF Most, One
    <3>5. ~cfg.async => /\ f.tokens <= Most(p1, f.computed - n + 1)
                        /\ n = 0 => f.computed < f.tokens
                        /\ cfg.spec > 0 => p1 <= f.computed - d
      BY <1>3, <3>1, <3>2 DEF Most
    <3>6. QED BY <3>4, <3>5
  <2>2. CASE r \in Scheduled(o) \ o.new
    <3>1. /\ p1 = p /\ d \in Nat /\ n > 0
          /\ cfg.async => e.tokens + e.placeholders <= Most(p, e.computed + 1)
          /\ ~cfg.async => /\ e.tokens <= Most(p, e.computed + 1)
                           /\ cfg.spec > 0 => p <= e.computed /\ d <= n
      BY <2>2, AppendedOld
    <3>2. f.computed = e.computed + n /\ f.tokens = e.tokens
      BY <1>5, <2>2
    <3>3. cfg.async => f.placeholders = e.placeholders + One(Samples(r, n))
      BY <1>5, <2>2
    <3> HIDE DEF e, f, p, p1, n, d
    <3>4. cfg.async => f.tokens + f.placeholders <= Most(p1, f.computed + 1)
      BY <1>3, <1>4, <1>6, <3>1, <3>2, <3>3 DEF Most, One
    <3>5. ~cfg.async => /\ f.tokens <= Most(p1, f.computed - n + 1)
                        /\ n = 0 => f.computed < f.tokens
                        /\ cfg.spec > 0 => p1 <= f.computed - d
      BY <1>3, <1>4, <3>1, <3>2 DEF Most
    <3>6. QED BY <3>4, <3>5
  <2>3. CASE r \notin Scheduled(o)
    <3>1. f = e /\ n = 0 /\ p1 = p /\ d = 0
      <4>1. f = e /\ n = 0
        BY <1>3, <1>5, <2>3
      <4>2. r \notin o.new
        BY <2>3 DEF Appends
      <4>3. d = 0
        BY <2>3, AppendedOutputOK
      <4>4. QED BY <4>1, <4>2, <4>3
    <3>2. KnownAhead(r)
      BY <3>1, TokenParts DEF KnownTokens
    <3>3. cfg.async => e.tokens + e.placeholders <= Most(p, e.computed + 1)
      BY <3>2 DEF KnownAhead
    <3>4. ~cfg.async => /\ e.tokens <= Most(p, e.computed - 0 + 1) /\ e.computed < e.tokens
                        /\ cfg.spec > 0 => p <= e.computed - 0
      <4> SUFFICES ASSUME ~cfg.async
                   PROVE  /\ e.tokens <= Most(p, e.computed - 0 + 1) /\ e.computed < e.tokens
                          /\ cfg.spec > 0 => p <= e.computed - 0
        OBVIOUS
      <4>1. outputs = <<>> /\ answers = <<>> /\ exec = <<>> /\ DOMAIN exec = {}
        <5>1. DOMAIN <<>> = {}
          OBVIOUS
        <5>2. QED BY <5>1, NothingUnderWay
      <4>2. NumOf(r) = 0 /\ DraftsOf(r) = 0
        BY <4>1 DEF NumOf, DraftsOf, Batched
      <4>3. QED BY <3>2, <4>1, <4>2 DEF KnownAhead
    <3>5. QED BY <3>1, <3>3, <3>4
  <2>4. QED BY <2>1, <2>2, <2>3 DEF Appends
<1>8. ~cfg.async => /\ answers' = <<>> /\ NumOf(r)' = n /\ DraftsOf(r)' = d
  <2>1. ~cfg.async => outputs = <<>> /\ answers = <<>>
    BY NothingUnderWay
  <2>2. outputs' # <<>> /\ (outputs = <<>> => Head(outputs') = o)
    BY AppendedOutputs
  <2>3. QED BY <1>1, <2>1, <2>2 DEF NumOf, DraftsOf
<1> HIDE DEF e, f, p1, n, d
<1>9. QED BY <1>1, <1>2, <1>3, <1>7, <1>8 DEF KnownAhead, f

\* A step that is awaited has a placeholder.
LEMMA ScheduledAwaited ==
    ASSUME WholePrefills, RunnerInv, TokenInv, Schedule, NEW o, Appends(o), cfg.async,
           NEW r \in Requests
    PROVE  PlaceholdersAwaited(r)' /\ PreemptedApart(r)'
<1> DEFINE L == Len(outputs)
           p == Prefill(L, r)
           p1 == IF r \in o.new THEN o.tokens[r] ELSE p
           n == o.num[r]
           e == eng[r]
           New == r \in Scheduled(o) /\ p1 <= o.computed[r] + n
<1>1. /\ UNCHANGED <<cfg, slot, st, exec, last_draft, answers>>
  BY DEF Schedule, workerVars
<1>2. /\ DOMAIN outputs' = 1 .. L + 1 /\ \A i \in 1 .. L : outputs'[i] = outputs[i]
      /\ outputs'[L + 1] = o /\ L \in 0 .. 1 /\ DOMAIN outputs = 1 .. L /\ outputs' # <<>>
      /\ Len(outputs') = L + 1
  BY AppendedOutputs, NothingUnderWay, StateTypes DEF RunnerInv
<1>3. PlaceholdersAwaited(r) /\ PreemptedApart(r)
  BY TokenParts DEF SamplesAwaited
<1>4. \A k \in 1 .. L : OutputSamples(k, r)' <=> OutputSamples(k, r)
  <2> SUFFICES ASSUME NEW k \in 1 .. L PROVE OutputSamples(k, r)' <=> OutputSamples(k, r)
    OBVIOUS
  <2>1. outputs'[k] = outputs[k] /\ k \in DOMAIN outputs /\ k \in DOMAIN outputs' /\ k \in 0 .. L
    BY <1>2
  <2>2. Prefill(k, r)' = Prefill(k, r)
    BY <1>1, <2>1, AppendedPrefill
  <2>3. QED BY <2>1, <2>2 DEF OutputSamples, Scheduled
<1>5. \A k : k = L + 1 => (OutputSamples(k, r)' <=> New) /\ ~OutputSamples(k, r)
  <2> SUFFICES ASSUME NEW k, k = L + 1
               PROVE  (OutputSamples(k, r)' <=> New) /\ ~OutputSamples(k, r)
    OBVIOUS
  <2>1. outputs'[k] = o /\ k \notin DOMAIN outputs /\ k \in DOMAIN outputs'
    BY <1>2
  <2>2. Prefill(k, r)' = p1
    BY <1>1, AppendedPrefill
  <2>3. Scheduled(outputs[k])' = Scheduled(o)
    BY <2>1 DEF Scheduled
  <2> HIDE DEF p1
  <2>4. QED BY <2>1, <2>2, <2>3 DEF OutputSamples
<1>6. L = 0 => ~OutputSamples(2, r)' /\ ~OutputSamples(2, r)
  BY <1>2 DEF OutputSamples
<1>7. /\ RowSamples(r)' <=> RowSamples(r)
      /\ \A k : AnswerSamples(k, r)' <=> AnswerSamples(k, r)
  BY <1>1 DEF RowSamples, AnswerSamples, Chunked
<1> DEFINE rest == One(RowSamples(r)) + One(AnswerSamples(1, r)) + One(AnswerSamples(2, r))
<1>8. Awaited(r)' = Awaited(r) + One(New) /\ Awaited(r) \in Nat
  <2>1. /\ One(RowSamples(r)) \in Nat /\ One(AnswerSamples(1, r)) \in Nat
        /\ One(AnswerSamples(2, r)) \in Nat /\ One(New) \in Nat
        /\ One(OutputSamples(1, r)) \in Nat /\ One(OutputSamples(2, r)) \in Nat
    BY DEF One
  <2>2. /\ One(RowSamples(r)') = One(RowSamples(r))
        /\ \A k : One(AnswerSamples(k, r)') = One(AnswerSamples(k, r))
    BY <1>7 DEF One
  <2>3. Awaited(r) = One(OutputSamples(1, r)) + One(OutputSamples(2, r)) + One(RowSamples(r))
                       + One(AnswerSamples(1, r)) + One(AnswerSamples(2, r))
    BY DEF Awaited
  <2>4. Awaited(r)' = One(OutputSamples(1, r)') + One(OutputSamples(2, r)') + One(RowSamples(r))
                        + One(AnswerSamples(1, r)) + One(AnswerSamples(2, r))
    BY <2>2 DEF Awaited, One
  <2>5. CASE L = 0
    <3>1. /\ One(OutputSamples(1, r)') = One(New) /\ One(OutputSamples(2, r)') = 0
          /\ One(OutputSamples(1, r)) = 0 /\ One(OutputSamples(2, r)) = 0
      <4>1. 1 = L + 1
        BY <2>5
      <4> HIDE DEF New, L
      <4>2. QED BY <1>5, <1>6, <2>5, <4>1 DEF One
    <3> HIDE DEF New
    <3>2. Awaited(r) = 0 + 0 + One(RowSamples(r))
                         + One(AnswerSamples(1, r)) + One(AnswerSamples(2, r))
      BY <2>3, <3>1
    <3>3. Awaited(r)' = One(New) + 0 + One(RowSamples(r))
                          + One(AnswerSamples(1, r)) + One(AnswerSamples(2, r))
      BY <2>4, <3>1
    <3>4. QED BY <2>1, <3>2, <3>3
  <2>6. CASE L = 1
    <3>1. /\ One(OutputSamples(1, r)') = One(OutputSamples(1, r))
          /\ One(OutputSamples(2, r)') = One(New) /\ One(OutputSamples(2, r)) = 0
      <4>1. 2 = L + 1 /\ 1 \in 1 .. L
        BY <2>6
      <4> HIDE DEF New, L
      <4>2. QED BY <1>4, <1>5, <4>1 DEF One
    <3> HIDE DEF New
    <3>2. QED BY <2>1, <2>3, <2>4, <3>1
  <2>7. QED BY <1>2, <2>5, <2>6
<1>9. /\ e.status \in {"none", "running", "preempted", "finished"}
      /\ e.tokens \in Nat /\ e.computed \in Nat /\ e.placeholders \in Int /\ n \in Nat
  BY StateTypes DEF RunnerInv, Appends
<1>10. PlaceholdersAwaited(r)'
  <2>1. CASE r \in Scheduled(o)
    <3>1. /\ eng'[r].status = "running"
          /\ eng'[r].placeholders = e.placeholders + One(Samples(r, n))
      BY <2>1, AppendedEngine
    <3>2. e.placeholders = Awaited(r)
      <4>1. e.status # "finished"
        BY <2>1 DEF Appends
      <4>2. QED BY <1>3, <1>9, <4>1 DEF PlaceholdersAwaited
    <3>3. Samples(r, n) <=> New
      <4>1. CASE r \in o.new
        <5>1. /\ o.tokens[r] = e.tokens /\ o.computed[r] = 0 /\ e.computed = 0
              /\ e.placeholders = 0
          BY <4>1, AppendedNew
        <5>2. Samples(r, n) <=> 0 + n >= e.tokens + 0
          BY <5>1 DEF Samples
        <5>3. New <=> e.tokens <= 0 + n
          BY <2>1, <4>1, <5>1
        <5>4. QED BY <1>9, <5>2, <5>3
      <4>2. CASE r \notin o.new
        <5>1. /\ o.computed[r] = e.computed /\ p \in Nat /\ p <= e.tokens /\ n > 0
              /\ e.tokens + e.placeholders <= Most(p, e.computed + 1)
          BY <2>1, <4>2, AppendedOld
        <5>2. Samples(r, n) <=> e.computed + n >= e.tokens + e.placeholders
          BY DEF Samples
        <5>3. New <=> p <= e.computed + n
          BY <2>1, <4>2, <5>1
        <5> HIDE DEF e, p, n, New
        <5>4. QED BY <1>8, <1>9, <3>2, <5>1, <5>2, <5>3 DEF Most
      <4>3. QED BY <4>1, <4>2
    <3>4. One(Samples(r, n)) = One(New)
      BY <3>3 DEF One
    <3> HIDE DEF New, e, n
    <3>5. QED BY <1>8, <3>1, <3>2, <3>4 DEF PlaceholdersAwaited
  <2>2. CASE r \notin Scheduled(o)
    <3>1. Awaited(r)' = Awaited(r)
      <4>1. One(New) = 0
        BY <2>2 DEF One
      <4> HIDE DEF New
      <4>2. QED BY <1>8, <4>1
    <3>2. CASE r \in o.preempted
      <4>1. eng'[r].status = "preempted" /\ eng'[r].placeholders = e.placeholders
        BY <3>2, AppendedEngine
      <4>2. e.status = "running"
        BY <3>2 DEF Appends, Running
      <4>3. QED BY <1>3, <3>1, <4>1, <4>2 DEF PlaceholdersAwaited
    <3>3. CASE r \notin o.preempted
      <4>1. eng'[r] = eng[r]
        BY <2>2, <3>3, AppendedEngine
      <4>2. QED BY <1>3, <3>1, <4>1 DEF PlaceholdersAwaited
    <3>4. QED BY <3>2, <3>3
  <2>3. QED BY <2>1, <2>2
<1>11. PreemptedApart(r)'
  <2> SUFFICES ASSUME eng'[r].status = "preempted" PROVE PreemptedApart(r)'
    BY DEF PreemptedApart
  <2>1. r \notin Scheduled(o)
    BY AppendedEngine
  <2>2. outputs'[Len(outputs')] = o
    BY <1>2
  <2>3. r \notin Scheduled(outputs[Len(outputs)])'
    BY <2>1, <2>2 DEF Scheduled
  <2>4. QED BY <1>2, <2>3 DEF PreemptedApart
<1>12. QED BY <1>10, <1>11

LEMMA ScheduleTokens ==
    ASSUME WholePrefills, RunnerInv, TokenInv, Schedule
    PROVE  TokenInv'
<1>1. PICK o : Appends(o)
  BY ScheduleChoice
<1>2. cfg' = cfg /\ answers' = answers
  BY DEF Schedule
<1>3. KnownTokens'
  BY <1>1, ScheduledKnown DEF KnownTokens
<1>4. SamplesAwaited'
  <2>1. SamplesAwaited
    BY TokenParts
  <2>2. QED BY <1>1, <1>2, <2>1, ScheduledAwaited DEF SamplesAwaited
<1>5. QED BY <1>1, <1>3, <1>4, ScheduledOwn, TokenParts

--------------------------------------------------------------------------------
(* Whose tokens: the theorem *)

LEMMA TokenStep ==
    ASSUME WholePrefills, RunnerInv, TokenInv, [Next]_vars
    PROVE  TokenInv'
<1>1. CASE \/ CaptureGraph \/ CaptureDraftGraph \/ CaptureDone \/ TakeDraftTokenIds
           \/ \E r \in Requests : Abort(r)
           \/ UNCHANGED vars
  BY <1>1, QuietTokens
<1>2. CASE Schedule
  BY <1>2, ScheduleTokens
<1>3. CASE Update
  BY <1>3, UpdateTokens
<1>4. CASE Execute
  BY <1>4, ExecuteTokens
<1>5. CASE SampleTokens
  BY <1>5, SampleTokensTokens
<1>6. QED BY <1>1, <1>2, <1>3, <1>4, <1>5 DEF Next

LEMMA TokensOwned ==
    ASSUME RunnerInv, TokenInv
    PROVE  OwnTokens
<1>1. \A n \in DOMAIN last_draft : last_draft[n].anchor = <<last_draft[n].r, last_draft[n].end>>
  BY TokenParts DEF WorkerOwn, AnchorOwn
<1>2. ASSUME NEW n \in DOMAIN exec
      PROVE  LET b == exec[n]
                 end == b.start + b.num
                 from == end - 1 - b.drafts
             IN  IF end <= b.prefill THEN b.drafts = 0
                 ELSE /\ b.first = <<b.r, from>>
                      /\ b.drafts > 0 => b.guess.r = b.r /\ b.guess.pos = from + 1
                      /\ from <= Most(b.start, b.prefill)
  <2> DEFINE b == exec[n]
  <2>1. b.start \in Nat /\ b.num \in Nat /\ b.drafts \in Nat /\ b.prefill \in Nat
    BY RowFacts, SlotFields
  <2>2. RowOwn(b)
    BY TokenParts DEF WorkerOwn
  <2> HIDE DEF b
  <2>3. CASE b.start + b.num <= b.prefill
    BY <2>2, <2>3 DEF RowOwn, b
  <2>4. CASE ~(b.start + b.num <= b.prefill)
    <3> DEFINE from == (b.start + b.num) - 1 - b.drafts
    <3>1. /\ b.prefill <= b.start /\ b.num = b.drafts + 1 /\ b.first = <<b.r, b.start>>
          /\ b.drafts > 0 => b.guess.r = b.r /\ b.guess.pos = b.start + 1
      BY <2>2, <2>4 DEF RowOwn
    <3>2. from = b.start /\ from <= Most(b.start, b.prefill)
      BY <2>1, <3>1 DEF Most
    <3> HIDE DEF from
    <3>3. /\ b.first = <<b.r, from>>
          /\ b.drafts > 0 => b.guess.r = b.r /\ b.guess.pos = from + 1
          /\ from <= Most(b.start, b.prefill)
      BY <3>1, <3>2
    <3>4. QED BY <2>4, <3>3 DEF from, b
  <2>5. QED BY <2>3, <2>4
<1>3. QED BY <1>1, <1>2 DEF OwnTokens

\* Every token the model is run on is the request's own at its position, in every deployment
\* in which a runner that drafts is given each prefill whole: the last sample and the drafts
\* of a slot are kept in step with a scheduler that never sends them, through rejected
\* drafts, preemptions, resumptions and slots that change hands, one step ahead of the
\* answers or not (prepare_inputs, combine_sampled_and_draft_tokens, postprocess).
THEOREM TokensAreOwn ==
    ASSUME WholePrefills
    PROVE  Spec => []OwnTokens
<1> DEFINE Inv == (RunnerInv /\ PaddedRowsInert) /\ TokenInv
<1>1. Init => Inv
  BY InitInv, InitTokens
<1>2. Inv /\ [Next]_vars => Inv'
  <2>1. RunnerInv /\ PaddedRowsInert /\ [Next]_vars => (RunnerInv /\ PaddedRowsInert)'
    BY NextStep
  <2>2. RunnerInv /\ TokenInv /\ [Next]_vars => TokenInv'
    BY TokenStep
  <2>3. QED BY <2>1, <2>2
<1>3. Inv => OwnTokens
  BY TokensOwned
<1>4. QED BY <1>1, <1>2, <1>3, PTL DEF Spec

--------------------------------------------------------------------------------
(* The draft's context: new blocks *)

\* The blocks a request has with those it gets are enough for what it will compute.
LEMMA MissingFacts ==
    ASSUME TypeOK, NEW r \in Requests, NEW n \in Nat
    PROVE  /\ Missing(r, n) \in Nat
           /\ eng[r].computed + n <= (Len(eng[r].blocks) + Missing(r, n)) * BlockSize
<1>1. PICK a, b, q : a = eng[r].computed + n /\ b = Len(eng[r].blocks) /\ q = CeilDiv(a, BlockSize)
  OBVIOUS
<1>2. a \in Nat /\ b \in Nat /\ BlockSize \in Nat /\ BlockSize > 0
  BY <1>1, StateTypes, ConstantTypes, IsSeqFacts
<1>3. q \in Int /\ a <= q * BlockSize
  <2>1. PICK x : x = a + BlockSize - 1
    OBVIOUS
  <2>2. x \in Int /\ q = x \div BlockSize
    BY <1>1, <1>2, <2>1 DEF CeilDiv
  <2>3. q \in Int /\ x < (q + 1) * BlockSize
    BY <1>2, <2>2
  <2>4. (q + 1) * BlockSize = q * BlockSize + BlockSize
    BY <1>2, <2>3
  <2>5. q * BlockSize \in Int
    BY <1>2, <2>3
  <2>6. QED BY <1>2, <2>1, <2>3, <2>4, <2>5
<1>4. Missing(r, n) = Most(0, q - b)
  BY <1>1 DEF Missing
<1>5. Most(0, q - b) \in Nat /\ q <= b + Most(0, q - b)
  BY <1>2, <1>3 DEF Most
<1>6. PICK z : z = b + Most(0, q - b)
  OBVIOUS
<1>7. z \in Nat /\ q <= z
  BY <1>2, <1>5, <1>6
<1>8. q * BlockSize <= z * BlockSize
  BY <1>2, <1>3, <1>7
<1>9. q * BlockSize \in Int /\ z * BlockSize \in Int
  BY <1>2, <1>3, <1>7
<1>10. a <= z * BlockSize
  BY <1>2, <1>3, <1>8, <1>9
<1>11. QED BY <1>1, <1>4, <1>5, <1>6, <1>10

\* The requests of an output get free blocks, no block twice.
LEMMA NewBlocksApart ==
    ASSUME TypeOK, NEW num \in [Requests -> Nat], TotalMissing(num) <= Cardinality(Free)
    PROVE  LET scheduled == {r \in Requests : num[r] > 0}
               blocks == NewBlocks(num)
           IN  /\ \A r \in scheduled : blocks[r] \in [1 .. Missing(r, num[r]) -> Free]
               /\ \A r, s \in scheduled :
                  \A i \in 1 .. Missing(r, num[r]), j \in 1 .. Missing(s, num[s]) :
                     blocks[r][i] = blocks[s][j] => r = s /\ i = j
<1> DEFINE scheduled == {r \in Requests : num[r] > 0}
           order == SetToSeq(scheduled)
           m == [r \in scheduled |-> Missing(r, num[r])]
           earlier(r) == {s \in scheduled : \E i, j \in DOMAIN order :
                             i < j /\ order[i] = s /\ order[j] = r}
           before(r) == Total([s \in earlier(r) |-> Missing(s, num[s])])
           total == TotalMissing(num)
           free == Ascending(Free, total)
           units(T) == Cardinality(UnitsOver(m, T))
<1>1. NewBlocks(num) = [r \in scheduled |-> [k \in 1 .. m[r] |-> free[before(r) + k]]]
  BY DEF NewBlocks
<1>2. IsFiniteSet(scheduled) /\ scheduled \subseteq Requests
  BY ConstantTypes, FS_Subset
<1>3. \A r \in scheduled : m[r] \in Nat /\ m[r] = Missing(r, num[r])
  BY MissingFacts
<1>4. /\ order \in [1 .. Cardinality(scheduled) -> scheduled] /\ Cardinality(scheduled) \in Nat
      /\ \A i, j \in 1 .. Cardinality(scheduled) : order[i] = order[j] => i = j
      /\ \A x \in scheduled : \E i \in 1 .. Cardinality(scheduled) : order[i] = x
  BY <1>2, SetToSeqFacts
<1>5. total = units(scheduled)
  <2>1. total = FoldFunctionOnSet(+, 0, m, scheduled)
    BY DEF TotalMissing, Total
  <2> HIDE DEF m, scheduled, total
  <2>2. QED BY <1>2, <1>3, <2>1, FoldSum
<1>6. \A r \in scheduled : earlier(r) \in SUBSET scheduled
  OBVIOUS
<1>7. ASSUME NEW T \in SUBSET scheduled
      PROVE  Total([s \in T |-> Missing(s, num[s])]) = units(T)
  <2>1. PICK f : f = [s \in T |-> Missing(s, num[s])]
    OBVIOUS
  <2>2. DOMAIN f = T /\ \A s \in T : f[s] = m[s]
    BY <2>1
  <2>3. IsFiniteSet(T) /\ \A s \in T : f[s] \in Nat
    BY <1>2, <1>3, <2>2, FS_Subset
  <2>4. FoldFunctionOnSet(+, 0, f, T) = Cardinality(UnitsOver(f, T))
    BY <2>3, FoldSum
  <2>5. UnitsOver(f, T) = UnitsOver(m, T)
    <3> HIDE DEF m
    <3>1. QED BY <2>2 DEF UnitsOver
  <2>6. QED BY <2>1, <2>2, <2>4, <2>5 DEF Total
<1>8. \A r \in scheduled : before(r) = units(earlier(r))
  BY <1>6, <1>7
<1> HIDE DEF total, free, before, m, units
<1>9. ASSUME NEW r \in scheduled, NEW T \in SUBSET scheduled, earlier(r) \subseteq T, r \in T
      PROVE  /\ before(r) \in Nat /\ units(T) \in Nat
             /\ before(r) + m[r] <= units(T)
  <2>1. r \notin earlier(r)
    <3>1. ASSUME NEW i \in DOMAIN order, NEW j \in DOMAIN order, i < j, order[i] = r, order[j] = r
          PROVE  FALSE
      <4>1. i \in 1 .. Cardinality(scheduled) /\ j \in 1 .. Cardinality(scheduled)
        BY <1>4
      <4>2. i = j
        BY <1>4, <3>1, <4>1
      <4>3. QED BY <1>4, <3>1, <4>1, <4>2
    <3>2. QED BY <3>1
  <2>2. PICK E : E = earlier(r)
    OBVIOUS
  <2> HIDE DEF earlier
  <2>3. E \in SUBSET T /\ r \notin E
    BY <1>9, <2>1, <2>2
  <2>4. /\ Cardinality(UnitsOver(m, E)) \in Nat /\ Cardinality(UnitsOver(m, T)) \in Nat
        /\ Cardinality(UnitsOver(m, E)) + m[r] <= Cardinality(UnitsOver(m, T))
    <3> HIDE DEF scheduled
    <3>1. QED BY <1>2, <1>3, <1>9, <2>3, UnitsGrow
  <2>5. QED BY <1>8, <2>2, <2>4 DEF units
<1>10. ASSUME NEW r \in scheduled, NEW s \in scheduled, r # s
       PROVE  before(r) + m[r] <= before(s) \/ before(s) + m[s] <= before(r)
  <2>1. PICK a \in 1 .. Cardinality(scheduled), b \in 1 .. Cardinality(scheduled) :
          order[a] = r /\ order[b] = s
    BY <1>4
  <2>2. DOMAIN order = 1 .. Cardinality(scheduled)
    BY <1>4
  <2>3. \A i \in DOMAIN order : i \in Int
    BY <2>2
  <2>4. a \in DOMAIN order /\ b \in DOMAIN order /\ (a < b \/ b < a)
    BY <1>10, <2>1, <2>2, <2>3
  <2>5. ASSUME NEW x \in scheduled, NEW y \in scheduled, NEW i \in DOMAIN order,
               NEW j \in DOMAIN order, i < j, order[i] = x, order[j] = y
        PROVE  before(x) + m[x] <= before(y)
    <3>1. x \in earlier(y)
      BY <2>5
    <3>2. earlier(x) \subseteq earlier(y)
      <4>1. ASSUME NEW z \in earlier(x) PROVE z \in earlier(y)
        <5>1. PICK k \in DOMAIN order : \E l \in DOMAIN order : k < l /\ order[k] = z /\ order[l] = x
          OBVIOUS
        <5>2. PICK l \in DOMAIN order : k < l /\ order[k] = z /\ order[l] = x
          BY <5>1
        <5>3. l = i
          BY <1>4, <2>2, <2>5, <5>2
        <5>4. k < j
          BY <2>3, <2>5, <5>2, <5>3
        <5>5. z \in scheduled /\ order[k] = z /\ order[j] = y
          BY <2>5, <5>2
        <5>6. QED BY <5>4, <5>5
      <4>2. QED BY <4>1
    <3>3. PICK T : T = earlier(y)
      OBVIOUS
    <3>4. T \in SUBSET scheduled /\ earlier(x) \subseteq T /\ x \in T
      BY <1>6, <3>1, <3>2, <3>3
    <3> HIDE DEF earlier
    <3>5. before(x) + m[x] <= units(T)
      BY <1>9, <3>4
    <3>6. QED BY <1>8, <3>3, <3>5
  <2>6. QED BY <2>1, <2>4, <2>5
<1>11. ASSUME NEW r \in scheduled
       PROVE  before(r) \in Nat /\ before(r) + m[r] <= total /\ total \in Nat
  <2>1. earlier(r) \subseteq scheduled
    BY <1>6
  <2> HIDE DEF earlier, scheduled
  <2>2. QED BY <1>5, <1>9, <2>1
<1> HIDE DEF earlier
<1>12. ASSUME NEW r \in scheduled, NEW i \in 1 .. m[r] PROVE before(r) + i \in 1 .. total
  BY <1>3, <1>11
<1>13. ASSUME NEW r \in scheduled
       PROVE  /\ free \in [1 .. total -> Free]
              /\ \A i, j \in 1 .. total : free[i] = free[j] => i = j
  <2>1. total \in Nat /\ total <= Cardinality(Free)
    BY <1>11 DEF total
  <2>2. Free \in SUBSET (1 .. NumBlocks) /\ NumBlocks \in Nat
    BY ConfigAssumption DEF Free, Blocks
  <2>3. QED BY <2>1, <2>2, AscendingFacts DEF free
<1>14. ASSUME NEW r \in scheduled
       PROVE  NewBlocks(num)[r] = [k \in 1 .. m[r] |-> free[before(r) + k]]
  BY <1>1
<1>15. ASSUME NEW r \in scheduled PROVE NewBlocks(num)[r] \in [1 .. Missing(r, num[r]) -> Free]
  <2>1. \A k \in 1 .. m[r] : free[before(r) + k] \in Free
    BY <1>12, <1>13
  <2>2. PICK g : g = [k \in 1 .. m[r] |-> free[before(r) + k]]
    OBVIOUS
  <2>3. g \in [1 .. m[r] -> Free]
    BY <2>1, <2>2
  <2>4. m[r] = Missing(r, num[r]) /\ NewBlocks(num)[r] = g
    BY <1>3, <1>14, <2>2
  <2>5. QED BY <2>3, <2>4
<1>16. ASSUME NEW r \in scheduled, NEW s \in scheduled, NEW i \in 1 .. m[r], NEW j \in 1 .. m[s],
              NewBlocks(num)[r][i] = NewBlocks(num)[s][j]
       PROVE  r = s /\ i = j
  <2>1. free[before(r) + i] = free[before(s) + j]
    BY <1>14, <1>16
  <2>2. before(r) + i = before(s) + j
    BY <1>12, <1>13, <2>1
  <2>3. /\ before(r) \in Nat /\ before(s) \in Nat /\ m[r] \in Nat /\ m[s] \in Nat
        /\ i \in Nat /\ j \in Nat /\ i >= 1 /\ j >= 1 /\ i <= m[r] /\ j <= m[s]
    BY <1>3, <1>11
  <2>4. r = s
    <3>1. SUFFICES ASSUME r # s PROVE FALSE
      OBVIOUS
    <3>2. before(r) + m[r] <= before(s) \/ before(s) + m[s] <= before(r)
      BY <1>10, <3>1
    <3>3. QED BY <2>2, <2>3, <3>2
  <2>5. QED BY <2>2, <2>3, <2>4
<1>17. QED BY <1>3, <1>15, <1>16

--------------------------------------------------------------------------------
(* The draft's context: tables *)

\* Tables stay apart when some are emptied and others get blocks that nobody has.
LEMMA TablesGrow ==
    ASSUME NEW t, NEW u, NEW w, DOMAIN t = Requests, DOMAIN u = Requests, DOMAIN w = Requests,
           \A r \in Requests : IsSeq(t[r]) /\ IsSeq(u[r]) /\ Range(t[r]) \subseteq Blocks,
           \A r \in Requests : w[r] = <<>> \/ w[r] = t[r] \/ w[r] = t[r] \o u[r],
           \A r \in Requests : \A i \in DOMAIN u[r] : u[r][i] \in Blocks,
           \A r, s \in Requests : \A i \in DOMAIN u[r], j \in DOMAIN t[s] : u[r][i] # t[s][j],
           TablesApart(t), TablesApart(u)
    PROVE  TablesApart(w) /\ \A r \in Requests : Range(w[r]) \subseteq Blocks
<1>1. ASSUME NEW r \in Requests, NEW i \in DOMAIN w[r]
      PROVE  \/ i \in DOMAIN t[r] /\ w[r][i] = t[r][i]
             \/ i - Len(t[r]) \in DOMAIN u[r] /\ w[r][i] = u[r][i - Len(t[r])] /\ i \in Int
  <2>1. /\ Len(t[r]) \in Nat /\ DOMAIN t[r] = 1 .. Len(t[r]) /\ t[r] \in Seq(Range(t[r]))
        /\ Len(u[r]) \in Nat /\ DOMAIN u[r] = 1 .. Len(u[r]) /\ u[r] \in Seq(Range(u[r]))
    BY IsSeqFacts
  <2>2. PICK A : A = Range(t[r]) \cup Range(u[r])
    OBVIOUS
  <2>3. t[r] \in Seq(A) /\ u[r] \in Seq(A)
    BY <2>1, <2>2
  <2>4. PICK a, b : a = t[r] /\ b = u[r]
    OBVIOUS
  <2>5. /\ a \o b \in Seq(A) /\ Len(a \o b) = Len(a) + Len(b)
        /\ \A k \in 1 .. Len(a) + Len(b) : (a \o b)[k] = IF k <= Len(a) THEN a[k] ELSE b[k - Len(a)]
    BY <2>3, <2>4, ConcatProperties
  <2>6. CASE w[r] = a \o b
    <3>1. i \in 1 .. Len(a) + Len(b)
      BY <2>5, <2>6, <1>1
    <3>2. CASE i <= Len(a)
      BY <2>1, <2>4, <2>5, <2>6, <3>1, <3>2
    <3>3. CASE i > Len(a)
      <4>1. i - Len(a) \in 1 .. Len(b) /\ i \in Int
        BY <2>1, <2>4, <3>1, <3>3
      <4>2. w[r][i] = b[i - Len(a)]
        BY <2>1, <2>4, <2>5, <2>6, <3>1, <3>3
      <4>3. QED BY <2>1, <2>4, <4>1, <4>2
    <3>4. QED BY <2>1, <2>4, <3>1, <3>2, <3>3
  <2>7. CASE w[r] = t[r]
    BY <1>1, <2>7
  <2>8. CASE w[r] = <<>>
    BY <1>1, <2>8
  <2>9. QED BY <2>4, <2>6, <2>7, <2>8
<1>2. \A r \in Requests : Len(t[r]) \in Nat /\ DOMAIN t[r] = 1 .. Len(t[r])
  BY IsSeqFacts
<1>3. ASSUME NEW r \in Requests, NEW s \in Requests, NEW i \in DOMAIN w[r], NEW j \in DOMAIN w[s],
             w[r][i] = w[s][j]
      PROVE  r = s /\ i = j
  <2>0. /\ \A a \in DOMAIN t[r], b \in DOMAIN t[s] : t[r][a] = t[s][b] => r = s /\ a = b
        /\ \A a \in DOMAIN u[r], b \in DOMAIN u[s] : u[r][a] = u[s][b] => r = s /\ a = b
    BY DEF TablesApart
  <2>1. CASE i \in DOMAIN t[r] /\ w[r][i] = t[r][i] /\ j \in DOMAIN t[s] /\ w[s][j] = t[s][j]
    BY ONLY <1>3, <2>0, <2>1
  <2>2. CASE /\ i - Len(t[r]) \in DOMAIN u[r] /\ w[r][i] = u[r][i - Len(t[r])] /\ i \in Int
             /\ j - Len(t[s]) \in DOMAIN u[s] /\ w[s][j] = u[s][j - Len(t[s])] /\ j \in Int
    <3>1. PICK a, b : a = i - Len(t[r]) /\ b = j - Len(t[s])
      OBVIOUS
    <3>2. a \in DOMAIN u[r] /\ b \in DOMAIN u[s] /\ u[r][a] = u[s][b]
      BY ONLY <1>3, <2>2, <3>1
    <3>3. r = s /\ a = b
      BY ONLY <2>0, <3>2
    <3>4. QED BY <1>2, <2>2, <3>1, <3>3
  <2>3. QED BY <1>1, <1>3, <2>1, <2>2
<1>4. ASSUME NEW r \in Requests PROVE Range(w[r]) \subseteq Blocks
  <2>1. ASSUME NEW i \in DOMAIN w[r] PROVE w[r][i] \in Blocks
    BY <1>1 DEF Range
  <2>2. QED BY <2>1 DEF Range
<1>5. QED BY <1>3, <1>4 DEF TablesApart

\* A position has at most one place in the cache, and no two positions share one.
LEMMA SlotsApart ==
    ASSUME NEW t, DOMAIN t = Requests, TablesApart(t),
           \A r \in Requests : IsSeq(t[r]) /\ Range(t[r]) \subseteq Blocks,
           NEW r \in Requests, NEW s \in Requests, NEW x, x.blocks = t[r], NEW y, y.blocks = t[s],
           NEW p \in Nat, NEW q \in Nat, NEW z \in SlotOf(x, p)
    PROVE  /\ z \in Blocks \X (0 .. BlockSize - 1)
           /\ z \in SlotOf(y, q) => r = s /\ p = q
           /\ r = s => SlotOf(y, p) = SlotOf(x, p)
<1>1. BlockSize \in Nat /\ BlockSize > 0
  BY ConstantTypes
<1>2. PICK B : B = BlockSize
  OBVIOUS
<1>3. \A n \in Nat : /\ n \div B \in Nat /\ n % B \in 0 .. B - 1
                     /\ n = B * (n \div B) + (n % B)
  BY <1>1, <1>2
<1>4. /\ Len(t[r]) \in Nat /\ DOMAIN t[r] = 1 .. Len(t[r])
      /\ Len(t[s]) \in Nat /\ DOMAIN t[s] = 1 .. Len(t[s])
  BY IsSeqFacts
<1>5. /\ p \div B < Len(t[r]) /\ z = <<t[r][p \div B + 1], p % B>>
  BY <1>2 DEF SlotOf
<1>6. p \div B + 1 \in DOMAIN t[r]
  <2>1. PICK k : k = p \div B
    OBVIOUS
  <2>2. k \in Nat /\ k < Len(t[r])
    BY <1>3, <1>5, <2>1
  <2>3. k + 1 \in 1 .. Len(t[r])
    BY <1>4, <2>2
  <2>4. QED BY <1>4, <2>1, <2>3
<1>7. z \in Blocks \X (0 .. BlockSize - 1)
  <2>1. t[r][p \div B + 1] \in Blocks
    BY <1>6 DEF Range
  <2>2. QED BY <1>2, <1>3, <1>5, <2>1
<1>8. ASSUME z \in SlotOf(y, q) PROVE r = s /\ p = q
  <2>1. q \div B < Len(t[s]) /\ z = <<t[s][q \div B + 1], q % B>>
    BY <1>2, <1>8 DEF SlotOf
  <2>2. q \div B + 1 \in DOMAIN t[s]
    <3>1. PICK k : k = q \div B
      OBVIOUS
    <3>2. k \in Nat /\ k < Len(t[s])
      BY <1>3, <2>1, <3>1
    <3>3. k + 1 \in 1 .. Len(t[s])
      BY <1>4, <3>2
    <3>4. QED BY <1>4, <3>1, <3>3
  <2>3. t[r][p \div B + 1] = t[s][q \div B + 1] /\ p % B = q % B
    BY <1>5, <2>1
  <2>4. r = s /\ p \div B + 1 = q \div B + 1
    BY <1>6, <2>2, <2>3 DEF TablesApart
  <2>5. p \div B = q \div B
    BY <1>3, <2>4
  <2>6. QED BY <1>3, <2>3, <2>4, <2>5
<1>9. r = s => SlotOf(y, p) = SlotOf(x, p)
  BY DEF SlotOf
<1>10. QED BY <1>7, <1>8, <1>9

\* The empty table, and tables of blocks.
LEMMA BlockTable ==
    ASSUME NEW s
    PROVE  /\ s \in Seq(Blocks) <=> IsSeq(s) /\ Range(s) \subseteq Blocks
           /\ <<>> \in Seq(Blocks) /\ Len(<<>>) = 0
<1>1. ASSUME s \in Seq(Blocks) PROVE IsSeq(s) /\ Range(s) \subseteq Blocks
  <2>1. IsSeq(s)
    BY <1>1, SeqIsSeq
  <2>2. \A i \in 1 .. Len(s) : s[i] \in Blocks
    BY <1>1
  <2>3. DOMAIN s = 1 .. Len(s)
    BY <1>1
  <2>4. QED BY <2>1, <2>2, <2>3 DEF Range
<1>2. ASSUME IsSeq(s), Range(s) \subseteq Blocks PROVE s \in Seq(Blocks)
  <2>1. s \in Seq(Range(s))
    BY <1>2 DEF IsSeq
  <2>2. QED BY <1>2, <2>1
<1>3. <<>> \in Seq(Blocks) /\ Len(<<>>) = 0
  OBVIOUS
<1>4. QED BY <1>1, <1>2, <1>3

\* Tables fit as long as blocks are only given back.
LEMMA FitShrinks ==
    ASSUME NEW t, NEW c, NEW u, NEW d, DOMAIN t = Requests, DOMAIN u = Requests, TablesFit(t, c),
           \A r \in Requests : \/ u[r] = t[r] /\ c[r] \in Nat /\ d[r] \in Nat /\ d[r] <= c[r]
                               \/ u[r] = <<>> /\ d[r] = 0
    PROVE  TablesFit(u, d)
<1>1. TablesApart(t) /\ \A r \in Requests : t[r] \in Seq(Blocks) /\ c[r] <= Len(t[r]) * BlockSize
  BY DEF TablesFit
<1>2. ASSUME NEW r \in Requests PROVE u[r] \in Seq(Blocks) /\ d[r] <= Len(u[r]) * BlockSize
  <2>1. CASE u[r] = t[r] /\ c[r] \in Nat /\ d[r] \in Nat /\ d[r] <= c[r]
    <3>1. PICK n : n = Len(t[r]) * BlockSize
      OBVIOUS
    <3>2. n \in Nat
      BY <1>1, <3>1, ConstantTypes
    <3>3. QED BY <1>1, <2>1, <3>1, <3>2
  <2>2. CASE u[r] = <<>> /\ d[r] = 0
    BY <2>2, BlockTable, ConstantTypes
  <2>3. QED BY <2>1, <2>2
<1>3. TablesApart(u)
  <2>1. \A r \in Requests : u[r] = t[r] \/ DOMAIN u[r] = {}
    OBVIOUS
  <2>2. QED BY <1>1, <2>1 DEF TablesApart
<1>4. QED BY <1>2, <1>3 DEF TablesFit

LEMMA EngineShrinks ==
    ASSUME TypeOK, EngineTables,
           \A r \in Requests :
             \/ /\ eng'[r].status = eng[r].status /\ eng'[r].blocks = eng[r].blocks
                /\ eng'[r].computed \in Nat /\ eng'[r].computed <= eng[r].computed
             \/ eng'[r].status # "running" /\ eng'[r].blocks = <<>>
    PROVE  EngineTables'
<1>1. PICK t, c : /\ t = [r \in Requests |-> eng[r].blocks]
                  /\ c = [r \in Requests |-> IF eng[r].status = "running" THEN eng[r].computed ELSE 0]
  OBVIOUS
<1>2. PICK u, d : /\ u = [r \in Requests |-> eng'[r].blocks]
                  /\ d = [r \in Requests |-> IF eng'[r].status = "running" THEN eng'[r].computed ELSE 0]
  OBVIOUS
<1>3. TablesFit(t, c) /\ \A r \in Requests : eng[r].status # "running" => eng[r].blocks = <<>>
  BY <1>1 DEF EngineTables
<1>4. ASSUME NEW r \in Requests
      PROVE  \/ u[r] = t[r] /\ c[r] \in Nat /\ d[r] \in Nat /\ d[r] <= c[r]
             \/ u[r] = <<>> /\ d[r] = 0
  BY <1>1, <1>2, StateTypes
<1>5. TablesFit(u, d)
  BY <1>1, <1>2, <1>3, <1>4, FitShrinks
<1>6. \A r \in Requests : eng'[r].status # "running" => eng'[r].blocks = <<>>
  BY <1>3
<1>7. QED BY <1>2, <1>5, <1>6 DEF EngineTables

--------------------------------------------------------------------------------
(* The draft's context: the steps that leave the worker alone *)

\* The part of DraftInv that is the worker's.
WorkerDraft ==
    /\ WorkerTables /\ RowTables
    /\ DOMAIN draft_kv = Blocks \X (0 .. BlockSize - 1)
    /\ DraftContextComplete

LEMMA DraftParts == DraftInv <=> (cfg.spec > 0 => EngineTables /\ WorkerDraft)
BY DEF DraftInv, WorkerDraft

LEMMA WorkerDraftSame ==
    ASSUME WorkerDraft, UNCHANGED <<cfg, slot, st, exec, outputs, draft_kv>>
    PROVE  WorkerDraft'
<1>1. \A k, r : View(k, r)' = View(k, r)
  BY ViewSame
<1>2. WorkerTables'
  BY <1>1 DEF WorkerDraft, WorkerTables
<1>3. RowTables'
  BY DEF WorkerDraft, RowTables
<1>4. DraftContextComplete'
  BY DEF WorkerDraft, DraftContextComplete
<1>5. QED BY <1>2, <1>3, <1>4 DEF WorkerDraft

\* An update takes blocks back from a request it ends and from no other, and computes
\* nothing.
LEMMA UpdatedBlocks ==
    ASSUME cfg.async \in BOOLEAN, NEW q, RequestOK(q), NEW r \in Requests, NEW a,
           a.sampled \in Nat, a.rejected \in Nat, q.tokens < PromptLen[r] + MaxTokens[r]
    PROVE  LET p == Updated(q, r, a)
           IN  \/ /\ p.status = q.status /\ p.blocks = q.blocks
                  /\ p.computed \in Nat /\ p.computed <= q.computed
               \/ p.status = "finished" /\ p.blocks = <<>>
<1> DEFINE limit == PromptLen[r] + MaxTokens[r]
           kept == Least(a.sampled, limit - q.tokens)
           u == [q EXCEPT !.tokens = @ + kept, !.computed = Most(0, @ - a.rejected),
                          !.placeholders = IF cfg.async THEN @ - kept ELSE @]
           f == [u EXCEPT !.status = "finished", !.blocks = <<>>]
<1>1. Updated(q, r, a) = f \/ Updated(q, r, a) = u
  BY DEF Updated
<1>2. q.computed \in Nat /\ DOMAIN q = {"status", "tokens", "computed", "placeholders", "spec", "blocks"}
  BY DEF RequestOK
<1> HIDE DEF kept, limit
<1>3. u.status = q.status /\ u.blocks = q.blocks /\ u.computed = Most(0, q.computed - a.rejected)
  BY <1>2
<1>4. u.computed \in Nat /\ u.computed <= q.computed
  BY <1>2, <1>3 DEF Most
<1>5. f.status = "finished" /\ f.blocks = <<>>
  <2>1. DOMAIN u = DOMAIN q
    OBVIOUS
  <2> HIDE DEF u
  <2>2. QED BY <1>2, <2>1
<1> HIDE DEF u, f
<1>6. QED BY <1>1, <1>3, <1>4, <1>5

\* The captures, the drafts' way back, an update, an abort and a stutter.
LEMMA QuietDraft ==
    ASSUME RunnerInv, DraftInv,
           \/ CaptureGraph \/ CaptureDraftGraph \/ CaptureDone \/ TakeDraftTokenIds \/ Update
           \/ \E r \in Requests : Abort(r)
           \/ UNCHANGED vars
    PROVE  DraftInv'
<1>1. UNCHANGED <<cfg, slot, st, exec, outputs, draft_kv>>
  BY DEF CaptureGraph, CaptureDraftGraph, CaptureDone, TakeDraftTokenIds, Update, Abort, vars,
     graphVars, engineVars, workerVars
<1>2. SUFFICES ASSUME cfg.spec > 0 PROVE EngineTables' /\ WorkerDraft'
  BY <1>1, DraftParts DEF DraftInv, WorkerDraft
<1>3. TypeOK /\ EngineTables /\ WorkerDraft
  BY <1>2, DraftParts DEF RunnerInv
<1>4. ASSUME NEW r \in Requests
      PROVE  /\ RequestOK(eng[r]) /\ eng[r].computed \in Nat /\ cfg.async \in BOOLEAN
             /\ DOMAIN eng[r] = {"status", "tokens", "computed", "placeholders", "spec", "blocks"}
  BY <1>3, CfgTypes DEF TypeOK, RequestOK
<1>5. ASSUME NEW r \in Requests
      PROVE  \/ /\ eng'[r].status = eng[r].status /\ eng'[r].blocks = eng[r].blocks
                /\ eng'[r].computed \in Nat /\ eng'[r].computed <= eng[r].computed
             \/ eng'[r].status # "running" /\ eng'[r].blocks = <<>>
  <2>1. CASE CaptureGraph \/ CaptureDraftGraph \/ CaptureDone \/ UNCHANGED vars
    <3>1. eng' = eng
      BY <2>1 DEF CaptureGraph, CaptureDraftGraph, CaptureDone, vars, engineVars
    <3>2. QED BY <1>4, <3>1
  <2>2. CASE TakeDraftTokenIds
    <3>1. eng'[r] = [eng[r] EXCEPT !.spec = cfg.spec] \/ eng'[r] = eng[r]
      BY <2>2 DEF TakeDraftTokenIds
    <3>2. QED BY <1>4, <3>1
  <2>3. CASE \E a \in Requests : Abort(a)
    <3>1. PICK a \in Requests : Abort(a)
      BY <2>3
    <3>2. eng' = [eng EXCEPT ![a] = [eng[a] EXCEPT !.status = "finished", !.blocks = <<>>]]
      BY <3>1 DEF Abort
    <3>3. eng = [s \in Requests |-> eng[s]]
      BY <1>3 DEF TypeOK
    <3>4. r # a => eng'[r] = eng[r]
      BY <3>2, <3>3
    <3>5. r = a => eng'[r] = [eng[r] EXCEPT !.status = "finished", !.blocks = <<>>]
      BY <3>2, <3>3
    <3>6. CASE r = a
      <4>1. PICK q : q = eng[r]
        OBVIOUS
      <4>2. /\ eng'[r] = [q EXCEPT !.status = "finished", !.blocks = <<>>]
            /\ DOMAIN q = {"status", "tokens", "computed", "placeholders", "spec", "blocks"}
        BY <1>4, <3>5, <3>6, <4>1
      <4>3. QED BY <4>2
    <3>7. CASE r # a
      BY <1>4, <3>4, <3>7
    <3>8. QED BY <3>6, <3>7
  <2>4. CASE Update
    <3>1. CASE r \in DOMAIN Head(answers) /\ eng[r].status \notin {"none", "finished"}
      <4>1. PICK a : a = Head(answers)[r]
        OBVIOUS
      <4>2. eng'[r] = Updated(eng[r], r, a)
        BY <2>4, <3>1, <4>1 DEF Update
      <4>3. a.sampled \in Nat /\ a.rejected \in Nat
        BY <2>4, <3>1, <4>1, UpdatedEngine
      <4>4. eng[r].tokens < PromptLen[r] + MaxTokens[r]
        BY <3>1 DEF RunnerInv, TokensKnown
      <4>5. PICK p : p = Updated(eng[r], r, a)
        OBVIOUS
      <4>6. \/ /\ p.status = eng[r].status /\ p.blocks = eng[r].blocks
               /\ p.computed \in Nat /\ p.computed <= eng[r].computed
            \/ p.status = "finished" /\ p.blocks = <<>>
        BY <1>4, <4>3, <4>4, <4>5, UpdatedBlocks
      <4>7. QED BY <4>2, <4>5, <4>6
    <3>2. CASE ~(r \in DOMAIN Head(answers) /\ eng[r].status \notin {"none", "finished"})
      <4>1. eng'[r] = eng[r]
        BY <2>4, <3>2 DEF Update
      <4>2. QED BY <1>4, <4>1
    <3>3. QED BY <3>1, <3>2
  <2>5. QED BY <2>1, <2>2, <2>3, <2>4
<1>6. EngineTables'
  BY <1>3, <1>5, EngineShrinks
<1>7. WorkerDraft'
  BY <1>1, <1>3, WorkerDraftSame
<1>8. QED BY <1>6, <1>7

--------------------------------------------------------------------------------
(* The draft's context: execute_model *)

\* What the worker's tables are now.
LEMMA HeldTables ==
    ASSUME RunnerInv, WorkerTables, NEW t, t = [r \in Requests |-> Held(r).blocks]
    PROVE  /\ DOMAIN t = Requests /\ TablesApart(t)
           /\ \A r \in Requests :
                /\ t[r] \in Seq(Blocks) /\ IsSeq(t[r]) /\ Range(t[r]) \subseteq Blocks
                /\ Held(r).computed <= Len(t[r]) * BlockSize
                /\ slot[r] # 0 => t[r] = st[slot[r]].blocks
<1>1. 0 \in 0 .. Len(outputs)
  BY StateTypes DEF RunnerInv
<1>2. \A r : View(0, r) = Held(r)
  BY DEF View
<1>3. TablesFit([r \in Requests |-> View(0, r).blocks], [r \in Requests |-> View(0, r).computed])
  BY <1>1 DEF WorkerTables
<1>4. PICK c : c = [r \in Requests |-> Held(r).computed]
  OBVIOUS
<1>5. TablesFit(t, c)
  BY <1>2, <1>3, <1>4
<1>6. \A r \in Requests : t[r] \in Seq(Blocks) /\ c[r] <= Len(t[r]) * BlockSize
  BY <1>5 DEF TablesFit
<1>7. \A r \in Requests : IsSeq(t[r]) /\ Range(t[r]) \subseteq Blocks
  BY <1>6, BlockTable
<1>8. \A r \in Requests : slot[r] # 0 => t[r] = st[slot[r]].blocks
  BY DEF Held
<1>9. QED BY <1>4, <1>5, <1>6, <1>7, <1>8 DEF TablesFit

\* Blocks that are added to a table leave the places of its positions alone.
LEMMA SlotsKept ==
    ASSUME NEW a, NEW b, IsSeq(a), IsSeq(b), NEW p \in Nat, p < Len(a) * BlockSize
    PROVE  SlotOf([blocks |-> a \o b], p) = SlotOf([blocks |-> a], p)
<1>1. PICK B, k : B = BlockSize /\ k = p \div B
  OBVIOUS
<1>2. B \in Nat /\ B > 0 /\ Len(a) \in Nat /\ Len(b) \in Nat
  BY <1>1, ConstantTypes, IsSeqFacts
<1>3. k \in Nat /\ B * k <= p
  BY <1>1, <1>2
<1>4. k < Len(a)
  <2>1. PICK n : n = Len(a)
    OBVIOUS
  <2>2. SUFFICES ASSUME k >= n PROVE FALSE
    BY <1>2, <1>3, <2>1
  <2>3. PICK d \in Nat : k = n + d
    BY <1>2, <1>3, <2>1, <2>2
  <2>4. B * k = B * n + B * d /\ B * d \in Nat
    BY <1>2, <2>1, <2>3
  <2>5. B * n = n * B /\ B * n \in Nat
    BY <1>2, <2>1
  <2>6. QED BY <1>1, <1>3, <2>1, <2>4, <2>5
<1>5. PICK A : A = Range(a) \cup Range(b)
  OBVIOUS
<1>6. a \in Seq(A) /\ b \in Seq(A)
  BY <1>5, IsSeqFacts
<1>7. Len(a \o b) = Len(a) + Len(b) /\ (a \o b)[k + 1] = a[k + 1]
  <2>1. k + 1 \in 1 .. Len(a) + Len(b) /\ k + 1 <= Len(a)
    BY <1>2, <1>3, <1>4
  <2>2. QED BY <1>6, <2>1, ConcatProperties
<1>8. k < Len(a) + Len(b)
  BY <1>2, <1>3, <1>4
<1>9. QED BY <1>1, <1>4, <1>7, <1>8 DEF SlotOf

LEMMA ExecutedContext ==
    ASSUME RunnerInv, WorkerDraft, cfg.spec > 0, Execute
    PROVE  DraftContextComplete'
<1> DEFINE o == Head(outputs)
<1>1. exec = <<>> /\ outputs # <<>> /\ draft_kv' = draft_kv /\ cfg' = cfg
  BY DEF Execute
<1>2. PICK t : t = [r \in Requests |-> Held(r).blocks]
  OBVIOUS
<1>3. ASSUME NEW r \in Requests, slot[r] # 0
      PROVE  /\ st[slot[r]].computed \in Nat /\ st[slot[r]].blocks = t[r] /\ IsSeq(t[r])
             /\ st[slot[r]].computed <= Len(t[r]) * BlockSize /\ Len(t[r]) * BlockSize \in Nat
             /\ slot[r] \in Slots
             /\ \A p \in 0 .. st[slot[r]].computed - 1 : \A z \in SlotOf([blocks |-> t[r]], p) :
                  draft_kv[z] = <<r, p>>
  <2>1. Held(r).computed = st[slot[r]].computed /\ st[slot[r]].computed \in Nat /\ slot[r] \in Slots
    BY <1>1, <1>3, HeldNow
  <2>2. t[r] = st[slot[r]].blocks /\ IsSeq(t[r]) /\ Held(r).computed <= Len(t[r]) * BlockSize
    BY <1>2, <1>3, HeldTables DEF WorkerDraft
  <2>3. Len(t[r]) * BlockSize \in Nat
    BY <2>2, IsSeqFacts, ConstantTypes
  <2>4. \A p \in 0 .. st[slot[r]].computed - 1 :
          \A z \in SlotOf([blocks |-> st[slot[r]].blocks], p) : draft_kv[z] = <<r, p>>
    BY <1>3 DEF WorkerDraft, DraftContextComplete
  <2>5. QED BY <2>1, <2>2, <2>3, <2>4
<1>4. SUFFICES ASSUME NEW r \in Requests, slot'[r] # 0, NEW p \in 0 .. st'[slot'[r]].computed - 1,
                      NEW z \in SlotOf([blocks |-> st'[slot'[r]].blocks], p)
               PROVE  draft_kv[z] = <<r, p>>
  BY <1>1 DEF DraftContextComplete, SlotOf
<1>5. CASE r \in o.new
  <2>1. slot'[r] \in Slots /\ st'[slot'[r]] = WithRequest(st[slot'[r]], o, r)
    BY <1>5, ExecutedSlots, ExecutedStates
  <2>2. StateOK(st[slot'[r]]) /\ o.tokens[r] \in Nat
    BY <1>1, <1>5, <2>1, OutputFacts DEF RunnerInv, TypeOK
  <2>3. st'[slot'[r]].computed = 0
    BY <2>1, <2>2, SlotWithRequest
  <2>4. QED BY <1>4, <2>3
<1>6. CASE r \in Scheduled(o) \ o.new
  <2>1. slot'[r] = slot[r] /\ st'[slot[r]] = WithBlocks(st[slot[r]], o, r)
    BY <1>6, ExecutedStates
  <2>2. slot[r] # 0
    BY <1>4, <2>1
  <2>3. StateOK(st[slot[r]]) /\ IsSeq(o.blocks[r])
    <3>1. IsSeq(o.blocks[r])
      BY <1>1, <1>6, OutputFacts DEF OutputOK
    <3>2. QED BY <1>3, <2>2, <3>1 DEF RunnerInv, TypeOK
  <2>4. st'[slot[r]].computed = st[slot[r]].computed /\ st'[slot[r]].blocks = t[r] \o o.blocks[r]
    BY <1>3, <2>1, <2>2, <2>3 DEF StateOK, WithBlocks
  <2>5. p \in 0 .. st[slot[r]].computed - 1 /\ z \in SlotOf([blocks |-> t[r] \o o.blocks[r]], p)
    BY <1>4, <2>1, <2>4
  <2>6. p \in Nat /\ p < Len(t[r]) * BlockSize
    <3>1. PICK c, m : c = st[slot[r]].computed /\ m = Len(t[r]) * BlockSize
      OBVIOUS
    <3>2. c \in Nat /\ m \in Nat /\ c <= m /\ p \in 0 .. c - 1
      BY <1>3, <2>2, <2>5, <3>1
    <3>3. p \in Nat /\ p < m
      BY <3>2
    <3>4. QED BY <3>1, <3>3
  <2>7. z \in SlotOf([blocks |-> t[r]], p)
    BY <1>3, <2>2, <2>3, <2>5, <2>6, SlotsKept
  <2>8. QED BY <1>3, <2>2, <2>5, <2>7
<1>7. CASE r \notin Scheduled(o)
  <2>1. slot'[r] = slot[r] /\ st'[slot'[r]] = st[slot[r]]
    BY <1>4, <1>7, ExecutedStates
  <2>2. QED BY <1>3, <1>4, <2>1
<1>8. QED BY <1>5, <1>6, <1>7, OutputFacts, <1>1

LEMMA ExecuteDraft ==
    ASSUME RunnerInv, DraftInv, Execute
    PROVE  DraftInv'
<1>1. UNCHANGED <<cfg, eng, draft_kv>>
  BY DEF Execute, engineVars
<1>2. SUFFICES ASSUME cfg.spec > 0 PROVE EngineTables' /\ WorkerDraft'
  BY <1>1, DraftParts DEF DraftInv, WorkerDraft
<1>3. EngineTables /\ WorkerDraft
  BY <1>2, DraftParts
<1>4. EngineTables'
  BY <1>1, <1>3 DEF EngineTables
<1>5. WorkerTables'
  <2>1. ASSUME NEW k \in 0 .. Len(outputs')
        PROVE  TablesFit([r \in Requests |-> View(k, r)'.blocks],
                         [r \in Requests |-> View(k, r)'.computed])
    <3>1. \A r \in Requests : View(k, r)' = View(k + 1, r)
      BY ExecutedViews
    <3>2. k + 1 \in 0 .. Len(outputs)
      BY ExecutedViews, StateTypes DEF RunnerInv
    <3>3. TablesFit([r \in Requests |-> View(k + 1, r).blocks],
                    [r \in Requests |-> View(k + 1, r).computed])
      BY <1>3, <3>2 DEF WorkerDraft, WorkerTables
    <3>4. QED BY <3>1, <3>3
  <2>2. QED BY <2>1 DEF WorkerTables
<1>6. RowTables'
  <2>1. ASSUME NEW n \in DOMAIN exec' PROVE exec'[n].blocks = st'[exec'[n].slot].blocks
    BY ExecutedRows
  <2>2. QED BY <2>1 DEF RowTables
<1>7. DraftContextComplete'
  BY <1>2, <1>3, ExecutedContext
<1>8. QED BY <1>1, <1>3, <1>4, <1>5, <1>6, <1>7 DEF WorkerDraft

--------------------------------------------------------------------------------
(* The draft's context: sample_tokens *)

\* What a step stores at the place of a position of a request: the position's token, if
\* it is part of the request's row; what was there, if the row begins behind it or the
\* request has none.  The query tokens are behind what is valid, and other requests'
\* positions are elsewhere.
LEMMA StoredAt ==
    ASSUME RunnerInv, WorkerDraft, NEW r \in Requests, slot[r] # 0, NEW p \in Nat,
           NEW z \in SlotOf([blocks |-> st[slot[r]].blocks], p)
    PROVE  /\ \A n \in DOMAIN exec : exec[n].r = r /\ p < ValidEnd(exec[n]) =>
                Stored(exec)[z] = IF exec[n].start <= p THEN <<r, p>> ELSE draft_kv[z]
           /\ (\A n \in DOMAIN exec : exec[n].r # r) => Stored(exec)[z] = draft_kv[z]
<1>1. PICK t, x : t = [s \in Requests |-> Held(s).blocks] /\ x = [blocks |-> st[slot[r]].blocks]
  OBVIOUS
<1>2. /\ DOMAIN t = Requests /\ TablesApart(t)
      /\ \A s \in Requests : IsSeq(t[s]) /\ Range(t[s]) \subseteq Blocks
      /\ \A s \in Requests : slot[s] # 0 => t[s] = st[slot[s]].blocks
  BY <1>1, HeldTables DEF WorkerDraft
<1>3. x.blocks = t[r] /\ z \in SlotOf(x, p)
  BY <1>1, <1>2
<1>4. ASSUME NEW n \in DOMAIN exec
      PROVE  /\ exec[n].r \in Requests /\ exec[n].blocks = t[exec[n].r]
             /\ exec[n].start \in Nat /\ ValidEnd(exec[n]) \in Nat
  <2>1. /\ exec[n].r \in Requests /\ exec[n].slot = slot[exec[n].r] /\ exec[n].slot \in Slots
        /\ exec[n].start \in Nat /\ ValidEnd(exec[n]) \in Nat
    BY RowFacts
  <2>2. exec[n].blocks = st[exec[n].slot].blocks
    BY DEF WorkerDraft, RowTables
  <2>3. slot[exec[n].r] # 0
    BY <2>1, ConstantTypes DEF Slots
  <2>4. QED BY <1>2, <2>1, <2>2, <2>3
<1>5. ASSUME NEW n \in DOMAIN exec, NEW q \in Nat, z \in SlotOf(exec[n], q)
      PROVE  exec[n].r = r /\ q = p
  <2>1. PICK s, y : s = exec[n].r /\ y = exec[n]
    OBVIOUS
  <2>2. s \in Requests /\ y.blocks = t[s] /\ z \in SlotOf(y, q)
    BY <1>4, <1>5, <2>1
  <2>3. r = s /\ p = q
    BY <1>2, <1>3, <2>2, SlotsApart
  <2>4. QED BY <2>1, <2>3
<1>6. z \in Blocks \X (0 .. BlockSize - 1)
  BY <1>2, <1>3, SlotsApart
<1>7. ASSUME NEW n \in DOMAIN exec, z \in QuerySlots(exec[n])
      PROVE  exec[n].r = r /\ ValidEnd(exec[n]) <= p
  <2>1. PICK j \in 0 .. cfg.spec - 1 : z \in SlotOf(exec[n], ValidEnd(exec[n]) + j)
    BY <1>7 DEF QuerySlots
  <2>2. cfg.spec \in Nat /\ ValidEnd(exec[n]) \in Nat
    BY <1>4, CfgTypes DEF RunnerInv
  <2>3. ValidEnd(exec[n]) + j \in Nat /\ ValidEnd(exec[n]) <= ValidEnd(exec[n]) + j
    BY <2>2
  <2>4. exec[n].r = r /\ ValidEnd(exec[n]) + j = p
    BY <1>5, <2>1, <2>3
  <2>5. QED BY <2>3, <2>4
<1>8. ASSUME NEW n \in DOMAIN exec, NEW q \in exec[n].start .. ContextEnd(exec[n]) - 1,
             z \in SlotOf(exec[n], q)
      PROVE  exec[n].r = r /\ q = p
  <2>1. q \in Nat
    BY <1>4 DEF ContextEnd
  <2>2. QED BY <1>5, <1>8, <2>1
<1>9. ASSUME NEW n \in DOMAIN exec, exec[n].r = r
      PROVE  z \in SlotOf(exec[n], p)
  <2>1. PICK y : y = exec[n]
    OBVIOUS
  <2>2. y.blocks = t[r] /\ r \in Requests
    BY <1>4, <1>9, <2>1
  <2>3. SlotOf(y, p) = SlotOf(x, p)
    BY <1>2, <1>3, <2>2, SlotsApart
  <2>4. QED BY <1>3, <2>1, <2>3
<1> DEFINE InQuery == \E n \in DOMAIN exec : z \in QuerySlots(exec[n])
           InContext(n) == \E q \in exec[n].start .. ContextEnd(exec[n]) - 1 : z \in SlotOf(exec[n], q)
<1>10. Stored(exec)[z] =
         IF InQuery THEN NoToken
         ELSE IF \E n \in DOMAIN exec : InContext(n)
         THEN LET n == CHOOSE n \in DOMAIN exec : InContext(n)
                  q == CHOOSE q \in exec[n].start .. ContextEnd(exec[n]) - 1 : z \in SlotOf(exec[n], q)
              IN  IF q < ValidEnd(exec[n]) THEN <<exec[n].r, q>> ELSE NoToken
         ELSE draft_kv[z]
  BY <1>6 DEF Stored
<1>11. ASSUME NEW n \in DOMAIN exec, exec[n].r = r, p < ValidEnd(exec[n])
       PROVE  Stored(exec)[z] = IF exec[n].start <= p THEN <<r, p>> ELSE draft_kv[z]
  <2>1. \A m \in DOMAIN exec : exec[m].r = r => m = n
    BY <1>11, RowsDistinct
  <2>2. ~InQuery
    <3>1. ASSUME NEW m \in DOMAIN exec, z \in QuerySlots(exec[m]) PROVE FALSE
      <4>1. exec[m].r = r /\ ValidEnd(exec[m]) <= p
        BY <1>7, <3>1
      <4>2. m = n
        BY <2>1, <4>1
      <4>3. QED BY <1>4, <1>11, <4>1, <4>2
    <3>2. QED BY <3>1
  <2>3. CASE exec[n].start <= p
    <3>1. p \in exec[n].start .. ContextEnd(exec[n]) - 1
      BY <1>4, <1>11, <2>3 DEF ContextEnd
    <3>2. InContext(n)
      BY <1>9, <1>11, <3>1
    <3>3. PICK m : m = CHOOSE k \in DOMAIN exec : InContext(k)
      OBVIOUS
    <3>4. m \in DOMAIN exec /\ InContext(m)
      <4> HIDE DEF InContext
      <4>1. QED BY <3>2, <3>3
    <3>5. m = n
      BY <1>8, <2>1, <3>4
    <3>6. PICK q : q = CHOOSE k \in exec[n].start .. ContextEnd(exec[n]) - 1 : z \in SlotOf(exec[n], k)
      OBVIOUS
    <3>7. q \in exec[n].start .. ContextEnd(exec[n]) - 1 /\ z \in SlotOf(exec[n], q)
      BY <3>2, <3>6
    <3>8. q = p
      BY <1>8, <3>7
    <3>9. Stored(exec)[z] = <<exec[n].r, p>>
      <4> HIDE DEF InQuery, InContext
      <4>1. QED BY <1>10, <1>11, <2>2, <3>2, <3>3, <3>5, <3>6, <3>8
    <3>10. QED BY <1>11, <2>3, <3>9
  <2>4. CASE ~(exec[n].start <= p)
    <3>1. ASSUME NEW m \in DOMAIN exec, InContext(m) PROVE FALSE
      <4>1. PICK q \in exec[m].start .. ContextEnd(exec[m]) - 1 : z \in SlotOf(exec[m], q)
        BY <3>1
      <4>2. exec[m].r = r /\ q = p
        BY <1>8, <4>1
      <4>3. m = n
        BY <2>1, <4>2
      <4>4. QED BY <1>4, <2>4, <4>1, <4>2, <4>3 DEF ContextEnd
    <3> HIDE DEF InQuery, InContext
    <3>2. QED BY <1>10, <2>2, <2>4, <3>1
  <2>5. QED BY <2>3, <2>4
<1>12. ASSUME \A n \in DOMAIN exec : exec[n].r # r PROVE Stored(exec)[z] = draft_kv[z]
  <2>1. ~InQuery
    BY <1>7, <1>12
  <2>2. \A n \in DOMAIN exec : ~InContext(n)
    BY <1>8, <1>12
  <2> HIDE DEF InQuery, InContext
  <2>3. QED BY <1>10, <2>1, <2>2
<1>13. QED BY <1>11, <1>12

LEMMA SampledContext ==
    ASSUME RunnerInv, WorkerDraft, cfg.spec > 0, SampleTokens
    PROVE  DraftContextComplete'
<1>1. cfg' = cfg /\ slot' = slot /\ draft_kv' = Stored(exec)
  BY CfgTypes DEF SampleTokens, RunnerInv
<1>2. ASSUME NEW r \in Requests, slot[r] # 0
      PROVE  /\ st'[slot[r]].blocks = st[slot[r]].blocks /\ st[slot[r]].computed \in Nat
             /\ \A p \in 0 .. st[slot[r]].computed - 1 :
                \A z \in SlotOf([blocks |-> st[slot[r]].blocks], p) : draft_kv[z] = <<r, p>>
             /\ \A n \in DOMAIN exec : exec[n].r = r =>
                  /\ st'[slot[r]].computed = ValidEnd(exec[n]) /\ exec[n].start = st[slot[r]].computed
                  /\ ValidEnd(exec[n]) \in Nat
             /\ (\A n \in DOMAIN exec : exec[n].r # r) => st'[slot[r]] = st[slot[r]]
  <2>1. slot[r] \in Slots
    BY <1>2, StateTypes, ConstantTypes DEF RunnerInv, Slots
  <2>2. st[slot[r]].computed \in Nat
    BY <2>1, SlotFields DEF RunnerInv, TypeOK
  <2>3. \A p \in 0 .. st[slot[r]].computed - 1 :
          \A z \in SlotOf([blocks |-> st[slot[r]].blocks], p) : draft_kv[z] = <<r, p>>
    BY <1>2 DEF WorkerDraft, DraftContextComplete
  <2>4. ASSUME NEW n \in DOMAIN exec, exec[n].r = r
        PROVE  /\ st'[slot[r]].computed = ValidEnd(exec[n]) /\ exec[n].start = st[slot[r]].computed
               /\ ValidEnd(exec[n]) \in Nat /\ st'[slot[r]].blocks = st[slot[r]].blocks
    BY <2>4, RowFacts, SampledSlots
  <2>5. ASSUME \A n \in DOMAIN exec : exec[n].r # r PROVE st'[slot[r]] = st[slot[r]]
    <3>1. ASSUME NEW n \in DOMAIN exec, exec[n].slot = slot[r] PROVE FALSE
      <4>1. exec[n].r \in Requests /\ slot[exec[n].r] = slot[r]
        BY <3>1, RowFacts
      <4>2. exec[n].r = r
        BY <1>2, <4>1 DEF RunnerInv, Pipeline
      <4>3. QED BY <2>5, <4>2
    <3>2. QED BY <2>1, <3>1, SampledSlots
  <2>6. QED BY <2>2, <2>3, <2>4, <2>5
<1>3. SUFFICES ASSUME NEW r \in Requests, slot[r] # 0, NEW p \in 0 .. st'[slot[r]].computed - 1,
                      NEW z \in SlotOf([blocks |-> st'[slot[r]].blocks], p)
               PROVE  Stored(exec)[z] = <<r, p>>
  BY <1>1 DEF DraftContextComplete, SlotOf
<1>4. z \in SlotOf([blocks |-> st[slot[r]].blocks], p)
  BY <1>2, <1>3
<1>5. CASE \E n \in DOMAIN exec : exec[n].r = r
  <2>1. PICK n \in DOMAIN exec : exec[n].r = r
    BY <1>5
  <2>2. /\ st'[slot[r]].computed = ValidEnd(exec[n]) /\ exec[n].start = st[slot[r]].computed
        /\ ValidEnd(exec[n]) \in Nat /\ st[slot[r]].computed \in Nat
    BY <1>2, <1>3, <2>1
  <2>3. p \in Nat /\ p < ValidEnd(exec[n])
    BY <1>3, <2>2
  <2>4. Stored(exec)[z] = IF exec[n].start <= p THEN <<r, p>> ELSE draft_kv[z]
    BY <1>3, <1>4, <2>1, <2>3, StoredAt
  <2>5. CASE ~(exec[n].start <= p)
    <3>1. p \in 0 .. st[slot[r]].computed - 1
      BY <2>2, <2>3, <2>5
    <3>2. QED BY <1>2, <1>3, <1>4, <2>4, <2>5, <3>1
  <2>6. QED BY <2>4, <2>5
<1>6. CASE \A n \in DOMAIN exec : exec[n].r # r
  <2>1. p \in 0 .. st[slot[r]].computed - 1 /\ p \in Nat
    <3>1. st'[slot[r]] = st[slot[r]] /\ st[slot[r]].computed \in Nat
      BY <1>2, <1>3, <1>6
    <3>2. p \in 0 .. st[slot[r]].computed - 1
      BY <1>3, <3>1
    <3>3. QED BY <3>1, <3>2
  <2>2. Stored(exec)[z] = draft_kv[z]
    BY <1>3, <1>4, <1>6, <2>1, StoredAt
  <2>3. QED BY <1>2, <1>3, <1>4, <2>1, <2>2
<1>7. QED BY <1>5, <1>6

LEMMA SampleTokensDraft ==
    ASSUME RunnerInv, DraftInv, SampleTokens
    PROVE  DraftInv'
<1>1. UNCHANGED <<cfg, eng, slot, outputs>> /\ exec # <<>> /\ exec' = <<>>
  BY DEF SampleTokens, engineVars
<1>2. SUFFICES ASSUME cfg.spec > 0 PROVE EngineTables' /\ WorkerDraft'
  BY <1>1, DraftParts DEF DraftInv, WorkerDraft
<1>3. EngineTables /\ WorkerDraft
  BY <1>2, DraftParts
<1>4. EngineTables'
  BY <1>1, <1>3 DEF EngineTables
<1>5. outputs = <<>> /\ Len(outputs) = 0
  <2>1. ~cfg.async
    BY <1>2, CfgTypes DEF RunnerInv
  <2>2. QED BY <1>1, <2>1, PipelineFacts, StateTypes DEF RunnerInv
<1>6. WorkerTables'
  <2>1. PICK t, c : /\ t = [r \in Requests |-> Held(r).blocks]
                    /\ c = [r \in Requests |-> Held(r).computed]
    OBVIOUS
  <2>2. PICK u, d : /\ u = [r \in Requests |-> Held(r)'.blocks]
                    /\ d = [r \in Requests |-> Held(r)'.computed]
    OBVIOUS
  <2>3. \A r : View(0, r) = Held(r) /\ View(0, r)' = Held(r)'
    BY DEF View
  <2>4. TablesFit(t, c)
    <3>1. TablesFit([r \in Requests |-> View(0, r).blocks], [r \in Requests |-> View(0, r).computed])
      BY <1>3, <1>5 DEF WorkerDraft, WorkerTables
    <3>2. QED BY <2>1, <2>3, <3>1
  <2>5. ASSUME NEW r \in Requests
        PROVE  u[r] = t[r] /\ c[r] \in Nat /\ d[r] \in Nat /\ d[r] <= c[r]
    <3>1. Held(r).computed \in Nat
      BY <1>5, <2>3 DEF RunnerInv, EngineAgrees
    <3>2. Held(r)'.blocks = Held(r).blocks
      BY SampledHeld
    <3>3. Held(r)'.computed \in Nat /\ Held(r)'.computed <= Held(r).computed
      <4>1. CASE \E n \in DOMAIN exec : exec[n].r = r
        <5>1. PICK n \in DOMAIN exec : exec[n].r = r
          BY <4>1
        <5>2. /\ Held(r).computed = exec[n].start + exec[n].num
              /\ Held(r)'.computed = exec[n].start + exec[n].num - Rejected(exec[n])
          BY <5>1, SampledHeld
        <5>3. /\ exec[n].start \in Nat /\ exec[n].num \in Nat /\ Rejected(exec[n]) \in Nat
              /\ ValidEnd(exec[n]) = exec[n].start + exec[n].num - Rejected(exec[n])
              /\ ValidEnd(exec[n]) \in Nat
          BY RowFacts
        <5>4. QED BY <5>2, <5>3
      <4>2. CASE \A n \in DOMAIN exec : exec[n].r # r
        <5>1. Held(r)' = Held(r)
          BY <4>2, SampledHeld
        <5>2. QED BY <3>1, <5>1
      <4>3. QED BY <4>1, <4>2
    <3>4. QED BY <2>1, <2>2, <3>1, <3>2, <3>3
  <2>6. TablesFit(u, d)
    BY <2>1, <2>2, <2>4, <2>5, FitShrinks
  <2>7. TablesFit([r \in Requests |-> View(0, r)'.blocks], [r \in Requests |-> View(0, r)'.computed])
    BY <2>2, <2>3, <2>6
  <2>8. \A k \in 0 .. Len(outputs') : k = 0
    BY <1>1, <1>5
  <2>9. QED BY <2>7, <2>8 DEF WorkerTables
<1>7. RowTables'
  BY <1>1 DEF RowTables
<1>8. DOMAIN draft_kv' = Blocks \X (0 .. BlockSize - 1)
  <2>1. draft_kv' = Stored(exec)
    BY <1>2, CfgTypes DEF SampleTokens, RunnerInv
  <2>2. QED BY <2>1 DEF Stored
<1>9. DraftContextComplete'
  BY <1>2, <1>3, SampledContext
<1>10. QED BY <1>4, <1>6, <1>7, <1>8, <1>9 DEF WorkerDraft

--------------------------------------------------------------------------------
(* The draft's context: schedule *)

LEMMA ScheduledTables ==
    ASSUME RunnerInv, EngineTables, NEW o, Appends(o), BlocksTaken(o)
    PROVE  EngineTables'
<1>1. PICK t, u, w : /\ t = [r \in Requests |-> eng[r].blocks]
                     /\ u = [r \in Requests |-> IF r \in Scheduled(o) THEN o.blocks[r] ELSE <<>>]
                     /\ w = [r \in Requests |-> eng'[r].blocks]
  OBVIOUS
<1>2. PICK c, d : /\ c = [r \in Requests |-> IF eng[r].status = "running" THEN eng[r].computed ELSE 0]
                  /\ d = [r \in Requests |-> IF eng'[r].status = "running" THEN eng'[r].computed ELSE 0]
  OBVIOUS
<1>3. TablesFit(t, c) /\ \A r \in Requests : eng[r].status # "running" => eng[r].blocks = <<>>
  BY <1>1, <1>2 DEF EngineTables
<1>4. /\ TablesApart(t)
      /\ \A r \in Requests : /\ t[r] \in Seq(Blocks) /\ IsSeq(t[r]) /\ Range(t[r]) \subseteq Blocks
                             /\ c[r] <= Len(t[r]) * BlockSize
  BY <1>1, <1>3, BlockTable DEF TablesFit
<1>5. o.num \in [Requests -> Nat] /\ \A r \in Scheduled(o) : IsSeq(o.blocks[r])
  BY DEF Appends
<1>6. /\ \A r \in Scheduled(o) : o.blocks[r] \in [1 .. Missing(r, o.num[r]) -> Free]
      /\ \A r, s \in Scheduled(o) :
         \A i \in 1 .. Missing(r, o.num[r]), j \in 1 .. Missing(s, o.num[s]) :
            o.blocks[r][i] = o.blocks[s][j] => r = s /\ i = j
  <2>1. o.blocks = NewBlocks(o.num) /\ TotalMissing(o.num) <= Cardinality(Free) /\ TypeOK
    BY DEF BlocksTaken, RunnerInv
  <2>2. QED BY <1>5, <2>1, NewBlocksApart DEF Scheduled
<1>7. ASSUME NEW r \in Requests
      PROVE  /\ r \in o.preempted => eng'[r].status = "preempted" /\ w[r] = <<>>
             /\ r \in Scheduled(o) =>
                  /\ r \notin o.preempted /\ eng'[r].status = "running"
                  /\ eng'[r].computed = eng[r].computed + o.num[r] /\ w[r] = t[r] \o o.blocks[r]
             /\ r \notin Scheduled(o) /\ r \notin o.preempted => eng'[r] = eng[r] /\ w[r] = t[r]
             /\ IsSeq(w[r])
  <2>1. r \in Scheduled(o) => o.table[r] = t[r] \o o.blocks[r]
    BY <1>1 DEF Appends
  <2>2. PICK p : p = eng'[r]
    OBVIOUS
  <2>3. /\ RequestOK(p)
        /\ r \in o.preempted => p.status = "preempted" /\ p.blocks = <<>>
        /\ r \in Scheduled(o) => /\ r \notin o.preempted /\ p.status = "running"
                                 /\ p.computed = eng[r].computed + o.num[r] /\ p.blocks = o.table[r]
        /\ r \notin Scheduled(o) /\ r \notin o.preempted => p = eng[r]
    BY <2>2, AppendedEngine
  <2>4. IsSeq(p.blocks)
    BY <2>3 DEF RequestOK
  <2>5. QED BY <1>1, <2>1, <2>2, <2>3, <2>4
<1>8. ASSUME NEW r \in Requests PROVE IsSeq(u[r]) /\ \A i \in DOMAIN u[r] : u[r][i] \in Free
  <2>1. CASE r \in Scheduled(o)
    <3>1. u[r] = o.blocks[r]
      BY <1>1, <2>1
    <3>2. IsSeq(o.blocks[r]) /\ o.blocks[r] \in [1 .. Missing(r, o.num[r]) -> Free]
      BY <1>5, <1>6, <2>1
    <3>3. QED BY <3>1, <3>2
  <2>2. CASE r \notin Scheduled(o)
    BY <1>1, <2>2, EmptyIsSeq
  <2>3. QED BY <2>1, <2>2
<1>9. Free \subseteq Blocks /\ \A s \in Requests : \A j \in DOMAIN t[s] : t[s][j] \notin Free
  BY <1>1 DEF Free, Range
<1>10. TablesApart(u)
  <2>1. ASSUME NEW r \in Requests, NEW s \in Requests, NEW i \in DOMAIN u[r], NEW j \in DOMAIN u[s],
               u[r][i] = u[s][j]
        PROVE  r = s /\ i = j
    <3>1. r \in Scheduled(o) /\ s \in Scheduled(o)
      BY <1>1
    <3>2. i \in 1 .. Missing(r, o.num[r]) /\ j \in 1 .. Missing(s, o.num[s])
      BY <1>1, <1>6, <3>1
    <3>3. o.blocks[r][i] = o.blocks[s][j]
      BY <1>1, <2>1, <3>1
    <3>4. QED BY <1>6, <3>1, <3>2, <3>3
  <2>2. QED BY <1>1, <2>1 DEF TablesApart
<1>11. \A r \in Requests : w[r] = <<>> \/ w[r] = t[r] \/ w[r] = t[r] \o u[r]
  BY <1>1, <1>7
<1>12. TablesApart(w) /\ \A r \in Requests : Range(w[r]) \subseteq Blocks
  <2>1. DOMAIN t = Requests /\ DOMAIN u = Requests /\ DOMAIN w = Requests
    BY <1>1
  <2>2. \A r \in Requests : IsSeq(t[r]) /\ IsSeq(u[r]) /\ Range(t[r]) \subseteq Blocks
    BY <1>4, <1>8
  <2>3. \A r \in Requests : \A i \in DOMAIN u[r] : u[r][i] \in Blocks
    BY <1>8, <1>9
  <2>4. \A r, s \in Requests : \A i \in DOMAIN u[r], j \in DOMAIN t[s] : u[r][i] # t[s][j]
    BY <1>8, <1>9
  <2>5. TablesApart(t) /\ TablesApart(u)
    BY <1>4, <1>10
  <2>6. QED BY ONLY <1>11, <2>1, <2>2, <2>3, <2>4, <2>5, TablesGrow
<1>13. ASSUME NEW r \in Requests PROVE w[r] \in Seq(Blocks) /\ d[r] <= Len(w[r]) * BlockSize
  <2>1. w[r] \in Seq(Blocks)
    BY <1>7, <1>12, BlockTable
  <2>2. CASE r \in o.preempted
    <3>1. eng'[r].status = "preempted" /\ w[r] = <<>>
      BY <1>7, <2>2
    <3>2. d[r] = 0 /\ Len(w[r]) = 0
      BY <1>2, <3>1
    <3>3. QED BY <2>1, <3>2, ConstantTypes
  <2>3. CASE r \in Scheduled(o)
    <3>1. /\ o.num[r] \in Nat /\ TypeOK
      BY <1>5 DEF RunnerInv
    <3>2. /\ Missing(r, o.num[r]) \in Nat
          /\ eng[r].computed + o.num[r] <= (Len(t[r]) + Missing(r, o.num[r])) * BlockSize
      BY <1>1, <3>1, MissingFacts
    <3>3. Len(o.blocks[r]) = Missing(r, o.num[r])
      <4>1. DOMAIN o.blocks[r] = 1 .. Missing(r, o.num[r]) /\ IsSeq(o.blocks[r])
        BY <1>5, <1>6, <2>3
      <4>2. DOMAIN o.blocks[r] = 1 .. Len(o.blocks[r]) /\ Len(o.blocks[r]) \in Nat
        BY <4>1, IsSeqFacts
      <4>3. QED BY <3>2, <4>1, <4>2
    <3>4. Len(w[r]) = Len(t[r]) + Len(o.blocks[r])
      <4>1. PICK A : A = Range(t[r]) \cup Range(o.blocks[r])
        OBVIOUS
      <4>2. t[r] \in Seq(A) /\ o.blocks[r] \in Seq(A)
        BY <1>4, <1>5, <2>3, <4>1, IsSeqFacts
      <4>3. w[r] = t[r] \o o.blocks[r]
        BY <1>7, <2>3
      <4>4. QED BY <4>2, <4>3, ConcatProperties
    <3>5. d[r] = eng[r].computed + o.num[r]
      BY <1>2, <1>7, <2>3
    <3>6. QED BY <2>1, <3>2, <3>3, <3>4, <3>5
  <2>4. CASE r \notin Scheduled(o) /\ r \notin o.preempted
    <3>1. d[r] = c[r] /\ w[r] = t[r]
      BY <1>2, <1>7, <2>4
    <3>2. QED BY <1>4, <2>1, <3>1
  <2>5. QED BY <2>2, <2>3, <2>4
<1>14. TablesFit(w, d)
  BY <1>1, <1>12, <1>13 DEF TablesFit
<1>15. \A r \in Requests : eng'[r].status # "running" => eng'[r].blocks = <<>>
  BY <1>1, <1>3, <1>7
<1>16. QED BY <1>1, <1>2, <1>14, <1>15 DEF EngineTables

\* A request the worker will not have is absent.
LEMMA AbsentView ==
    ASSUME RunnerInv, NEW r \in Requests, ~View(Len(outputs), r).has
    PROVE  View(Len(outputs), r) = Absent
<1>1. Len(outputs) \in {0, 1, 2}
  BY PipelineFacts, StateTypes DEF RunnerInv
<1>2. ~Held(r).has => Held(r) = Absent
  BY DEF Held
<1>3. ASSUME NEW v, ~v.has => v = Absent, NEW o, ~AfterOutput(v, o, r).has
      PROVE  AfterOutput(v, o, r) = Absent
  BY <1>3 DEF AfterOutput
<1>4. PICK v : v = AfterOutput(Held(r), outputs[1], r)
  OBVIOUS
<1>5. ~v.has => v = Absent
  BY <1>2, <1>3, <1>4
<1>6. CASE Len(outputs) = 0
  BY <1>2, <1>6 DEF View
<1>7. CASE Len(outputs) = 1
  <2>1. View(1, r) = v
    BY <1>4 DEF View
  <2>2. QED BY <1>5, <1>7, <2>1
<1>8. CASE Len(outputs) = 2
  <2>1. View(2, r) = AfterOutput(v, outputs[2], r)
    BY <1>4 DEF View
  <2>2. QED BY <1>3, <1>5, <1>8, <2>1
<1>9. QED BY <1>1, <1>6, <1>7, <1>8

LEMMA ScheduledWorkerTables ==
    ASSUME RunnerInv, WorkerTables, EngineTables', Schedule, NEW o, Appends(o)
    PROVE  WorkerTables'
<1>1. Len(outputs) \in Nat /\ Len(outputs') = Len(outputs) + 1
  BY AppendedOutputs, StateTypes DEF RunnerInv
<1>2. ASSUME NEW k \in 0 .. Len(outputs)
      PROVE  TablesFit([r \in Requests |-> View(k, r)'.blocks],
                       [r \in Requests |-> View(k, r)'.computed])
  <2>1. \A r \in Requests : View(k, r)' = View(k, r)
    BY AppendedViews
  <2>2. TablesFit([r \in Requests |-> View(k, r).blocks], [r \in Requests |-> View(k, r).computed])
    BY DEF WorkerTables
  <2>3. QED BY <2>1, <2>2
<1>3. ASSUME NEW k, k = Len(outputs) + 1
      PROVE  TablesFit([r \in Requests |-> View(k, r)'.blocks],
                       [r \in Requests |-> View(k, r)'.computed])
  <2>1. PICK t, c : /\ t = [r \in Requests |-> eng'[r].blocks]
                    /\ c = [r \in Requests |-> IF eng'[r].status = "running" THEN eng'[r].computed ELSE 0]
    OBVIOUS
  <2>2. TablesFit(t, c) /\ \A r \in Requests : eng'[r].status # "running" => eng'[r].blocks = <<>>
    BY <2>1 DEF EngineTables
  <2>3. PICK u, d : /\ u = [r \in Requests |-> View(k, r)'.blocks]
                    /\ d = [r \in Requests |-> View(k, r)'.computed]
    OBVIOUS
  <2>4. ASSUME NEW r \in Requests
        PROVE  \/ u[r] = t[r] /\ c[r] \in Nat /\ d[r] \in Nat /\ d[r] <= c[r]
               \/ u[r] = <<>> /\ d[r] = 0
    <3>1. PICK v, w : v = View(Len(outputs), r) /\ w = AfterOutput(v, o, r)
      OBVIOUS
    <3>2. View(k, r)' = w
      BY <1>3, <3>1, AppendedViews
    <3>3. /\ w.computed \in Nat
          /\ eng'[r].status = "running" => w.blocks = eng'[r].blocks /\ w.computed = eng'[r].computed
          /\ eng'[r].status \in {"none", "preempted"} => ~w.has
          /\ r \in told' => ~w.has
      BY <3>1, AppendedRequest
    <3>4. CASE eng'[r].status = "running"
      BY <2>1, <2>3, <3>2, <3>3, <3>4
    <3>5. CASE eng'[r].status # "running"
      <4>1. ~w.has
        <5>1. /\ RequestOK(eng'[r])
              /\ r \in o.preempted => eng'[r].status = "preempted"
              /\ r \in Scheduled(o) => eng'[r].status = "running"
              /\ r \notin Scheduled(o) /\ r \notin o.preempted => eng'[r] = eng[r]
          BY AppendedEngine
        <5>2. eng'[r].status \in {"none", "running", "preempted", "finished"}
          BY <5>1 DEF RequestOK
        <5>3. eng[r].status = "finished" => r \in told'
          BY DEF Appends
        <5>4. QED BY <3>3, <3>5, <5>1, <5>2, <5>3
      <4>2. ~v.has => v = Absent
        BY <3>1, AbsentView
      <4>3. w = Absent
        BY <3>1, <4>1, <4>2 DEF AfterOutput
      <4>4. QED BY <2>3, <3>2, <4>3 DEF Absent
    <3>6. QED BY <3>4, <3>5
  <2>5. TablesFit(u, d)
    BY <2>1, <2>2, <2>3, <2>4, FitShrinks
  <2>6. QED BY <2>3, <2>5
<1>4. \A k \in 0 .. Len(outputs') : k \in 0 .. Len(outputs) \/ k = Len(outputs) + 1
  BY <1>1
<1>5. QED BY <1>2, <1>3, <1>4 DEF WorkerTables

LEMMA ScheduleDraft ==
    ASSUME RunnerInv, DraftInv, Schedule
    PROVE  DraftInv'
<1>1. UNCHANGED <<cfg, slot, st, exec, draft_kv>>
  BY DEF Schedule, workerVars
<1>2. SUFFICES ASSUME cfg.spec > 0 PROVE EngineTables' /\ WorkerDraft'
  BY <1>1, DraftParts DEF DraftInv, WorkerDraft
<1>3. EngineTables /\ WorkerDraft
  BY <1>2, DraftParts
<1>4. PICK o : Appends(o) /\ BlocksTaken(o)
  BY ScheduleChoice
<1>5. EngineTables'
  BY <1>3, <1>4, ScheduledTables
<1>6. WorkerTables'
  BY <1>3, <1>4, <1>5, ScheduledWorkerTables DEF WorkerDraft
<1>7. RowTables'
  BY <1>1, <1>3 DEF WorkerDraft, RowTables
<1>8. DraftContextComplete'
  BY <1>1, <1>3 DEF WorkerDraft, DraftContextComplete
<1>9. QED BY <1>1, <1>3, <1>5, <1>6, <1>7, <1>8 DEF WorkerDraft

--------------------------------------------------------------------------------
(* The draft's context: the theorems *)

LEMMA InitDraft ==
    ASSUME Init
    PROVE  DraftInv
<1>1. /\ outputs = <<>> /\ Len(outputs) = 0 /\ DOMAIN exec = {}
      /\ \A r \in Requests : slot[r] = 0 /\ eng[r].status = "none" /\ eng[r].blocks = <<>>
  BY DEF Init, NewRequest
<1>2. ASSUME NEW t, NEW c, DOMAIN t = Requests, \A r \in Requests : t[r] = <<>> /\ c[r] = 0
      PROVE  TablesFit(t, c)
  <2>1. DOMAIN <<>> = {} /\ <<>> \in Seq(Blocks) /\ 0 <= Len(<<>>) * BlockSize
    <3>1. Len(<<>>) = 0 /\ BlockSize \in Nat
      BY ConstantTypes
    <3>2. 0 * BlockSize = 0
      BY <3>1
    <3>3. QED BY <3>1, <3>2
  <2>2. \A r \in Requests : DOMAIN t[r] = {} /\ t[r] \in Seq(Blocks) /\ c[r] <= Len(t[r]) * BlockSize
    BY <1>2, <2>1
  <2>3. QED BY <1>2, <2>2 DEF TablesFit, TablesApart
<1>3. EngineTables
  <2>1. PICK t, c : /\ t = [r \in Requests |-> eng[r].blocks]
                    /\ c = [r \in Requests |-> IF eng[r].status = "running" THEN eng[r].computed ELSE 0]
    OBVIOUS
  <2>2. \A r \in Requests : t[r] = <<>> /\ c[r] = 0
    BY <1>1, <2>1
  <2>3. TablesFit(t, c)
    BY <1>2, <2>1, <2>2
  <2>4. QED BY <1>1, <2>1, <2>3 DEF EngineTables
<1>4. WorkerTables
  <2>1. PICK t, c : /\ t = [r \in Requests |-> View(0, r).blocks]
                    /\ c = [r \in Requests |-> View(0, r).computed]
    OBVIOUS
  <2>2. \A r \in Requests : View(0, r) = Absent
    BY <1>1 DEF View, Held
  <2>3. \A r \in Requests : t[r] = <<>> /\ c[r] = 0
    BY <2>1, <2>2 DEF Absent
  <2>4. TablesFit(t, c)
    BY <1>2, <2>1, <2>3
  <2>5. \A k \in 0 .. Len(outputs) : k = 0
    BY <1>1
  <2>6. QED BY <2>1, <2>4, <2>5 DEF WorkerTables
<1>5. RowTables /\ DraftContextComplete
  BY <1>1 DEF RowTables, DraftContextComplete
<1>6. DOMAIN draft_kv = Blocks \X (0 .. BlockSize - 1)
  BY DEF Init
<1>7. QED BY <1>3, <1>4, <1>5, <1>6 DEF DraftInv

LEMMA DraftStep ==
    ASSUME RunnerInv, DraftInv, [Next]_vars
    PROVE  DraftInv'
<1>1. CASE \/ CaptureGraph \/ CaptureDraftGraph \/ CaptureDone \/ TakeDraftTokenIds \/ Update
           \/ \E r \in Requests : Abort(r)
           \/ UNCHANGED vars
  BY <1>1, QuietDraft
<1>2. CASE Schedule
  BY <1>2, ScheduleDraft
<1>3. CASE Execute
  BY <1>3, ExecuteDraft
<1>4. CASE SampleTokens
  BY <1>4, SampleTokensDraft
<1>5. QED BY <1>1, <1>2, <1>3, <1>4 DEF Next

\* With a speculator, no block is in two tables, or twice in one, neither the scheduler's
\* nor the worker's, now and after each output on its way; every table has room for the
\* positions counted as computed (allocate_slots, add_requests, update_requests).
THEOREM DraftInvariant == Spec => []((RunnerInv /\ PaddedRowsInert) /\ DraftInv)
<1> DEFINE Inv == (RunnerInv /\ PaddedRowsInert) /\ DraftInv
<1>1. Init => Inv
  BY InitInv, InitDraft
<1>2. Inv /\ [Next]_vars => Inv'
  <2>1. RunnerInv /\ PaddedRowsInert /\ [Next]_vars => (RunnerInv /\ PaddedRowsInert)'
    BY NextStep
  <2>2. RunnerInv /\ DraftInv /\ [Next]_vars => DraftInv'
    BY DraftStep
  <2>3. QED BY <2>1, <2>2
<1>3. QED BY <1>1, <1>2, PTL DEF Spec

\* In every deployment with a speculator, what the draft attends to of a request is the
\* entry of that position of that request, at each position the worker counts as computed:
\* steps store the positions they keep, the query tokens behind them and other requests'
\* steps overwrite none of them, and a block that changes hands is counted again from its
\* new owner's first position (prepare_dspark_inputs, postprocess, add_requests).
THEOREM DraftContextIsComplete == Spec => []DraftContextComplete
<1>1. (RunnerInv /\ PaddedRowsInert) /\ DraftInv => DraftContextComplete
  <2>1. cfg.spec > 0 \/ ~(cfg.spec > 0)
    OBVIOUS
  <2>2. QED BY <2>1 DEF DraftInv, DraftContextComplete
<1>2. QED BY <1>1, DraftInvariant, PTL
================================================================================
