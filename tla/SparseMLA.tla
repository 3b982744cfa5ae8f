------------------------------- MODULE SparseMLA -------------------------------
(***************************************************************************)
(* The sparse MLA kernels of GLM-5.2 as operators: which kernel a call     *)
(* gets, and which entries of a row of slots each kernel reads, with which *)
(* quarter of the value each column of the output is made.                 *)
(*                                                                         *)
(* A row is a sequence of slots, -1 where there is none.  The running      *)
(* time score that picks among the candidate splits is left open: every    *)
(* candidate may be the choice.                                            *)
(***************************************************************************)
EXTENDS Integers, Sequences, FiniteSets, FiniteSetsExt, SequencesExt

CONSTANTS
    CuCount,      \* cu_count: compute units of the device
    BlockI        \* block_I: entries of a row in one tile (32 in every configuration)

ASSUME KernelAssumption == CuCount \in Nat \ {0} /\ BlockI \in Nat \ {0}

CeilDiv(a, b) == (a + b - 1) \div b

--------------------------------------------------------------------------------
(* Choice of the kernel: a configuration is [split, tail, head]: num_split,
   num_split_tail and batch_head. *)

Config(split, tail, head) == [split |-> split, tail |-> tail, head |-> head]

\* The list splits of get_best_split.
SplitList(key) ==
    CASE key <= 4 -> {16, 32}
      [] key > 4 /\ key <= CuCount \div 2 -> {1, 2, 4, 8, 16}
      [] key > 4 /\ key > CuCount \div 2 /\ key <= CuCount -> {1, 2, 4, 8}
      [] key > 4 /\ key > CuCount /\ key <= 2 * CuCount -> {1, 2, 4}
      [] key > 4 /\ key > 2 * CuCount /\ key <= 4 * CuCount -> {1, 2}
      [] OTHER -> {1}

BestSplits(key, base) == {base} \cup {s \in SplitList(key) : s % base = 0}

Gcd(m, n) == Max({d \in 1 .. n : m % d = 0 /\ n % d = 0})

\* get_streamk_config: the head of the batch fills the device, the tail is split further.
StreamK(key, count) ==
    LET rest == key % count
        full == key - rest
        base == (CuCount \div count) \div Gcd(full \div count, CuCount \div count)
        heads == IF full > 0 THEN BestSplits(full, base) ELSE {0}
        tails == IF rest > 0 THEN BestSplits(rest, 1) ELSE {0}
        apart == {ht \in heads \X tails : ht[1] # 0 /\ ht[1] # ht[2]}
    IN  {Config(t, 0, key) : t \in {u \in tails : u \in heads \/ 0 \in heads}}
        \cup {Config(ht[1], ht[2], full) : ht \in {p \in apart : p[2] # 1}}
        \cup {Config(s, 0, key) : s \in IF \E ht \in apart : ht[2] = 1
                                       THEN BestSplits(key, 1) ELSE {}}

\* counts and key_min of get_best_streamk_config.
Counts == IF CuCount = 72 THEN {72, 36, 18, 9}
          ELSE IF CuCount = 64 THEN {64, 32, 16, 8} ELSE {}
KeyMin == IF CuCount = 72 THEN 9 ELSE IF CuCount = 64 THEN 8 ELSE (2 * CuCount) \div 16

\* config_map_cu72: split of the keys that were measured.
Measured == IF CuCount = 72 THEN {1, 2, 3, 4, 8, 16, 32, 64, 128} ELSE {}
MeasuredSplit(key) == IF key <= 4 THEN 32 ELSE 128 \div key

BlockM(heads) == IF heads <= 16 THEN 16 ELSE 32

StreamKConfigs(batch, seq, heads) ==
    LET per == seq * CeilDiv(heads, BlockM(heads))
        key == batch * per
    IN  IF key \in Measured /\ per = 1 /\ BlockM(heads) = 16
        THEN {Config(MeasuredSplit(key), 0, key)}
        ELSE IF Counts # {} /\ CuCount % per = 0 /\ key >= KeyMin /\ key <= 128
        THEN {Config(1, 0, batch)} \cup
             {[c EXCEPT !.head = @ \div per] :
                c \in UNION {StreamK(key, n) : n \in {m \in Counts : m % per = 0}}}
        ELSE {Config(s, 0, batch) : s \in BestSplits(key, 1)}

\* get_config_fast: the smallest power of two that fills the device.
FastConfig(batch, seq, heads) ==
    LET key == batch * seq * CeilDiv(heads, BlockM(heads))
        fills == {s \in {1, 2, 4, 8, 16} : key * s > CuCount}
    IN  Config(IF fills = {} THEN 32 ELSE Min(fills), 0, batch)

\* get_best_config.
Configs(batch, seq, heads) ==
    IF (seq <= 8 /\ batch <= 256) \/ (batch = 1 /\ seq <= 256)
    THEN StreamKConfigs(batch, seq, heads)
    ELSE {FastConfig(batch, seq, heads)}

MaxBlockM(heads) == IF heads = 128 THEN 32 ELSE 16

\* The assertions on the way to the launch of a kernel for batch rows of sequences.
Launches(batch, heads, topk, c) ==
    /\ topk % BlockI = 0
    /\ c.split > 1 => topk % (c.split * BlockI) = 0
    /\ c.tail > 0 => topk % (c.tail * BlockI) = 0 /\ c.tail > 1 /\ batch > c.head
    /\ heads > MaxBlockM(heads) => heads % MaxBlockM(heads) = 0

--------------------------------------------------------------------------------
(* One row in one program.  Split s of n takes every n-th tile. *)

TileStart(i, s, n) == i * BlockI * n + s * BlockI

\* valid_NI: the tiles whose first entry is a slot.  The program then reads
\* this many tiles from the first one on.
ValidTiles(row, s, n) ==
    Cardinality({i \in 0 .. Len(row) \div (n * BlockI) - 1 : row[TileStart(i, s, n) + 1] >= 0})

IsSlot(e) == e >= 0

\* The slots whose keys split s of n weighs; masked entries have weight zero.
ProgramReads(row, s, n) ==
    FlattenSeq([i \in 1 .. ValidTiles(row, s, n) |->
        SelectSeq(SubSeq(row, TileStart(i - 1, s, n) + 1, TileStart(i - 1, s, n) + BlockI), IsSlot)])

\* The buffers of a tile: a key is loaded in quarters, the first three are copied
\* to shared memory.
LoadedTile == [local |-> <<0, 1, 2, 3>>, shared |-> <<0, 1, 2>>]

\* Quarters the four products Q.K take; quarter i of Q is multiplied with the i-th.
ScoreQuarters == <<LoadedTile.shared[1], LoadedTile.shared[2], LoadedTile.shared[3],
                   LoadedTile.local[4]>>

\* Quarters the four products S.V take: the fourth takes the place of the first.
ValueQuarters ==
    LET kept == LoadedTile.shared[1]
        reused == [LoadedTile.shared EXCEPT ![1] = LoadedTile.local[4]]
    IN  <<kept, reused[2], reused[3], reused[1]>>

\* out_shared_reuse: two buffers carry the four quarters of the output in two turns.
StoredColumns(acc, reuse) ==
    IF reuse THEN <<acc[1], acc[2], acc[3], acc[4]>> ELSE acc

\* A row in n splits, which combine adds up; the parts of empty splits weigh nothing,
\* and a row without any slot is 0 / 0 when it was split.
Attention(row, n, heads) ==
    LET reads == FlattenSeq([s \in 1 .. n |-> ProgramReads(row, s - 1, n)])
    IN  [slots |-> reads,
         nan |-> n > 1 /\ reads = <<>>,
         scores |-> ScoreQuarters,
         columns |-> StoredColumns(ValueQuarters, MaxBlockM(heads) > 16)]

\* sparse_mla_head_no_split: next to a tail, the two turns of the output are stored
\* in the order of the second turn first.
HeadAttention(row, heads) ==
    LET one == Attention(row, 1, heads)
        acc == one.columns
    IN  [one EXCEPT !.columns = IF MaxBlockM(heads) > 16
                                THEN <<acc[3], acc[4], acc[1], acc[2]>> ELSE acc]

\* main_no_split, main_split, main_all_split, main_tail_split: a row of item b of the batch.
ItemAttention(row, b, c, heads) ==
    IF c.tail > 0 /\ b > c.head THEN Attention(row, c.tail, heads)
    ELSE IF c.tail > 0 /\ c.split = 1 THEN HeadAttention(row, heads)
    ELSE Attention(row, c.split, heads)

\* flash_mla_sparse_fwd for a batch of items, each a sequence of rows.
FlashSparseFwd(items, c, heads) ==
    [b \in DOMAIN items |-> [t \in DOMAIN items[b] |-> ItemAttention(items[b][t], b, c, heads)]]
================================================================================
