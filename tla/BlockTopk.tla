------------------------------- MODULE BlockTopk -------------------------------
(***************************************************************************)
(* The selection of the best blocks in the MiniMax kernels: a bitonic      *)
(* sort, a running top-k over tiles of scores, and the two-stage top-k of  *)
(* decode (decode_flash_with_topk_idx.py, prefill_flash_with_topk_idx.py). *)
(*                                                                         *)
(* A vector of 2^n lanes is a function on 0 .. 2^n - 1 of pairs            *)
(* <<score, id>>.  Ids are counted from 1, 0 is no block, as in the        *)
(* kernels; scores are naturals.                                           *)
(***************************************************************************)
EXTENDS Integers, FiniteSets, FiniteSetsExt, Functions, Sequences, SequencesExt

Lowest == -1                 \* the kernels' -1e30
Absent == <<Lowest, 0>>

CeilDiv(a, b) == (a + b - 1) \div b
Least(a, b) == IF a <= b THEN a ELSE b
Most(a, b) == IF a >= b THEN a ELSE b

\* next_power_of_2
PowerOfTwo(n) == CHOOSE p \in {2 ^ i : i \in 0 .. n} : p >= n /\ p < 2 * Most(n, 1)

\* f, value by value, so that TLC evaluates it once.
Listed(f) == f @@ <<>>

Log2(n) == CHOOSE i \in 0 .. n : 2 ^ i = n

--------------------------------------------------------------------------------
\* _compare_and_swap: lanes 2^(n-i-1) apart are exchanged if they are in the wrong
\* order; where flip holds, equal ones are exchanged too.
CompareAndSwap(x, flip, i, n) ==
    LET stride == 2 ^ (n - i - 1)
        left(p) == IF (p \div stride) % 2 = 0 THEN p ELSE p - stride
        swapped(p) == (x[left(p)][1] > x[left(p) + stride][1]) # flip[p]
        other(p) == IF p = left(p) THEN p + stride ELSE p - stride
    IN  Listed([p \in DOMAIN x |-> IF swapped(p) THEN x[other(p)] ELSE x[p]])

\* _bitonic_merge: `stage` rounds; order "asc", "desc", or "alt" for runs of 2^stage
\* in turn.
BitonicMerge(x, stage, order, n) ==
    LET flip == [p \in DOMAIN x |->
                   CASE order = "asc" -> FALSE
                     [] order = "desc" -> TRUE
                     [] order = "alt" -> (p \div 2 ^ stage) % 2 = 1]
    IN  FoldLeft(LAMBDA y, i : CompareAndSwap(y, flip, i + n - stage, n), x,
                 [i \in 1 .. stage |-> i - 1])

\* The loop over j before the last merge: runs of 2^(n-1), ascending and descending.
BitonicRuns(x, n) ==
    FoldLeft(LAMBDA y, j : BitonicMerge(y, j, "alt", n), x, [j \in 1 .. n - 1 |-> j])

--------------------------------------------------------------------------------
\* Mutant of KeepBest: the halves are taken the other way round.
KeepBestSwapped(best, sorted) ==
    LET half == Cardinality(DOMAIN best) \div 2
    IN  [p \in DOMAIN best |-> IF p < half THEN sorted[p] ELSE best[p]]

\* left_half_mask: the better half of what was kept, which is descending, and of the
\* new tile, which is ascending.
KeepBest(best, sorted) ==
    LET half == Cardinality(DOMAIN best) \div 2
    IN  Listed([p \in DOMAIN best |-> IF p < half THEN best[p] ELSE sorted[p]])

\* The tile of `lanes` scores from block `from`; lanes at or behind `to` are absent.
Tile(score, from, to, lanes) ==
    Listed([p \in 0 .. lanes - 1 |->
              IF from + p < to THEN <<score[from + p], from + p + 1>> ELSE Absent])

\* The loops of _topk_index_kernel and _topk_index_partial_kernel over the blocks of
\* lo .. hi - 1: a running selection, descending.
RunningTopk(score, lo, hi, lanes) ==
    LET n == Log2(lanes)
        step(best, i) ==
          LET runs == BitonicRuns(Tile(score, lo + (i - 1) * lanes, hi, lanes), n)
          IN  IF i = 1 THEN BitonicMerge(runs, n, "desc", n)
              ELSE BitonicMerge(KeepBest(best, BitonicMerge(runs, n, "asc", n)), n, "desc", n)
        tiles == IF hi <= lo THEN 0 ELSE CeilDiv(hi - lo, lanes)
    IN  FoldLeft(step, [p \in 0 .. lanes - 1 |-> Absent], [i \in 1 .. tiles |-> i])

\* _topk_index_kernel: a row of `topk` blocks, -1 where there is none.
PrefillTopk(score, valid, topk, lanes) ==
    LET best == RunningTopk(score, 0, valid, lanes)
    IN  Listed([t \in 0 .. topk - 1 |->
                  IF t < Least(topk, valid) THEN best[t][2] - 1 ELSE -1])

\* chunk_blocks of flash_decode_with_topk_idx.
ChunkBlocks(blocks, chunks) == CeilDiv(blocks, chunks)

\* _topk_index_partial_kernel: the candidates of one chunk of a row of `blocks`.
PartialTopk(score, num, blocks, c, chunks, topk, lanes) ==
    LET size == ChunkBlocks(blocks, chunks)
        best == RunningTopk(score, c * size, Least((c + 1) * size, num), lanes)
    IN  Listed([t \in 0 .. PowerOfTwo(topk) - 1 |-> best[t]])

\* _topk_index_merge_kernel: the candidates of all chunks side by side, sorted.  It stores
\* a power of two of entries, no matter how many a row of the result has room for.
MergeTopk(score, num, blocks, chunks, topk, lanes) ==
    LET wide == PowerOfTwo(topk)
        all == PowerOfTwo(chunks * wide)
        part == Listed([c \in 0 .. chunks - 1 |->
                          PartialTopk(score, num, blocks, c, chunks, topk, lanes)])
        given == Listed([p \in 0 .. all - 1 |->
                    IF p \div wide < chunks THEN part[p \div wide][p % wide] ELSE Absent])
        sorted == BitonicMerge(BitonicRuns(given, Log2(all)), Log2(all), "desc", Log2(all))
    IN  Listed([t \in 0 .. wide - 1 |->
                  IF t < Least(topk, num) THEN sorted[t][2] - 1 ELSE -1])

================================================================================
