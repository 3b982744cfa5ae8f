---------------------------- MODULE SparseAttention ----------------------------
(***************************************************************************)
(* The MiniMax sparse attention kernels as operators: which positions the  *)
(* index head attends to, which blocks it selects for a query, and which   *)
(* positions the main head then attends to.                                *)
(*                                                                         *)
(* A configuration c has the block size, the top-k, the forced init and    *)
(* local blocks, and the sizes the autotuner and the launchers choose:     *)
(*   c.tile   BLOCK_SIZE_N / BLOCK_SIZE_K of the score kernels, in tokens  *)
(*   c.qtile  BLOCK_SIZE_Q, queries of one program                         *)
(*   c.lanes  BLOCK_SIZE_K of the top-k kernels, in blocks                 *)
(*   c.grid   TARGET_GRID of the launchers, c.most the cap on the chunks   *)
(*   c.context  context_len; a verification has room for c.drafts more     *)
(* keys[p] is the score of the query against the index key at position p.  *)
(* An attention is a set of <<part, position>>: part is the loop iteration *)
(* that adds the position to the output.                                   *)
(***************************************************************************)
EXTENDS BlockTopk

NegInf == -2                  \* float("-inf"), below the kernels' -1e30
ForcedLocal == 100            \* 1e29
ForcedInit == 101             \* 1e30

Blocks(c, tokens) == CeilDiv(tokens, c.block)

\* The best score among the positions of S.
BestKey(keys, S) == IF S = {} THEN NegInf ELSE Max({keys[p] : p \in S})

\* The largest power of two up to what the grid leaves for one row:
\* NUM_KV_CHUNKS, NUM_TOPK_CHUNKS.
Chunks(c, most, rows) ==
    LET target == Most(1, Least(most, c.grid \div Most(1, rows)))
    IN  Max({2 ^ i : i \in {j \in 0 .. target : 2 ^ j <= target}})

--------------------------------------------------------------------------------
(* Decode: one query behind len tokens. *)

\* chunk_size_blocks .. chunk_end_block of chunk ch of n.
FirstBlock(c, len, ch, n) == ch * CeilDiv(Blocks(c, len), n)
EndBlock(c, len, ch, n) ==
    Least(FirstBlock(c, len, ch, n) + CeilDiv(Blocks(c, len), n), Blocks(c, len))

\* Positions that chunk ch reads: tiles from its first block, cut at its end.
ChunkTokens(c, len, ch, n) ==
    {p \in 0 .. c.context - 1 :
        /\ FirstBlock(c, len, ch, n) < EndBlock(c, len, ch, n)
        /\ p >= FirstBlock(c, len, ch, n) * c.block
        /\ p < Least(EndBlock(c, len, ch, n) * c.block, len)}

\* _decode_score_kernel: what it writes to the row of scores; the rest stays -inf.
DecodeScores(c, keys, len, n) ==
    LET num == Blocks(c, len)
        seen(b) == {p \in UNION {ChunkTokens(c, len, ch, n) : ch \in 0 .. n - 1} :
                      p \div c.block = b}
    IN  Listed([b \in 0 .. Blocks(c, c.context) - 1 |->
           CASE b >= num -> NegInf
             [] b < num /\ b >= Most(0, num - c.local) -> ForcedLocal
             [] b < Most(0, num - c.local) /\ b < c.init -> ForcedInit
             [] OTHER -> BestKey(keys, seen(b))])

\* _decode_score_attn_kernel: the partial outputs, one for each chunk that is written.
DecodeParts(c, len, n) ==
    [ch \in {h \in 0 .. n - 1 : FirstBlock(c, len, h, n) < EndBlock(c, len, h, n)} |->
       {<<ch, p>> : p \in ChunkTokens(c, len, ch, n)}]

\* valid_chunks of _merge_attn_out_kernel: the partial outputs it reads.
MergedChunks(c, len, n) ==
    0 .. CeilDiv(Blocks(c, len), CeilDiv(Blocks(c, len), n)) - 1

\* Mutant of IndexDecode: the merge reads every chunk, written or not.
IndexDecodeAll(c, len, n) ==
    LET parts == DecodeParts(c, len, n)
    IN  UNION {IF ch \in DOMAIN parts THEN parts[ch] ELSE {<<ch, -1>>} : ch \in 0 .. n - 1}

\* The index attention of decode; a chunk nobody wrote is position -1.
IndexDecode(c, len, n) ==
    LET parts == DecodeParts(c, len, n)
    IN  UNION {IF ch \in DOMAIN parts THEN parts[ch] ELSE {<<ch, -1>>}
                 : ch \in MergedChunks(c, len, n)}

\* Entries that the merge kernel stores from the beginning of a row on.
MergeStores(c) == 0 .. PowerOfTwo(c.topk) - 1

\* flash_decode_with_topk_idx: the row of blocks of a query, in a batch of bs rows.
DecodeRow(c, keys, len, bs) ==
    LET stored == MergeTopk(DecodeScores(c, keys, len, Chunks(c, c.most, bs)), Blocks(c, len),
                            Blocks(c, c.context), Chunks(c, c.most, bs), c.topk, c.lanes)
    IN  Listed([t \in 0 .. c.topk - 1 |-> stored[t]])

\* real_topk: entries that name a block; the kernels take the first so many.
RealTopk(row) == Cardinality({t \in DOMAIN row : row[t] >= 0})

\* _gqa_share_sparse_decode_kernel: chunk ch of the entries, then the merge of all.
SparseDecode(c, row, len, bs) ==
    LET n == Chunks(c, c.topk, bs)
        size == CeilDiv(c.topk, n)
        entries(ch) == ch * size .. Least((ch + 1) * size, RealTopk(row)) - 1
    IN  UNION {{<<t, p>> : p \in {q \in row[t] * c.block .. (row[t] + 1) * c.block - 1 :
                                    q < Least(len, c.context)}}
                 : t \in UNION {entries(ch) : ch \in 0 .. n - 1}}

--------------------------------------------------------------------------------
(* Prefill and verify: query q of the new tokens behind a prefix. *)

\* Positions that the tiles of the program of query q leave unmasked.
SeenTokens(c, prefix, q, len) ==
    LET program == q \div c.qtile
        diagonal == ((prefix + program * c.qtile) \div c.tile) * c.tile
        hi == Least(len, prefix + (program + 1) * c.qtile)
    IN  {p \in 0 .. CeilDiv(hi, c.tile) * c.tile - 1 :
            /\ p < len
            /\ (p \div c.tile) * c.tile >= diagonal => p <= prefix + q}

\* _flash_attn_fwd_with_block_score_kernel: the scores of a query.
PrefillScores(c, keys, prefix, q, len) ==
    Listed([b \in 0 .. Blocks(c, c.context + c.drafts) - 1 |->
              BestKey(keys, {p \in SeenTokens(c, prefix, q, len) : p \div c.block = b})])

\* The entries of a row that the top-k kernels store: masked at topk.
PrefillStores(c) == 0 .. c.topk - 1

\* The columns that kernel stores to.
ScoreColumns(c, prefix, q, len) ==
    {p \div c.block : p \in {x \in 0 .. len - 1 :
        x < CeilDiv(Least(len, prefix + (q \div c.qtile + 1) * c.qtile), c.tile) * c.tile}}

IndexPrefill(c, prefix, q, len) ==
    {<<p \div c.tile, p>> : p \in SeenTokens(c, prefix, q, len)}

ValidBlocks(c, prefix, q) == (prefix + q + c.block) \div c.block

\* init_mask and local_mask of _topk_index_kernel.
ForceBlocks(c, score, valid) ==
    [b \in DOMAIN score |->
       CASE b < valid /\ b >= Most(0, valid - c.local) -> ForcedLocal
         [] b < valid /\ b < c.init /\ b < Most(0, valid - c.local) -> ForcedInit
         [] OTHER -> score[b]]

\* flash_prefill_with_topk_index: the row of query q.
PrefillRow(c, keys, prefix, q, len) ==
    LET valid == ValidBlocks(c, prefix, q)
    IN  PrefillTopk(ForceBlocks(c, PrefillScores(c, keys, prefix, q, len), valid),
                    valid, c.topk, c.lanes)

\* _gqa_share_sparse_fwd_kernel: causal, cut at the length.
SparsePrefill(c, row, prefix, q, len) ==
    UNION {{<<t, p>> : p \in {x \in row[t] * c.block .. (row[t] + 1) * c.block - 1 :
                                x <= prefix + q /\ x < len}}
             : t \in 0 .. RealTopk(row) - 1}

--------------------------------------------------------------------------------
(* Verify has kernels of its own, copied from prefill; they differ in the bounds, which
   come from the score buffer. *)

\* _flash_attn_fwd_with_block_score_kernel_verify
IndexVerify(c, prefix, q, len) == IndexPrefill(c, prefix, q, len)

\* flash_verify_prefill_with_topk_index, _topk_index_kernel_verify
VerifyRow(c, keys, prefix, q, len) == PrefillRow(c, keys, prefix, q, len)

\* _gqa_share_sparse_fwd_kernel_verify: also cut at the bound of the score buffer.
SparseVerify(c, row, prefix, q, len, upper) ==
    {tp \in SparsePrefill(c, row, prefix, q, len) : tp[2] < upper * c.block}

--------------------------------------------------------------------------------
\* cu_seqlens and cu_seqblocks_q (query blocks of one token): the first row of each
\* request of the batch.
FirstRow(lens, i) == SumFunctionOnSet(lens, 1 .. i - 1)

\* all_seqblock_q: exact when run eagerly, an upper bound under capture.
AllRows(lens, maxlen, capturing) ==
    IF capturing THEN Len(lens) * maxlen ELSE FirstRow(lens, Len(lens) + 1)

================================================================================
