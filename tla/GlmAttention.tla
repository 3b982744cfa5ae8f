----------------------------- MODULE GlmAttention -----------------------------
(***************************************************************************)
(* The sparse attention of GLM-5.2 over forwards of a batch: every full    *)
(* layer runs the indexer, which stores the index keys of the step, scores *)
(* the keys of each query and writes the best positions to a buffer of its *)
(* pipeline stage; every layer, full or shared, stores its own keys, turns *)
(* the positions into slots and attends to them.                           *)
(*                                                                         *)
(* A key is the token <<request, position>> it was computed from, so that  *)
(* what a query attends to can be compared with what it should.  What the  *)
(* model computes is left out; the score of a position is a constant.      *)
(*                                                                         *)
(* Which requests of a batch the indexer takes for decodes is decided by   *)
(* the builder of its metadata, which is not in the repository: its        *)
(* threshold is part of the mode, and may be anything from one token to a  *)
(* token and all its drafts.                                               *)
(*                                                                         *)
(* Bounds: requests run once, up to MaxLen tokens; a step has at most      *)
(* MaxBatched tokens.  Context parallelism (enable_lightly_cp), FP8 index  *)
(* keys and devices other than ROCm are not modelled.                      *)
(***************************************************************************)
EXTENDS SparseMLA, RequestQueues, Functions

CONSTANTS
    Order,             \* the requests, as the runner keeps them
    MaxLen, Prompt,    \* [Requests -> Nat], longest context and length of the prompt
    ChunkSizes,        \* sizes of a chunk of a prompt; the rest of it is one too
    MaxBatched,        \* max_num_batched_tokens
    Drafts,            \* draft tokens of a request that decodes
    NumBlocks,         \* KV blocks 1 .. NumBlocks; block 0 holds nothing
    KVBlock,           \* block_size
    TopK,              \* index_topk
    NumLayers, TopkFreq, SkipOffset, StageStarts,
    Modes,             \* sets of [cache, lightop, heads, threshold] the server may run in
    IndexBuffer,       \* get_max_prefill_buffer_size, in keys
    PrefillBuffer,     \* get_prefill_workspace_size, in keys
    LogitsCapacity,    \* elements of the logits buffer
    Align,             \* align_size
    BlockQ, BlockN,    \* tile of the logits kernel, in queries and in keys
    Score,             \* [Layers -> [positions -> 0 .. MaxScore]]
    MaxScore

Requests == ToSet(Order)
Layers == 0 .. NumLayers - 1

--------------------------------------------------------------------------------
(* Construction of the model. *)

\* _skip_topk and skip_topk: shared layers have no indexer.
SkipTopk(l) == Max({l - SkipOffset + 1, 0}) % TopkFreq # 0

FullLayers == {l \in Layers : ~SkipTopk(l)}

\* Layers of one pipeline stage share one topk_indices_buffer.
StageOf(l) == Max({s \in StageStarts : s <= l})

\* A stage that began with a shared layer would read a buffer nobody wrote.
ASSUME StagesAssumption ==
    /\ 0 \in StageStarts /\ StageStarts \subseteq FullLayers

\* MAX_ELEMENTS: Align rows of logits hold what a full buffer of keys needs.
ASSUME BuffersAssumption ==
    /\ IndexBuffer \in Nat /\ PrefillBuffer \in Nat
    /\ LogitsCapacity \in Nat /\ Align \in Nat \ {0}
    /\ \A r \in Requests : MaxLen[r] <= IndexBuffer /\ MaxLen[r] <= PrefillBuffer
    /\ Align * (CeilDiv(IndexBuffer, Align) * Align) <= LogitsCapacity

\* Every request has a prompt it can finish, and steps give it whole tokens.
ASSUME RequestsAssumption ==
    /\ Order \in Seq(Requests) /\ NoDuplicates(Order)
    /\ \A r \in Requests : MaxLen[r] \in Nat \ {0} /\ Prompt[r] \in 0 .. MaxLen[r]
    /\ ChunkSizes \subseteq Nat \ {0} /\ Drafts \in Nat

\* index_topk is a multiple of 32 tiles, and the heads of a rank fill their tiles.  The
\* threshold of the indexer's decodes is at most 1 + speculative tokens.
ASSUME ModesAssumption ==
    /\ \E k \in 1 .. TopK : TopK = 32 * k * BlockI
    /\ \A m \in Modes :
          /\ m.cache \in {"bf16", "mixed", "split"} /\ m.heads \in Nat \ {0}
          /\ m.threshold \in 1 .. 1 + Drafts
          /\ m.heads > MaxBlockM(m.heads) => m.heads % MaxBlockM(m.heads) = 0

VARIABLES
    mode,      \* what the environment and the device select
    ctx,       \* [Requests -> Nat \cup {-1}], computed tokens, -1 when gone
    table,     \* [Requests -> Seq(1 .. NumBlocks)]
    icache,    \* [FullLayers -> [Slots -> keys]], index keys
    kcache,    \* [Layers -> [Slots -> keys]], latent keys
    buffer,    \* [StageStarts -> [1 .. MaxBatched -> [1 .. TopK -> positions]]]
    batch,     \* sequence of [req, n, len]; empty between steps
    rows,      \* sequence of [i, pos, slot]: req_id_per_token, positions, slot_mapping
    layer,     \* the layer to run next
    out,       \* what the layer run last returned for each row
    failed     \* an assertion or a view of a buffer has raised

vars == <<mode, ctx, table, icache, kcache, buffer, batch, rows, layer, out, failed>>

NoKey == <<"none", -1>>
Slots == 0 .. (NumBlocks + 1) * KVBlock - 1

\* The buffers come from torch.empty: 0 stands for what they hold at first.
Init ==
    /\ mode \in Modes
    /\ ctx = [r \in Requests |-> 0]
    /\ table = [r \in Requests |-> <<>>]
    /\ icache = [l \in FullLayers |-> [s \in Slots |-> NoKey]]
    /\ kcache = [l \in Layers |-> [s \in Slots |-> NoKey]]
    /\ buffer = [s \in StageStarts |-> [t \in 1 .. MaxBatched |-> [k \in 1 .. TopK |-> 0]]]
    /\ batch = <<>> /\ rows = <<>> /\ layer = 0 /\ out = <<>> /\ failed = FALSE

--------------------------------------------------------------------------------
(* A step of the scheduler. *)

Live == {r \in Requests : ctx[r] >= 0}

\* Tokens a request may get: a chunk of its prompt, or a token and its drafts.
Shares(r) ==
    IF ctx[r] < Prompt[r]
    THEN {n \in ChunkSizes \cup {Prompt[r] - ctx[r]} : n <= Prompt[r] - ctx[r]}
    ELSE {Min({1 + Drafts, MaxLen[r] - ctx[r]})}

Lowest(S, n) == {b \in S : Cardinality({c \in S : c < b}) < n}

\* KVCacheManager.allocate_slots: request r grows to n tokens.
Extend(acc, r, n) ==
    LET need == Max({CeilDiv(n, KVBlock) - Len(acc[r]), 0})
        free == (1 .. NumBlocks) \ UNION {ToSet(acc[q]) : q \in Requests}
        taken(b) == b \in Lowest(free, need)
    IN  [acc EXCEPT ![r] = @ \o SelectSeq([b \in 1 .. NumBlocks |-> b], taken)]

\* Decodes come first, to the smaller of the thresholds of the attention and the indexer;
\* len is seq_lens, computed and new tokens.
Scheduled(share) ==
    LET few == {r \in DOMAIN share : share[r] <= mode.threshold}
        order == Only(Order, few) \o Only(Order, DOMAIN share \ few)
    IN  [i \in DOMAIN order |->
           [req |-> order[i], n |-> share[order[i]], len |-> ctx[order[i]] + share[order[i]]]]

SlotIn(blocks, pos) == (blocks[(pos \div KVBlock) + 1] * KVBlock) + (pos % KVBlock)

\* One row per token of the batch b.
RowsOfBatch(b, blocks) ==
    FlattenSeq([i \in DOMAIN b |-> [k \in 1 .. b[i].n |->
        LET pos == b[i].len - b[i].n + k - 1
        IN  [i |-> i, pos |-> pos, slot |-> SlotIn(blocks[b[i].req], pos)]]])

\* Schedule.schedule serves these first; without blocks one of them leaves.
Decoding == {r \in Live : ctx[r] >= Prompt[r]}

BeginStep ==
    /\ batch = <<>> /\ ~failed
    /\ \E S \in {T \in SUBSET Live : T # {} /\ Decoding \subseteq T} :
       \E share \in {f \in [S -> UNION {Shares(r) : r \in S}] : \A r \in S : f[r] \in Shares(r)} :
         /\ MapThenSumSet(LAMBDA r : share[r], S) <= MaxBatched
         /\ LET grow(acc, r) == IF r \in S THEN Extend(acc, r, ctx[r] + share[r]) ELSE acc
                grown == FoldLeft(grow, table, Order)
            IN  /\ \A r \in S : Len(grown[r]) * KVBlock >= ctx[r] + share[r]
                /\ table' = grown
                /\ batch' = Scheduled(share)
                /\ rows' = RowsOfBatch(Scheduled(share), grown)
    /\ layer' = 0
    /\ UNCHANGED <<mode, ctx, icache, kcache, buffer, out, failed>>

--------------------------------------------------------------------------------
(* Parts of the batch. *)

\* Requests in front of the first one that has more than n tokens.
AtMost(n) == {i \in DOMAIN batch : \A j \in 1 .. i : batch[j].n <= n}

RowsOf(S) ==
    Only([t \in DOMAIN rows |-> t], {t \in DOMAIN rows : rows[t].i \in S})

\* A row of the padded block table.
TableRow(i) ==
    LET blocks == table[batch[i].req]
        padded == Max({CeilDiv(MaxLen[r], KVBlock) : r \in Requests})
    IN  [b \in 1 .. padded |-> IF b <= Len(blocks) THEN blocks[b] ELSE 0]

\* indexer_k_bf16_cache_triton, concat_and_cache_mla: keys of the step to their slots.
Stored(cache) ==
    LET row(s) == CHOOSE t \in DOMAIN rows : rows[t].slot = s
    IN  [s \in {rows[t].slot : t \in DOMAIN rows} |->
           <<batch[rows[row(s)].i].req, rows[row(s)].pos>>] @@ cache

\* cp_gather_indexer_k_bf16_cache_triton, cp_gather_and_upconvert_fp8_kv_cache.
Gathered(cache, S) ==
    LET order == Only([i \in DOMAIN batch |-> i], S)
    IN  FlattenSeq([k \in DOMAIN order |->
           [p \in 1 .. batch[order[k]].len |-> cache[SlotIn(TableRow(order[k]), p - 1)]]])

\* cumsum of seq_lens: where the keys of request i begin among those of S.
StartIn(S, i) == SumFunctionOnSet([j \in DOMAIN batch |-> batch[j].len], {j \in S : j < i})

\* Request i joins the last chunk if its keys fit, else it begins one.
WithRequest(acc, i, S, limit) ==
    IF i \notin S THEN acc
    ELSE IF acc # <<>> /\ StartIn(Last(acc), i) + batch[i].len <= limit
         THEN Append(Front(acc), Last(acc) \cup {i})
         ELSE Append(acc, {i})

\* split_prefill_chunks: following requests as long as their keys fit.
Chunks(S, limit) ==
    FoldLeft(LAMBDA acc, i : WithRequest(acc, i, S, limit), <<>>, [i \in DOMAIN batch |-> i])

--------------------------------------------------------------------------------
(* The indexer of a full layer. *)

\* Score of what a column of the logits holds.  What no key was computed for,
\* an element of torch.empty, may be the best of all.
ScoreOf(l, key) == IF key = NoKey THEN MaxScore ELSE Score[l][key[2]]

\* mqa_attn_return_logits_tl: the key behind column c of row t.  BlockQ rows share
\* the span of columns; loads behind the last row give zero.
LogitsKey(keys, ks, ke, t, c) ==
    LET first == (((t - 1) \div BlockQ) * BlockQ) + 1
        at(f, u) == IF u \in DOMAIN f THEN f[u] ELSE 0
        from == Min({at(ks, u) : u \in first .. first + BlockQ - 1})
        to == Max({at(ke, u) : u \in first .. first + BlockQ - 1})
    IN  IF c >= from /\ c < from + (CeilDiv(to - from, BlockN) * BlockN) THEN keys[c + 1] ELSE NoKey

\* top_k_per_row_*: the best columns of a row, whose keys are given from its first on.
\* The _C kernel fills up with -1, the lightop kernel leaves the rest alone.
TopRow(l, keys, old) ==
    LET n == Len(keys)
        all == [c \in 1 .. n |-> c - 1]
        score == [c \in 0 .. n - 1 |-> ScoreOf(l, keys[c + 1])]
        best(c) == Cardinality({d \in 0 .. n - 1 : score[d] > score[c]}) < TopK
        chosen == IF n <= TopK THEN all ELSE SelectSeq(all, best)
    IN  [k \in 1 .. TopK |-> IF k <= Len(chosen) THEN chosen[k]
                             ELSE IF mode.lightop THEN old[k] ELSE -1]

\* masked_fill_ behind the lightop kernel.
Cleaned(row, limit) ==
    IF mode.lightop
    THEN [k \in DOMAIN row |-> IF row[k] >= limit \/ row[k] < -1 THEN -1 ELSE row[k]]
    ELSE row

AlignedKeys(S) == CeilDiv(StartIn(S, Len(batch) + 1), Align) * Align

\* Mutant of MaxQChunk: not rounded down to whole tiles.
MaxQChunkUnaligned(S) == Max({1, LogitsCapacity \div AlignedKeys(S)})

\* MAX_Q_CHUNK.
MaxQChunk(S) == Max({1, ((LogitsCapacity \div AlignedKeys(S)) \div Align) * Align})

\* Rows of a chunk whose logits are computed at a time.
Slices(S) ==
    LET ts == RowsOf(S)
        q == MaxQChunk(S)
    IN  [k \in 1 .. CeilDiv(Len(ts), q) |->
           SubSeq(ts, ((k - 1) * q) + 1, Min({k * q, Len(ts)}))]

\* logits_buffer[:required_size].view(...) raises beyond the capacity.
ViewFits(S, slice) == CeilDiv(Len(slice), Align) * Align * AlignedKeys(S) <= LogitsCapacity

PrefillTopk(l, cache, S, slice, empty) ==
    LET keys == Gathered(cache, S)
        ks == [k \in DOMAIN slice |-> StartIn(S, rows[slice[k]].i)]
        ke == [k \in DOMAIN slice |-> ks[k] + rows[slice[k]].pos + 1]
        own(k) == [c \in 1 .. ke[k] - ks[k] |-> LogitsKey(keys, ks, ke, k, ks[k] + c - 1)]
        row(k) == Cleaned(TopRow(l, own(k), empty), ke[k] - ks[k])
    IN  [t \in ToSet(slice) |-> row(CHOOSE k \in DOMAIN slice : slice[k] = t)]

\* page_mqa_logits: every block of the padded table gives logits; the columns behind
\* seq_lens are cleaned, so that the top-k never sees them.
PagedKey(cache, i, c) == cache[SlotIn(TableRow(i), c)]

DecodeTopk(l, cache, t, empty) ==
    LET i == rows[t].i
        own == [c \in 1 .. batch[i].len |-> PagedKey(cache, i, c - 1)]
    IN  Cleaned(TopRow(l, own, empty), Max({MaxLen[r] : r \in Requests}))

EmptyRow == [k \in 1 .. TopK |-> -1]

\* Mutant of Reset: the rows keep what the step before left in them.
ResetNothing(old) == old

\* topk_indices_buffer[: num_tokens] = -1.
Reset(old) == [t \in DOMAIN old |-> IF t <= Len(rows) THEN EmptyRow ELSE old[t]]

\* DeepseekV32IndexerMetadataBuilder: num_decodes.
IndexDecodes == AtMost(mode.threshold)
IndexPrefills == DOMAIN batch \ IndexDecodes

\* sparse_attn_indexer: the rows of the buffer after a full layer.
Indexed(l, cache, old) ==
    LET reset == Reset(old)
        decode == [t \in ToSet(RowsOf(IndexDecodes)) |-> DecodeTopk(l, cache, t, reset[t])]
        chunk(acc, S) ==
            FoldLeft(LAMBDA a, slice : PrefillTopk(l, cache, S, slice, reset[slice[1]]) @@ a,
                     acc, Slices(S))
    IN  FoldLeft(chunk, decode @@ reset, Chunks(IndexPrefills, IndexBuffer))

\* next_n: decodes are reshaped, or padded by pack_seq_triton, to the longest of them.
NextN == Max({batch[i].n : i \in IndexDecodes})

\* page_mqa_logits asserts that a decode has a single token.
LongDecodes == IndexDecodes # {} /\ NextN # 1

\* What a failing layer leaves behind in its buffers is not read any more.
IndexerFails ==
    \/ \E S \in ToSet(Chunks(IndexPrefills, IndexBuffer)) :
          \E slice \in ToSet(Slices(S)) : ~ViewFits(S, slice)
    \/ LongDecodes

--------------------------------------------------------------------------------
(* The attention of every layer. *)

\* convert_req_index_to_global_index: positions to slots of the cache.
ToSlots(t, row) ==
    LET blocks == TableRow(rows[t].i)
    IN  [k \in DOMAIN row |->
           IF row[k] < 0 \/ (row[k] \div KVBlock) >= Len(blocks) THEN -1 ELSE SlotIn(blocks, row[k])]

\* ... and, for prefills of an FP8 cache, to places in the workspace.
ToWorkspace(t, row, start) ==
    [k \in DOMAIN row |->
        IF row[k] < 0 \/ (row[k] \div KVBlock) >= Len(TableRow(rows[t].i)) THEN -1 ELSE start + row[k]]

\* What a row got from a cache or a workspace: the keys it weighed, how many, and the
\* quarters they were made of.
Result(attention, memory) ==
    [keys |-> {IF s \in DOMAIN memory THEN memory[s] ELSE NoKey : s \in ToSet(attention.slots)},
     count |-> Len(attention.slots),
     nan |-> attention.nan, scores |-> attention.scores, columns |-> attention.columns]

\* flash_mla_with_kvcache on an FP8 cache.
Fp8Kernel(row) ==
    [slots |-> SelectSeq(row, IsSlot), nan |-> FALSE,
     scores |-> <<0, 1, 2, 3>>, columns |-> <<0, 1, 2, 3>>]

\* _bf16_flash_mla_kernel on the rows ts.
Bf16Kernel(ts, indices, c) ==
    FlashSparseFwd(<<[k \in DOMAIN ts |-> indices[ts[k]]]>>, c, mode.heads)[1]

\* _forward_bf16_kv.
ForwardBf16(topk, cache, pick) ==
    LET all == RowsOf(DOMAIN batch)
        results == Bf16Kernel(all, [t \in DOMAIN rows |-> ToSlots(t, topk[t])], pick[Len(all)])
    IN  [t \in DOMAIN rows |-> Result(results[t], cache)]

\* _forward_fp8_kv_mixed_batch.
ForwardMixed(topk, cache) ==
    [t \in DOMAIN rows |-> Result(Fp8Kernel(ToSlots(t, topk[t])), cache)]

\* split_decodes_and_prefills(require_uniform): as many tokens as the first request.
UniformDecodes ==
    IF batch[1].n > 1 + Drafts THEN {}
    ELSE {i \in DOMAIN batch : \A j \in 1 .. i : batch[j].n = batch[1].n}

Prefills == DOMAIN batch \ UniformDecodes

\* prefill_workspace_starts: 0 at the first request of each chunk.
WorkspaceStart(S, i) == StartIn(Prefills, i) - StartIn(Prefills, Min(S))

\* _forward_fp8_kv_separate_prefill_decode.
ForwardSplit(topk, cache, pick) ==
    LET decode == [t \in ToSet(RowsOf(UniformDecodes)) |->
                     Result(Fp8Kernel(ToSlots(t, topk[t])), cache)]
        chunk(acc, S) ==
            LET keys == Gathered(cache, S)
                workspace == [w \in 0 .. Len(keys) - 1 |-> keys[w + 1]]
                ts == RowsOf(S)
                results == Bf16Kernel(ts, [t \in ToSet(ts) |->
                    ToWorkspace(t, topk[t], WorkspaceStart(S, rows[t].i))], pick[Len(ts)])
            IN  [t \in ToSet(ts) |->
                   Result(results[CHOOSE k \in DOMAIN ts : ts[k] = t], workspace)] @@ acc
    IN  FoldLeft(chunk, decode, Chunks(Prefills, PrefillBuffer))

\* Numbers of rows the BF16 kernel is called with.
Calls == CASE mode.cache = "bf16" -> {Len(rows)}
           [] mode.cache = "mixed" -> {}
           [] mode.cache = "split" -> {Len(RowsOf(S)) : S \in ToSet(Chunks(Prefills, PrefillBuffer))}

Forward(topk, cache, pick) ==
    CASE mode.cache = "bf16" -> ForwardBf16(topk, cache, pick)
      [] mode.cache = "mixed" -> ForwardMixed(topk, cache)
      [] mode.cache = "split" -> ForwardSplit(topk, cache, pick)

\* One layer: MultiHeadLatentAttentionWrapper.forward.
RunLayer ==
    /\ batch # <<>> /\ layer < NumLayers /\ ~failed
    /\ IF layer \in FullLayers
       THEN /\ icache' = [icache EXCEPT ![layer] = Stored(@)]
            /\ buffer' = [buffer EXCEPT ![StageOf(layer)] = Indexed(layer, icache'[layer], @)]
       ELSE UNCHANGED <<icache, buffer>>
    /\ kcache' = [kcache EXCEPT ![layer] = Stored(@)]
    /\ \E pick \in [Calls -> UNION {Configs(1, n, mode.heads) : n \in Calls}] :
         /\ \A n \in Calls : pick[n] \in Configs(1, n, mode.heads)
         /\ failed' = \/ layer \in FullLayers /\ IndexerFails
                      \/ \E n \in Calls : ~Launches(1, mode.heads, TopK, pick[n])
         /\ out' = IF failed' THEN <<>>
                   ELSE Forward(buffer'[StageOf(layer)], kcache'[layer], pick)
    /\ layer' = layer + 1
    /\ UNCHANGED <<mode, ctx, table, batch, rows>>

--------------------------------------------------------------------------------
(* End of a step, and what happens between steps. *)

\* Verification keeps the first token of a decode and some of its drafts.
Kept(i) == IF ctx[batch[i].req] < Prompt[batch[i].req] THEN {batch[i].n} ELSE 1 .. batch[i].n

EndStep ==
    /\ batch # <<>> /\ layer = NumLayers /\ ~failed
    /\ \E kept \in [DOMAIN batch -> UNION {Kept(i) : i \in DOMAIN batch}] :
         /\ \A i \in DOMAIN batch : kept[i] \in Kept(i)
         /\ LET after(r) == LET i == CHOOSE j \in DOMAIN batch : batch[j].req = r
                            IN  ctx[r] + kept[i]
                ran == {batch[i].req : i \in DOMAIN batch}
                done == {r \in ran : after(r) = MaxLen[r]}
            IN  /\ ctx' = [r \in Requests |-> IF r \in done THEN -1
                                              ELSE IF r \in ran THEN after(r) ELSE ctx[r]]
                /\ table' = [r \in Requests |-> IF r \in done THEN <<>> ELSE table[r]]
    /\ batch' = <<>> /\ rows' = <<>> /\ out' = <<>> /\ layer' = 0
    /\ UNCHANGED <<mode, icache, kcache, buffer, failed>>

\* When another request finds no blocks, r is preempted.  It does not come back:
\* what it would compute is like a new request.
Preempt(r) ==
    /\ batch = <<>> /\ ~failed
    /\ ctx[r] > 0
    /\ \E q \in Live \ {r} : \E n \in Shares(q) :
          Len(Extend(table, q, ctx[q] + n)[q]) * KVBlock < ctx[q] + n
    /\ ctx' = [ctx EXCEPT ![r] = -1]
    /\ table' = [table EXCEPT ![r] = <<>>]
    /\ UNCHANGED <<mode, icache, kcache, buffer, batch, rows, layer, out, failed>>

Next == BeginStep \/ RunLayer \/ EndStep \/ \E r \in Requests : Preempt(r)

Spec == Init /\ [][Next]_vars

--------------------------------------------------------------------------------
(* Properties *)

\* The best TopK positions of 0 .. pos by the scores of the last full layer.
Best(l, pos) ==
    LET score == Score[Max({f \in FullLayers : f <= l})]
        better(p) == {q \in 0 .. pos : score[q] > score[p]}
    IN  IF pos < TopK THEN 0 .. pos ELSE {p \in 0 .. pos : Cardinality(better(p)) < TopK}

\* Whatever kernels, caches and chunks a layer uses, each query of the step weighs
\* each of the best keys of its own request, up to its own position, exactly once,
\* and every column of the result is made of its own quarter of the values.
AttendsBest ==
    layer > 0 /\ ~failed =>
        \A t \in DOMAIN rows :
            LET best == {<<batch[rows[t].i].req, p>> : p \in Best(layer - 1, rows[t].pos)}
            IN  /\ out[t].keys = best /\ out[t].count = Cardinality(best)
                /\ ~out[t].nan
                /\ out[t].scores = <<0, 1, 2, 3>> /\ out[t].columns = <<0, 1, 2, 3>>

\* A step fails only where the indexer's decode kernel is given more than one token of a
\* request: no logits view is beyond its buffer, no launch of the attention is refused.
OnlyLongDecodesFail == failed => \E i \in IndexDecodes : batch[i].n > 1

\* What the comment in sparse_attn_indexer says of decodes, that the branch is for up to
\* 1 + speculative tokens of a request, would make true: no step fails.
NothingFails == ~failed

\* Between steps every request has room for a token.
ContextsFit == ctx \in [Requests -> Int] /\ \A r \in Requests : ctx[r] \in -1 .. MaxLen[r] - 1

\* The lengths of a batch are those its requests will have, which they may have.
LengthsFit ==
    /\ batch \in Seq([req : Requests, n : Nat \ {0}, len : Nat])
    /\ \A i \in DOMAIN batch :
          /\ batch[i].len = ctx[batch[i].req] + batch[i].n
          /\ batch[i].n <= batch[i].len /\ batch[i].len <= MaxLen[batch[i].req]

\* A request of the batch has a row, so that no part of a batch is without rows.
RowsCover ==
    /\ Len(rows) \in Nat /\ DOMAIN rows = 1 .. Len(rows)
    /\ \A i \in DOMAIN batch : \E t \in DOMAIN rows : rows[t].i = i

\* Inductive: what a forward needs of the batch for its layers to fail nowhere else.
ForwardInv ==
    mode \in Modes /\ OnlyLongDecodesFail /\ ContextsFit /\ LengthsFit /\ RowsCover
================================================================================
