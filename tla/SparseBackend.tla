----------------------------- MODULE SparseBackend -----------------------------
(***************************************************************************)
(* MiniMaxSparseAttnBackend (minimax_sparse_backend.py of the EAGLE3       *)
(* patches): eager prefill, decode and EAGLE3 verification of a batch, and *)
(* the same decode and verification recorded in CUDA graphs and replayed.  *)
(*                                                                         *)
(* A graph freezes what Python computed while it was recorded: the shape   *)
(* of the score buffer, the number of rows, the launch grid.  What it      *)
(* reads through a tensor of fixed address it reads again at each replay.  *)
(* The graph runner around the backend is sglang's: it pads a batch to a   *)
(* recorded size with requests of length get_cuda_graph_seq_len_fill_value.*)
(*                                                                         *)
(* keyof[r] are the index scores of the tokens of request r; the tokens    *)
(* that verification rejects have other scores, Rejected.                  *)
(***************************************************************************)
EXTENDS SparseAttention

CONSTANTS
    Requests,            \* request ids
    Rejected,            \* score of a rejected draft token
    Configs              \* deployments to choose from, see ConfigAssumption

\* drafts: speculative_num_draft_tokens, 0 without EAGLE3; graphs: the batch sizes that
\* are recorded; keys: the possible keyof; batch: the most requests of a step;
\* chunk: the most tokens of a prefill.  The rows of decode's top-k have no room for more
\* than topk entries, which its kernel does not ask.
ASSUME ConfigAssumption ==
    /\ Rejected \in Nat
    /\ \A c \in Configs :
          /\ {c.block, c.tile, c.qtile, c.lanes, c.topk, c.grid, c.most, c.context,
            c.batch, c.chunk}
                \subseteq Nat \ {0}
          /\ {c.init, c.local, c.drafts} \subseteq Nat
          /\ c.tile % c.block = 0
          /\ c.init + c.local <= c.topk
          /\ c.lanes > PowerOfTwo(c.topk)
          /\ c.drafts = 0 => PowerOfTwo(c.topk) = c.topk
          /\ c.graphs \subseteq Nat \ {0} /\ IsFiniteSet(c.graphs)
          /\ \A keys \in c.keys :
                /\ DOMAIN keys \subseteq Requests
                /\ \A r \in DOMAIN keys : DOMAIN keys[r] = 0 .. c.context + c.drafts - 1

VARIABLES
    cfg,                 \* the deployment
    keyof,               \* the index scores of each request's own tokens
    len,                 \* len[r]: tokens of r whose keys are accepted
    cache,               \* cache[r][p]: the score of the key stored at position p
    buffers,             \* None, or the three _verify_*_buf
    graphs,              \* what was frozen in the graph of each recorded size
    out,                 \* what the last forward computed, one record for a query
    failed               \* a forward has raised an exception

vars == <<cfg, keyof, len, cache, buffers, graphs, out, failed>>

None == [none |-> TRUE]
Fill == 1                \* get_cuda_graph_seq_len_fill_value

\* max_seqblock_k_upper of __init__.
UpperBlocks == Blocks(cfg, cfg.context + (IF cfg.drafts > 0 THEN cfg.drafts ELSE 8))

Init ==
    /\ cfg \in Configs
    /\ keyof \in cfg.keys
    /\ len = [r \in Requests |-> 0]
    /\ cache = [r \in Requests |-> <<>>]
    /\ buffers = None
    /\ graphs = <<>>
    /\ out = {}
    /\ failed = FALSE

--------------------------------------------------------------------------------
(* The batch: a sequence of requests, padded with 0 in a graph. *)

Batches(n) == {b \in UNION {[1 .. k -> DOMAIN keyof] : k \in 1 .. n} : IsInjective(b)}

Running == {r \in Requests : len[r] > 0}

\* Mutant of Stored: what is there already stays.
StoredFresh(r, from, new) ==
    [p \in DOMAIN cache[r] \cup from .. from + Len(new) - 1 |->
       IF p \notin DOMAIN cache[r] THEN new[p - from + 1] ELSE cache[r][p]]

\* set_index_kv_buffer: keys of positions from .. from + Len(new) - 1.
Stored(r, from, new) ==
    [p \in DOMAIN cache[r] \cup from .. from + Len(new) - 1 |->
       IF p >= from /\ p < from + Len(new) THEN new[p - from + 1] ELSE cache[r][p]]

OwnKeys(r, from, n) == [i \in 1 .. n |-> keyof[r][from + i - 1]]

\* The keys a query sees through req_to_token; what nobody stored scores Rejected.
KeysOf(stored) ==
    [p \in 0 .. cfg.context + cfg.drafts - 1 |-> IF p \in DOMAIN stored THEN stored[p] ELSE Rejected]

--------------------------------------------------------------------------------
\* init_cuda_graph_state: zeroed buffers for the largest recorded batch.
InitGraphState ==
    /\ buffers = None /\ cfg.graphs # {} /\ out = {} /\ Running = {}
    /\ buffers' = [size |-> Max(cfg.graphs),
                   ext |-> [i \in 1 .. Max(cfg.graphs) |-> 0],
                   cu |-> [i \in 1 .. Max(cfg.graphs) + 1 |-> 0],
                   seq |-> [i \in 1 .. Max(cfg.graphs) |-> 0]]
    /\ UNCHANGED <<cfg, keyof, len, cache, graphs, out, failed>>

\* The first bs elements of a buffer are written, the others stay.
Overwrite(buf, new) == [i \in DOMAIN buf |-> IF i \in DOMAIN new THEN new[i] ELSE buf[i]]

\* The three assignments of init_forward_metadata_{capture,replay}_cuda_graph.
FillBuffers(bs, prefixes) ==
    [buffers EXCEPT
       !.ext = Overwrite(@, [i \in 1 .. bs |-> cfg.drafts]),
       !.cu = Overwrite(@, [i \in 1 .. bs + 1 |-> (i - 1) * cfg.drafts]),
       !.seq = Overwrite(@, [i \in 1 .. bs |-> prefixes[i] + cfg.drafts])]

\* Mutant of ScoreWidth: from the lengths of the moment, as before the fix.
ScoreWidthLive(maxlen) == Blocks(cfg, maxlen)

\* score_max_seqblock_k of flash_prefill_with_topk_index, and of its verify copy.
ScoreWidth(maxlen) == UpperBlocks

\* Recording the graph of batch size bs: lengths are the fill value.
Capture(bs) ==
    /\ buffers # None /\ bs \in cfg.graphs \ DOMAIN graphs /\ Running = {}
    /\ \A b \in cfg.graphs : b > bs => b \in DOMAIN graphs
    /\ buffers' = IF cfg.drafts > 0 THEN FillBuffers(bs, [i \in 1 .. bs |-> Fill])
                  ELSE buffers
    /\ graphs' = [b \in DOMAIN graphs \cup {bs} |->
                    IF b # bs THEN graphs[b]
                    ELSE [width |-> ScoreWidth(Fill + cfg.drafts),
                          rows |-> AllRows([i \in 1 .. bs |-> cfg.drafts], cfg.drafts, TRUE)]]
    /\ UNCHANGED <<cfg, keyof, len, cache, out, failed>>

Ready == DOMAIN graphs = cfg.graphs /\ ~failed

--------------------------------------------------------------------------------
(* What a forward computes for one query of request r at position pos. *)

Query(r, pos, row, index, main, line, lines, width, columns, entries) ==
    [req |-> r, pos |-> pos, row |-> row, index |-> index, main |-> main,
     line |-> line, lines |-> lines, width |-> width, columns |-> columns,
     entries |-> entries]

\* minimax_sparse_decode for row i of bs, with n tokens.
DecodeQuery(r, stored, i, n, bs) ==
    LET row == DecodeRow(cfg, KeysOf(stored), n, bs)
    IN  Query(r, n - 1, row, IndexDecode(cfg, n, Chunks(cfg, cfg.most, bs)),
              SparseDecode(cfg, row, n, bs), i - 1, bs,
              Blocks(cfg, cfg.context), 0 .. Blocks(cfg, n) - 1, MergeStores(cfg))

\* minimax_sparse_prefill for new token q behind the prefix.
PrefillQuery(r, stored, prefix, q, n, line, lines, width) ==
    LET row == PrefillRow(cfg, KeysOf(stored), prefix, q, n)
    IN  Query(r, prefix + q, row, IndexPrefill(cfg, prefix, q, n),
              SparsePrefill(cfg, row, prefix, q, n), line, lines, width,
              ScoreColumns(cfg, prefix, q, n), PrefillStores(cfg))

\* minimax_sparse_verify_prefill: n is what the buffer of lengths holds.
VerifyQuery(r, stored, prefix, q, n, line, lines, width) ==
    LET row == VerifyRow(cfg, KeysOf(stored), prefix, q, n)
    IN  Query(r, prefix + q, row, IndexVerify(cfg, prefix, q, n),
              SparseVerify(cfg, row, prefix, q, n, UpperBlocks), line, lines, width,
              ScoreColumns(cfg, prefix, q, n), PrefillStores(cfg))

--------------------------------------------------------------------------------
\* Prefill of some more tokens of each request of a batch, always eagerly:
\* init_forward_metadata and the ordinary branch of forward_extend.
Extend(batch, news) ==
    LET total(i) == len[batch[i]] + news[i]
        stored(i) == Stored(batch[i], len[batch[i]],
                            OwnKeys(batch[i], len[batch[i]], news[i]))
        longest == Max({total(i) : i \in DOMAIN batch})
        lines == AllRows(news, Max(Range(news)), FALSE)
    IN  /\ Ready
        /\ \A i \in DOMAIN batch : total(i) <= cfg.context
        /\ cache' = [r \in Requests |->
                       IF r \in Range(batch)
                       THEN stored(CHOOSE i \in DOMAIN batch : batch[i] = r) ELSE cache[r]]
        /\ len' = [r \in Requests |->
                     IF r \in Range(batch)
                     THEN total(CHOOSE i \in DOMAIN batch : batch[i] = r) ELSE len[r]]
        /\ out' = UNION {{PrefillQuery(batch[i], stored(i), len[batch[i]], q, total(i),
                                       FirstRow(news, i) + q, lines, ScoreWidth(longest))
                            : q \in 0 .. news[i] - 1} : i \in DOMAIN batch}
        /\ UNCHANGED <<cfg, keyof, buffers, graphs, failed>>

\* The graph that a batch of n requests is padded to; 0 runs it eagerly.
PaddedSize(n) ==
    IF \E b \in DOMAIN graphs : b >= n THEN Min({b \in DOMAIN graphs : b >= n}) ELSE 0

\* One token for each request: forward_decode, eagerly or replayed.  The launch grid is
\* that of the padded batch.
Decode(batch) ==
    LET bs == IF PaddedSize(Len(batch)) = 0 THEN Len(batch) ELSE PaddedSize(Len(batch))
        stored(r) == Stored(r, len[r], OwnKeys(r, len[r], 1))
    IN  /\ Ready /\ cfg.drafts = 0 /\ Range(batch) \subseteq Running
        /\ \A r \in Range(batch) : len[r] < cfg.context
        /\ cache' = [r \in Requests |-> IF r \in Range(batch) THEN stored(r) ELSE cache[r]]
        /\ len' = [r \in Requests |-> IF r \in Range(batch) THEN len[r] + 1 ELSE len[r]]
        /\ out' = {DecodeQuery(batch[i], stored(batch[i]), i, len[batch[i]] + 1, bs)
                     : i \in DOMAIN batch}
        /\ UNCHANGED <<cfg, keyof, buffers, graphs, failed>>

\* _forward_verify of drafts tokens for each request, of which taken[i] are accepted;
\* the lengths come from the buffer if there is one, else from temporaries.
Verify(batch, taken) ==
    LET size == PaddedSize(Len(batch))
        prefixes == [i \in 1 .. size |-> IF i <= Len(batch) THEN len[batch[i]] ELSE Fill]
        filled == IF size = 0 THEN buffers ELSE FillBuffers(size, prefixes)
        length(i) == IF size = 0 THEN len[batch[i]] + cfg.drafts ELSE filled.seq[i]
        width == IF size = 0 THEN ScoreWidth(Max({length(i) : i \in DOMAIN batch}))
                 ELSE graphs[size].width
        lines == IF size = 0 THEN Len(batch) * cfg.drafts ELSE graphs[size].rows
        first(i) == IF size = 0 THEN (i - 1) * cfg.drafts ELSE filled.cu[i]
        drafted(i) == [j \in 1 .. cfg.drafts |->
                         IF j <= taken[i] THEN keyof[batch[i]][len[batch[i]] + j - 1]
                         ELSE Rejected]
        stored(i) == Stored(batch[i], len[batch[i]], drafted(i))
        index(r) == CHOOSE i \in DOMAIN batch : batch[i] = r
    IN  /\ Ready /\ cfg.drafts > 0 /\ Range(batch) \subseteq Running
        /\ size = 0 => buffers = None
        /\ \A r \in Range(batch) : len[r] <= cfg.context
        /\ buffers' = filled
        /\ cache' = [r \in Requests |->
                       IF r \in Range(batch) THEN stored(index(r)) ELSE cache[r]]
        /\ len' = [r \in Requests |->
                     IF r \in Range(batch) THEN len[r] + taken[index(r)] ELSE len[r]]
        /\ out' = UNION {{VerifyQuery(batch[i], stored(i), len[batch[i]], q, length(i),
                                      first(i) + q, lines, width)
                            : q \in 0 .. cfg.drafts - 1} : i \in DOMAIN batch}
        /\ UNCHANGED <<cfg, keyof, graphs, failed>>

\* The same with more requests than the buffers hold: the slices of the buffers are
\* shorter than the batch and their sum with the prefix lengths is refused.
VerifyOverflows(batch) ==
    /\ Ready /\ cfg.drafts > 0 /\ Range(batch) \subseteq Running
    /\ PaddedSize(Len(batch)) = 0 /\ buffers # None
    /\ \A r \in Range(batch) : len[r] <= cfg.context
    /\ failed' = TRUE
    /\ out' = {}
    /\ cache' = [r \in Requests |->
                   IF r \in Range(batch)
                   THEN Stored(r, len[r], OwnKeys(r, len[r], cfg.drafts)) ELSE cache[r]]
    /\ UNCHANGED <<cfg, keyof, len, buffers, graphs>>

\* A request ends; another one takes its row of req_to_token.
Finish(r) ==
    /\ Ready /\ r \in Running
    /\ len' = [len EXCEPT ![r] = 0]
    /\ cache' = [cache EXCEPT ![r] = <<>>]
    /\ out' = {}
    /\ UNCHANGED <<cfg, keyof, buffers, graphs, failed>>

Next ==
    \/ InitGraphState
    \/ \E bs \in cfg.graphs : Capture(bs)
    \/ \E r \in Requests : Finish(r)
    \/ \E batch \in Batches(cfg.batch) : \E news \in [DOMAIN batch -> 1 .. cfg.chunk] :
         Extend(batch, news)
    \/ \E batch \in Batches(cfg.batch) : Decode(batch)
    \/ \E batch \in Batches(cfg.batch) : \E taken \in [DOMAIN batch -> 1 .. cfg.drafts] :
         Verify(batch, taken)
    \/ \E batch \in Batches(cfg.batch) : VerifyOverflows(batch)

Spec == Init /\ [][Next]_vars

--------------------------------------------------------------------------------
(* Correctness. *)

Positions(attention) == {tp[2] : tp \in attention}

\* Whatever path ran, the index head attended to every token up to the query's own and
\* to no other, each in one loop iteration, and the merge read no partial output that
\* no chunk wrote.
IndexAttendsAll ==
    \A o \in out : /\ Positions(o.index) = 0 .. o.pos
                   /\ Cardinality(o.index) = o.pos + 1

\* The main head attended to the tokens of the selected blocks, up to the query's own,
\* each once: no selected block is lost between the chunks, none is counted twice.
AttendsChosenOnce ==
    \A o \in out :
        /\ Positions(o.main) = {p \in 0 .. o.pos : p \div cfg.block \in Range(o.row)}
        /\ Cardinality(o.main) = Cardinality(Positions(o.main))

\* Both heads attend to exactly what they should.
AttendsExactly == IndexAttendsAll /\ AttendsChosenOnce

\* Blocks the query may see, and the score each deserves.
Visible(o) == 0 .. o.pos \div cfg.block
Deserved(o, b) ==
    CASE b > (o.pos \div cfg.block) - cfg.local -> ForcedLocal
      [] b <= (o.pos \div cfg.block) - cfg.local /\ b < cfg.init -> ForcedInit
      [] OTHER -> Max({cache[o.req][p] : p \in {x \in 0 .. o.pos : x \div cfg.block = b}})

\* The two-stage selection of decode and the running one of prefill and verify select
\* different visible blocks, as many as there are up to topk, and none that is worse
\* than one left out.
ChoiceIsTopk ==
    \A o \in out :
        LET chosen == {t \in DOMAIN o.row : o.row[t] # -1}
            blocks == {o.row[t] : t \in chosen}
        IN  /\ chosen = 0 .. Least(cfg.topk, Cardinality(Visible(o))) - 1
            /\ Cardinality(blocks) = Cardinality(chosen)
            /\ blocks \subseteq Visible(o)
            /\ \A b \in blocks, d \in Visible(o) \ blocks : Deserved(o, b) >= Deserved(o, d)

\* Every query writes a row of scores and a row of blocks of its own, inside the buffers,
\* whose shape may have been frozen while a graph was recorded with other lengths.
StoresInBounds ==
    /\ \A o \in out : /\ o.line < o.lines /\ \A x \in o.columns : x < o.width
                      /\ o.entries \subseteq 0 .. cfg.topk - 1
    /\ \A o, q \in out : o.line = q.line => o = q

\* The key of a rejected draft is overwritten before its position counts as accepted.
RejectedKeysGone ==
    \A r \in Requests : \A p \in 0 .. len[r] - 1 :
        p \in DOMAIN cache[r] /\ cache[r][p] = keyof[r][p]

\* What a forward finds: lengths of the requests, buffers for the largest recorded
\* batch, and graphs of recorded sizes that hold the bounds of any length.
LengthsFit == len \in [Requests -> Nat] /\ DOMAIN cache = Requests

BuffersFit ==
    buffers # None =>
        buffers \in [size : {Max(cfg.graphs)}, ext : [1 .. Max(cfg.graphs) -> Nat],
                     cu : [1 .. Max(cfg.graphs) + 1 -> Nat], seq : [1 .. Max(cfg.graphs) -> Nat]]

GraphsFit ==
    /\ DOMAIN graphs \subseteq cfg.graphs
    /\ DOMAIN graphs # {} => buffers # None
    /\ \A b \in DOMAIN graphs :
          graphs[b].width = UpperBlocks /\ graphs[b].rows = b * cfg.drafts

\* Inductive: what every forward needs to store and attend as it should.
BackendInv ==
    /\ cfg \in Configs /\ keyof \in cfg.keys
    /\ LengthsFit /\ BuffersFit /\ GraphsFit
    /\ RejectedKeysGone

================================================================================
