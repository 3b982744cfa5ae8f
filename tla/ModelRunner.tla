------------------------------- MODULE ModelRunner -------------------------------
(***************************************************************************)
(* The V2 model runner of a worker (v1/worker/gpu/model_runner.py), its    *)
(* CUDA graphs (cudagraph_utils.py) and the DSpark speculator              *)
(* (spec_decode/dspark/speculator.py), driven by the outputs of a          *)
(* scheduler.                                                              *)
(*                                                                         *)
(* The worker keeps its own copy of what it needs of each request, in a    *)
(* slot: how many tokens are computed, the last token, the drafts, the     *)
(* block table.  Nothing of it is sent again after the request was added,  *)
(* so it must follow the scheduler's by itself through rejected drafts,    *)
(* preemptions and slots that change hands.                                *)
(*                                                                         *)
(* The p-th token of request r is <<r, p>>, counted from 0: what is        *)
(* followed is which token a buffer holds, not its value.  A draft is a    *)
(* guess at such a token, right (a hit) or not.  The engine's side is      *)
(* reduced to what reaches the worker; Scheduler and KVTransfer model it.  *)
(***************************************************************************)
EXTENDS Integers, FiniteSets, FiniteSetsExt, Functions, Sequences, SequencesExt

CONSTANTS
    Requests,        \* request ids, each used once
    NoRequest,       \* not a request id
    PromptLen,       \* [Requests -> Nat \ {0}]
    MaxTokens,       \* [Requests -> Nat \ {0}], outputs after which a request ends
    MaxNumReqs,      \* max_num_seqs: slots of the worker
    MaxNumTokens,    \* max_num_batched_tokens
    MaxModelLen,
    BlockSize,
    NumBlocks,
    CaptureSizes,    \* cudagraph_capture_sizes
    Configs          \* deployments to choose from, see ConfigAssumption

GraphModes == {"NONE", "PIECEWISE", "FULL", "FULL_DECODE_ONLY"}

\* spec: num_speculative_tokens, 0 without a speculator; async: the next output is
\* made before the last answer is there, which the configuration refuses with DSpark;
\* aborts: clients abort requests; chunk: new tokens of a request per step at most;
\* cut: what the token budget may cut short; preemptions: bound on those; mode:
\* cudagraph_mode; clients: requests that arrive; hits: right drafts a proposal may
\* begin with.
ASSUME ConfigAssumption ==
    /\ NoRequest \notin Requests
    /\ IsFiniteSet(Requests)
    /\ PromptLen \in [Requests -> Nat \ {0}] /\ MaxTokens \in [Requests -> Nat \ {0}]
    /\ MaxNumReqs \in Nat \ {0} /\ MaxNumTokens \in Nat /\ MaxNumReqs <= MaxNumTokens
    /\ MaxModelLen \in Nat /\ NumBlocks \in Nat /\ BlockSize \in Nat \ {0}
    /\ CaptureSizes \subseteq Nat \ {0}
    /\ Configs \subseteq [spec : Nat, async : BOOLEAN, aborts : BOOLEAN, chunk : Nat \ {0},
                          cut : {"any", "drafts", "nothing"}, preemptions : Nat,
                          mode : GraphModes, clients : SUBSET Requests,
                          hits : SUBSET Nat]
    /\ \A c \in Configs : c.async => c.spec = 0

VARIABLES
    cfg,
    stage,           \* "capture" until the graphs are there, then "serve"
    graphs,          \* sizes the runner's manager has captured
    hidden_states,   \* rows of its output buffer, 0 before it is allocated
    draft_graphs,    \* sizes the speculator's manager has captured
    eng,             \* the engine's requests
    told,            \* finished requests the worker has been told of
    turn,            \* "schedule", or "drafts" when the engine owes take_draft_token_ids
    preemptions,
    outputs,         \* scheduler outputs the worker has not executed
    answers,         \* answers the engine has not read
    slot,            \* req_id_to_index, 0 if the worker does not have the request
    st,              \* the slots: req_states and the block tables
    exec,            \* execute_model_state: the rows of the batch, <<>> if None
    last_draft,      \* _last_draft_req_ids and _last_draft_idx_mapping
    rows,            \* the speculator's persistent buffers, row by row
    draft_kv         \* the draft's KV cache

graphVars == <<stage, graphs, hidden_states, draft_graphs>>
engineVars == <<eng, told, turn, preemptions>>
workerVars == <<slot, st, exec, last_draft, rows, draft_kv>>
vars == <<cfg, graphVars, engineVars, outputs, answers, workerVars>>

--------------------------------------------------------------------------------
Slots == 1 .. MaxNumReqs
Blocks == 1 .. NumBlocks
NoToken == <<NoRequest, 0>>
NoDraft == [r |-> NoRequest, pos |-> 0, hits |-> 0]

Least(a, b) == IF a <= b THEN a ELSE b
Most(a, b) == IF a >= b THEN a ELSE b
\* The n smallest members of S.
Ascending(S, n) == [k \in 1 .. n |-> CHOOSE x \in S : Cardinality({y \in S : y < x}) = k - 1]
CeilDiv(a, b) == (a + b - 1) \div b

NewRequest(r) ==
    [status |-> "none", tokens |-> PromptLen[r], computed |-> 0, placeholders |-> 0,
     spec |-> 0, blocks |-> <<>>]

EmptySlot ==
    [prefill |-> 0, computed |-> 0, last |-> NoToken, next |-> NoToken,
     draft |-> NoDraft, blocks |-> <<>>]

EmptyRow == [len |-> 0, draft_len |-> 0, map |-> 0, slots |-> {}]

--------------------------------------------------------------------------------
(* CUDA graphs *)

UpperBound == IF cfg.mode = "FULL_DECODE_ONLY" THEN MaxNumReqs ELSE MaxNumTokens

\* get_cudagraph_sizes: the sizes the runner captures.
GraphSizes ==
    IF cfg.mode \in {"FULL", "FULL_DECODE_ONLY"}
    THEN {x \in CaptureSizes : x <= UpperBound} ELSE {}

\* The size a batch of n is padded to, 0 if no graph is large enough.
Padded(n, sizes) ==
    IF \E x \in sizes : n <= x THEN Min({x \in sizes : n <= x}) ELSE 0

\* get_cudagraph_size: a batch with more than one token of a request is mixed, and
\* FULL_DECODE_ONLY has no graph for those.
GraphSize(total, mixed) ==
    IF mixed /\ cfg.mode # "FULL" THEN 0 ELSE Padded(total, GraphSizes)

\* Sizes of the draft step, in requests: powers of two, and max_num_reqs.
DraftGraphSizes ==
    IF cfg.mode = "NONE" \/ cfg.spec = 0 THEN {}
    ELSE {s \in Slots : \E i \in 0 .. MaxNumReqs : s = 2 ^ i} \cup {MaxNumReqs}

\* Mutant of NextToCapture: the smallest graph is captured first.
NextToCaptureAscending(sizes, done) == Min(sizes \ done)

\* capture_graphs: larger graphs first.
NextToCapture(sizes, done) == Max(sizes \ done)

\* The first graph allocates the buffer all of them write their output into.
CaptureGraph ==
    /\ stage = "capture" /\ GraphSizes \ graphs # {}
    /\ LET size == NextToCapture(GraphSizes, graphs)
       IN  /\ graphs' = graphs \cup {size}
           /\ hidden_states' = IF hidden_states = 0 THEN size ELSE hidden_states
    /\ UNCHANGED <<cfg, stage, draft_graphs, engineVars, outputs, answers, workerVars>>

\* The speculator's turn comes only if the runner has graphs to capture.  A draft of
\* one token is not captured.  The capture leaves its lengths in the buffers.
CaptureDraftGraph ==
    /\ stage = "capture" /\ GraphSizes # {} /\ GraphSizes \subseteq graphs
    /\ cfg.spec > 1 /\ DraftGraphSizes \ draft_graphs # {}
    /\ LET size == NextToCapture(DraftGraphSizes, draft_graphs)
       IN  /\ draft_graphs' = draft_graphs \cup {size}
           /\ rows' = [i \in Slots |->
                 IF i <= size
                 THEN [rows[i] EXCEPT !.len = cfg.spec,
                                      !.draft_len = Least(2 * cfg.spec, MaxModelLen)]
                 ELSE [rows[i] EXCEPT !.len = 0]]
    /\ UNCHANGED <<cfg, stage, graphs, hidden_states, engineVars, outputs, answers, slot,
                   st, exec, last_draft, draft_kv>>

CaptureDone ==
    /\ stage = "capture"
    /\ GraphSizes \subseteq graphs
    /\ GraphSizes = {} \/ cfg.spec <= 1 \/ DraftGraphSizes \subseteq draft_graphs
    /\ stage' = "serve"
    /\ UNCHANGED <<cfg, graphs, hidden_states, draft_graphs, engineVars, outputs, answers,
                   workerVars>>

--------------------------------------------------------------------------------
(* The engine: what the scheduler's outputs can be *)

Free == Blocks \ UNION {Range(eng[r].blocks) : r \in Requests}

\* Tokens schedule() would compute of r next, and the drafts among n of them.
NewTokens(r) ==
    IF eng[r].status = "running"
    THEN Least(eng[r].tokens + eng[r].placeholders + eng[r].spec - eng[r].computed, cfg.chunk)
    ELSE Least(eng[r].tokens, cfg.chunk)

Drafts(r, n) ==
    Most(0, Least(eng[r].spec, n + eng[r].computed - eng[r].tokens - eng[r].placeholders))

\* The token that ends the request may be on its way.
AheadOfOutput(r) ==
    /\ eng[r].placeholders > 0
    /\ eng[r].computed + 2 - eng[r].placeholders >= PromptLen[r] + MaxTokens[r]

Missing(r, n) == Most(0, CeilDiv(eng[r].computed + n, BlockSize) - Len(eng[r].blocks))

Total(f) == FoldFunctionOnSet(+, 0, f, DOMAIN f)
TotalMissing(num) == Total([r \in {r \in Requests : num[r] > 0} |-> Missing(r, num[r])])

\* Free blocks for the requests of a step, which take them one after the other.
NewBlocks(num) ==
    LET scheduled == {r \in Requests : num[r] > 0}
        order == SetToSeq(scheduled)
        free == Ascending(Free, TotalMissing(num))
        earlier(r) == {s \in scheduled : \E i, j \in DOMAIN order :
                          i < j /\ order[i] = s /\ order[j] = r}
        before(r) == Total([s \in earlier(r) |-> Missing(s, num[s])])
    IN  [r \in scheduled |-> [k \in 1 .. Missing(r, num[r]) |-> free[before(r) + k]]]

\* The request has an answer coming: with async scheduling, a placeholder for it.
Samples(r, n) == eng[r].computed + n >= eng[r].tokens + eng[r].placeholders

\* By how much a step may cut a request short.
CutTokens == CASE cfg.cut = "nothing" -> 0 [] cfg.cut = "drafts" -> cfg.spec
               [] cfg.cut = "any" -> cfg.chunk - 1

Running == {r \in Requests : eng[r].status = "running"}

\* An output of schedule(): `preempted` lose their slots and blocks, the requests
\* with num[r] > 0 run; nobody is admitted in a step that preempts.  A resumed
\* request comes as a new one, with all of its tokens as a prefill.
Appended(preempted, scheduled, short) ==
    LET finished == {r \in Requests : eng[r].status = "finished"} \ told
        num == [r \in Requests |-> IF r \in scheduled THEN NewTokens(r) - short[r] ELSE 0]
        new == scheduled \ Running
        blocks == NewBlocks(num)
        table(r) == eng[r].blocks \o blocks[r]
    IN  /\ \A r \in scheduled : short[r] < NewTokens(r) /\ ~AheadOfOutput(r)
        /\ new # {} => preempted = {}
        /\ Cardinality(Running \ preempted) + Cardinality(new) <= MaxNumReqs
        /\ cfg.cut # "any" => \A r \in new : short[r] = 0
        /\ cfg.cut = "nothing" => Running \ preempted \subseteq scheduled
        /\ scheduled \cup finished \cup preempted # {}
        /\ Total(num) <= MaxNumTokens
        /\ TotalMissing(num) <= Cardinality(Free)
        /\ outputs' = Append(outputs,
             [finished |-> finished, preempted |-> preempted, new |-> new, num |-> num,
              drafts |-> [r \in Requests |-> IF r \in scheduled THEN Drafts(r, num[r]) ELSE 0],
              computed |-> [r \in scheduled |-> eng[r].computed],
              tokens |-> [r \in new |-> eng[r].tokens],
              blocks |-> blocks,
              table |-> [r \in scheduled |-> table(r)]])
        /\ told' = told \cup finished
        /\ eng' = [r \in Requests |->
             IF r \in preempted
             THEN [eng[r] EXCEPT !.status = "preempted", !.computed = 0, !.spec = 0,
                                 !.blocks = <<>>]
             ELSE IF r \in scheduled
             THEN [eng[r] EXCEPT !.status = "running", !.computed = @ + num[r], !.spec = 0,
                                 !.blocks = table(r),
                                 !.placeholders = IF cfg.async /\ Samples(r, num[r])
                                                  THEN @ + 1 ELSE @]
             ELSE eng[r]]

Schedule ==
    /\ stage = "serve" /\ turn = "schedule"
    /\ Len(outputs) + Len(answers) + (IF exec = <<>> THEN 0 ELSE 1)
          < IF cfg.async THEN 2 ELSE 1
    /\ \E preempted \in SUBSET Running :
          /\ preemptions + Cardinality(preempted) <= cfg.preemptions
          /\ preemptions' = preemptions + Cardinality(preempted)
          /\ \E scheduled \in SUBSET ((Running \ preempted) \cup
                                {r \in cfg.clients : eng[r].status \in {"none", "preempted"}}) :
             \E short \in [scheduled -> 0 .. CutTokens] : Appended(preempted, scheduled, short)
    /\ UNCHANGED <<cfg, graphVars, turn, answers, workerVars>>

\* A request and its answer: rejected drafts are not computed after all; the tokens are
\* appended up to the limit, which ends the request.
Updated(q, r, answer) ==
    LET limit == PromptLen[r] + MaxTokens[r]
        kept == Least(answer.sampled, limit - q.tokens)
        p == [q EXCEPT !.tokens = @ + kept, !.computed = Most(0, @ - answer.rejected),
                       !.placeholders = IF cfg.async THEN @ - kept ELSE @]
    IN  IF p.tokens = limit THEN [p EXCEPT !.status = "finished", !.blocks = <<>>] ELSE p

\* update_from_output.  Without async scheduling take_draft_token_ids follows.
Update ==
    /\ answers # <<>> /\ turn = "schedule"
    /\ LET generated == Head(answers)
       IN  /\ eng' = [r \in Requests |->
                 IF r \in DOMAIN generated /\ eng[r].status \notin {"none", "finished"}
                 THEN Updated(eng[r], r, generated[r]) ELSE eng[r]]
           /\ turn' = IF cfg.spec > 0 /\ DOMAIN generated # {} THEN "drafts" ELSE turn
    /\ answers' = Tail(answers)
    /\ UNCHANGED <<cfg, graphVars, told, preemptions, outputs, workerVars>>

\* finish_requests: a client aborts.
Abort(r) ==
    /\ turn = "schedule" /\ r \in cfg.clients
    /\ eng[r].status \in {"running", "preempted"} /\ cfg.aborts
    /\ eng' = [eng EXCEPT ![r].status = "finished", ![r].blocks = <<>>]
    /\ UNCHANGED <<cfg, graphVars, told, turn, preemptions, outputs, answers, workerVars>>

--------------------------------------------------------------------------------
(* The worker: execute_model *)

\* finish_requests: the requests that lose their slots.
Removed(o) == o.finished \cup o.preempted

\* Mutant of WithRequest: new block ids are appended to the slot's old ones.
WithRequestAppending(s, o, r) ==
    [s EXCEPT !.prefill = o.tokens[r], !.computed = 0, !.blocks = @ \o o.blocks[r]]

\* add_requests for one request.  What the slot held of the last token, the next
\* prefill token and the drafts stays.
WithRequest(s, o, r) ==
    [s EXCEPT !.prefill = o.tokens[r], !.computed = 0, !.blocks = o.blocks[r]]

\* update_requests: blocks that were added for a request the worker has.
WithBlocks(s, o, r) == [s EXCEPT !.blocks = @ \o o.blocks[r]]

\* One row of the batch (prepare_inputs).  `first` is the token that is written at
\* the first position logits are taken of, if the row reaches beyond the prefill;
\* the drafts follow it.
BatchRow(s, o, r, i) ==
    [r |-> r, slot |-> i, start |-> s.computed, num |-> o.num[r], drafts |-> o.drafts[r],
     prefill |-> s.prefill, first |-> s.last, guess |-> s.draft, blocks |-> s.blocks,
     expected |-> [computed |-> o.computed[r], table |-> o.table[r]],
     next |-> IF s.computed + o.num[r] < s.prefill
              THEN <<r, s.computed + o.num[r]>> ELSE s.next]

\* Decode first, then prefill.
InBatchOrder(o) ==
    LET scheduled == {r \in Requests : o.num[r] > 0}
    IN  CHOOSE order \in [1 .. Cardinality(scheduled) -> scheduled] :
          /\ IsInjective(order)
          /\ \A i, j \in DOMAIN order : i < j => o.num[order[i]] <= o.num[order[j]]

\* execute_model up to the forward pass: requests leave and enter slots, block
\* tables grow, the batch is prepared.
Execute ==
    /\ outputs # <<>> /\ exec = <<>>
    /\ LET o == Head(outputs)
           kept == [r \in Requests |-> IF r \in Removed(o) THEN 0 ELSE slot[r]]
           order == InBatchOrder(o)
           free == Ascending(Slots \ Range(kept), Cardinality(o.new))
           new == SetToSeq(o.new)
       IN  /\ slot' = [r \in Requests |->
                IF r \in o.new THEN free[CHOOSE n \in DOMAIN new : new[n] = r] ELSE kept[r]]
           /\ st' = [i \in Slots |->
                IF \E r \in o.new : slot'[r] = i
                THEN WithRequest(st[i], o, CHOOSE r \in o.new : slot'[r] = i)
                ELSE IF \E r \in DOMAIN o.blocks : kept[r] = i
                THEN WithBlocks(st[i], o, CHOOSE r \in DOMAIN o.blocks : kept[r] = i)
                ELSE st[i]]
           /\ exec' = [n \in DOMAIN order |->
                BatchRow(st'[slot'[order[n]]], o, order[n], slot'[order[n]])]
           /\ answers' = IF order = <<>> THEN Append(answers, <<>>) ELSE answers
    /\ outputs' = Tail(outputs)
    /\ UNCHANGED <<cfg, graphVars, engineVars, last_draft, rows, draft_kv>>

\* The graph the runner replays for the batch, 0 if it runs the model eagerly.
BatchGraph(b) ==
    GraphSize(Total([n \in DOMAIN b |-> b[n].num]), \E n \in DOMAIN b : b[n].num > 1)

--------------------------------------------------------------------------------
(* The worker: sample_tokens *)

\* A row that ends inside the prefill samples nothing; else the drafts are accepted
\* up to the first wrong one, and one token follows (get_num_sampled_and_rejected).
Chunked(b) == b.start + b.num < b.prefill

Accepted(b) == Least(b.drafts, b.guess.hits)
Sampled(b) == IF Chunked(b) THEN 0 ELSE Accepted(b) + 1
Rejected(b) == IF Chunked(b) THEN 0 ELSE b.drafts - Accepted(b)
ValidEnd(b) == b.start + b.num - Rejected(b)

\* Mutant of AfterStep: rejected drafts count as computed.
AfterStepUnrejected(s, b) ==
    [s EXCEPT !.computed = b.start + b.num, !.next = b.next,
              !.last = IF Sampled(b) > 0 THEN <<b.r, ValidEnd(b)>> ELSE @]

\* Mutant of AfterStep: the last token is the first one sampled.
AfterStepFirst(s, b) ==
    [s EXCEPT !.computed = ValidEnd(b), !.next = b.next,
              !.last = IF Sampled(b) > 0 THEN <<b.r, b.start + b.num - b.drafts>> ELSE @]

\* postprocess
AfterStep(s, b) ==
    [s EXCEPT !.computed = ValidEnd(b), !.next = b.next,
              !.last = IF Sampled(b) > 0 THEN <<b.r, ValidEnd(b)>> ELSE @]

\* The token the draft of a row starts from: in a chunked prefill, the next token of
\* the prompt.
Anchor(s, b) == IF Sampled(b) > 0 THEN s.last ELSE s.next

SlotOf(b, pos) ==
    IF pos \div BlockSize < Len(b.blocks)
    THEN {<<b.blocks[pos \div BlockSize + 1], pos % BlockSize>>} ELSE {}

\* Slots of the query tokens of a row; a position without a block has none.
QuerySlots(b) == UNION {SlotOf(b, ValidEnd(b) + j) : j \in 0 .. cfg.spec - 1}

\* Entries of the target's hidden states are stored up to the last valid token.
ContextEnd(b) == ValidEnd(b)

\* _prepare_dspark_inputs_kernel pads all per-request buffers to max_num_reqs.
PadRow(row) == [row EXCEPT !.len = 0, !.map = 0, !.slots = {}]

\* Mutant of DraftLens: the lengths behind the batch are left alone.
DraftLensUnpadded(row, i, num, padded) ==
    IF i <= num THEN Least(row.len + cfg.spec, MaxModelLen) ELSE row.draft_len

\* _build_draft_attn_metadata: draft_seq_lens of a batch of num padded to `padded`.
DraftLens(row, i, num, padded) ==
    IF i <= num THEN Least(row.len + cfg.spec, MaxModelLen)
    ELSE IF i <= padded THEN 0 ELSE row.draft_len

\* The padded size of the draft step; a batch without a graph runs as it is.
DraftSize(num) ==
    LET size == Padded(num, DraftGraphSizes)
    IN  IF size \in draft_graphs THEN size ELSE num

\* prepare_dspark_inputs, and the metadata over the padded batch.
Prepared(b) ==
    LET num == Len(b)
        row(i) == IF i > num THEN PadRow(rows[i])
                  ELSE [rows[i] EXCEPT !.len = Least(ValidEnd(b[i]) + cfg.spec, MaxModelLen),
                                       !.map = b[i].slot, !.slots = QuerySlots(b[i])]
    IN  [i \in Slots |->
          [row(i) EXCEPT !.draft_len = DraftLens(row(i), i, num, DraftSize(num))]]

\* The draft's KV cache: entries of the context, then of the query tokens.
Stored(b) ==
    [s \in Blocks \X (0 .. BlockSize - 1) |->
       IF \E n \in DOMAIN b : s \in QuerySlots(b[n]) THEN NoToken
       ELSE IF \E n \in DOMAIN b : \E pos \in b[n].start .. ContextEnd(b[n]) - 1 :
                 s \in SlotOf(b[n], pos)
       THEN LET n == CHOOSE n \in DOMAIN b :
                       \E pos \in b[n].start .. ContextEnd(b[n]) - 1 : s \in SlotOf(b[n], pos)
                pos == CHOOSE pos \in b[n].start .. ContextEnd(b[n]) - 1 : s \in SlotOf(b[n], pos)
            IN  IF pos < ValidEnd(b[n]) THEN <<b[n].r, pos>> ELSE NoToken
       ELSE draft_kv[s]]

\* sample_tokens: the answer, postprocess, and the drafts for the next step.
SampleTokens ==
    /\ exec # <<>>
    /\ LET b == exec
           at(i) == CHOOSE n \in DOMAIN b : b[n].slot = i
           after == [i \in Slots |-> IF \E n \in DOMAIN b : b[n].slot = i
                                     THEN AfterStep(st[i], b[at(i)]) ELSE st[i]]
       IN  /\ answers' = Append(answers,
                [r \in {b[n].r : n \in DOMAIN b} |->
                   LET n == CHOOSE n \in DOMAIN b : b[n].r = r
                   IN  [sampled |-> Sampled(b[n]), rejected |-> Rejected(b[n])]])
           /\ IF cfg.spec = 0
              THEN st' = after /\ UNCHANGED <<last_draft, rows, draft_kv>>
              ELSE /\ \E hits \in [DOMAIN b -> cfg.hits] :
                        st' = [i \in Slots |->
                          IF \E n \in DOMAIN b : b[n].slot = i
                          THEN [after[i] EXCEPT !.draft =
                                  [r |-> b[at(i)].r, pos |-> ValidEnd(b[at(i)]) + 1,
                                   hits |-> hits[at(i)]]]
                          ELSE after[i]]
                   /\ last_draft' = [n \in DOMAIN b |->
                        [r |-> b[n].r, slot |-> b[n].slot, end |-> ValidEnd(b[n]),
                         anchor |-> Anchor(after[b[n].slot], b[n])]]
                   /\ rows' = Prepared(b)
                   /\ draft_kv' = Stored(b)
    /\ exec' = <<>>
    /\ UNCHANGED <<cfg, graphVars, engineVars, outputs, slot>>

\* take_draft_token_ids, and update_draft_token_ids in the scheduler: the drafts of
\* the last batch, for the requests that have not finished.
TakeDraftTokenIds ==
    /\ turn = "drafts"
    /\ eng' = [r \in Requests |->
          IF /\ eng[r].status \notin {"none", "finished"}
             /\ \E n \in DOMAIN last_draft : last_draft[n].r = r
          THEN [eng[r] EXCEPT !.spec = cfg.spec] ELSE eng[r]]
    /\ turn' = "schedule"
    /\ UNCHANGED <<cfg, graphVars, told, preemptions, outputs, answers, workerVars>>

--------------------------------------------------------------------------------
Init ==
    /\ cfg \in Configs
    /\ stage = "capture" /\ graphs = {} /\ hidden_states = 0 /\ draft_graphs = {}
    /\ eng = [r \in Requests |-> NewRequest(r)]
    /\ told = {} /\ turn = "schedule" /\ preemptions = 0
    /\ outputs = <<>> /\ answers = <<>>
    /\ slot = [r \in Requests |-> 0] /\ st = [i \in Slots |-> EmptySlot]
    /\ exec = <<>> /\ last_draft = <<>> /\ rows = [i \in Slots |-> EmptyRow]
    /\ draft_kv = [s \in Blocks \X (0 .. BlockSize - 1) |-> NoToken]

Next ==
    \/ CaptureGraph \/ CaptureDraftGraph \/ CaptureDone
    \/ Schedule \/ Update \/ TakeDraftTokenIds
    \/ \E r \in Requests : Abort(r)
    \/ Execute \/ SampleTokens

Spec == Init /\ [][Next]_vars

--------------------------------------------------------------------------------
(* Properties *)

\* Every token the model is run on is the request's own at its position: the
\* worker's tokens of the prefill, its own last sample and its own drafts, which
\* nobody has sent again since the request was added (prepare_inputs); and the
\* draft starts from the token that follows the last valid one of its request.
OwnTokens ==
  /\ \A n \in DOMAIN last_draft :
        last_draft[n].anchor = <<last_draft[n].r, last_draft[n].end>>
  /\ \A n \in DOMAIN exec :
      LET b == exec[n]
          end == b.start + b.num
          from == end - 1 - b.drafts
      IN  IF end <= b.prefill THEN b.drafts = 0
          ELSE /\ b.first = <<b.r, from>>
               /\ b.drafts > 0 => b.guess.r = b.r /\ b.guess.pos = from + 1
               /\ from <= Most(b.start, b.prefill)

\* The worker computes the positions the scheduler scheduled, in the blocks the
\* scheduler allocated (update_requests, postprocess).
FollowsScheduler ==
    \A n \in DOMAIN exec :
      /\ exec[n].start = exec[n].expected.computed
      /\ exec[n].blocks = exec[n].expected.table

\* The draft's KV cache has the entries of every token the worker counts as
\* computed: those of rejected drafts are not among them, and blocks that changed
\* hands hold nothing of their former request.
DraftContextComplete ==
    cfg.spec > 0 =>
      \A r \in Requests : slot[r] # 0 =>
        \A pos \in 0 .. st[slot[r]].computed - 1 :
          \A s \in SlotOf([blocks |-> st[slot[r]].blocks], pos) : draft_kv[s] = <<r, pos>>

\* The rows a graph adds to the draft's batch are inert: they attend to nothing, and
\* store and scatter nothing.
PaddedRowsInert ==
    \A i \in Len(last_draft) + 1 .. DraftSize(Len(last_draft)) :
      last_draft # <<>> => rows[i] = EmptyRow

\* The shared output buffer has room for what each graph writes into it, and a
\* replayed graph has been recorded (the assertion of run) and has room for the batch.
GraphsFitBuffer ==
    /\ \A size \in graphs : size <= hidden_states /\ size <= MaxNumTokens
    /\ exec # <<>> /\ BatchGraph(exec) # 0 =>
         /\ BatchGraph(exec) \in graphs
         /\ Total([n \in DOMAIN exec |-> exec[n].num]) <= BatchGraph(exec)

--------------------------------------------------------------------------------
(* An inductive invariant *)

Scheduled(o) == {r \in Requests : o.num[r] > 0}

\* What the worker has of r once it has run its batch, and once it has executed an
\* output after that.
Absent == [has |-> FALSE, computed |-> 0, blocks |-> <<>>]

Batched(r) ==
    IF \E n \in DOMAIN exec : exec[n].r = r
    THEN exec[CHOOSE n \in DOMAIN exec : exec[n].r = r].num ELSE 0

Held(r) ==
    IF slot[r] = 0 THEN Absent
    ELSE [has |-> TRUE, computed |-> st[slot[r]].computed + Batched(r),
          blocks |-> st[slot[r]].blocks]

AfterOutput(v, o, r) ==
    IF r \in o.new THEN [has |-> TRUE, computed |-> o.num[r], blocks |-> o.blocks[r]]
    ELSE IF r \in Removed(o) THEN Absent
    ELSE IF r \in Scheduled(o)
    THEN [has |-> TRUE, computed |-> v.computed + o.num[r], blocks |-> v.blocks \o o.blocks[r]]
    ELSE v

\* What it has of r once it has executed the first k outputs.
View(k, r) ==
    CASE k = 0 -> Held(r)
      [] k = 1 -> AfterOutput(Held(r), outputs[1], r)
      [] k = 2 -> AfterOutput(AfterOutput(Held(r), outputs[1], r), outputs[2], r)

\* Rejected drafts the engine has still to take back.
Owed(r) ==
    IF answers = <<>> \/ r \notin DOMAIN Head(answers) THEN 0 ELSE Head(answers)[r].rejected

IsSeq(s) == s \in Seq(Range(s))

OutputOK(o) ==
    /\ o.finished \subseteq Requests /\ o.preempted \subseteq Requests
    /\ o.num \in [Requests -> Nat] /\ o.drafts \in [Requests -> Nat]
    /\ o.new \subseteq Scheduled(o)
    /\ DOMAIN o.blocks = Scheduled(o)
    /\ Removed(o) \cap Scheduled(o) = {}
    /\ \A r \in Requests : o.drafts[r] <= o.num[r]
    /\ \A r \in Scheduled(o) : IsSeq(o.blocks[r])
    /\ \A r \in o.new : o.tokens[r] \in 0 .. eng[r].tokens
    /\ cfg.async => \A r \in Requests : o.drafts[r] = 0

RowOK(b) ==
    /\ b.r \in Requests /\ slot[b.r] # 0 /\ b.slot = slot[b.r]
    /\ b.start = st[b.slot].computed /\ b.prefill = st[b.slot].prefill
    /\ b.num \in Nat \ {0} /\ b.drafts \in 0 .. b.num /\ b.guess.hits \in Nat
    /\ cfg.async => b.drafts = 0

AnswerOK(g) ==
    /\ DOMAIN g \subseteq Requests
    /\ \A r \in DOMAIN g : g[r].sampled \in Nat /\ g[r].rejected \in Nat
    /\ cfg.async => \A r \in DOMAIN g : g[r].rejected = 0

RequestOK(q) ==
    /\ q \in [status : {"none", "running", "preempted", "finished"}, tokens : Nat,
              computed : Nat, placeholders : Int, spec : 0 .. cfg.spec, blocks : {q.blocks}]
    /\ IsSeq(q.blocks)

StateOK(s) ==
    /\ s \in [prefill : Nat, computed : Nat, last : {s.last}, next : {s.next},
              draft : {s.draft}, blocks : {s.blocks}]
    /\ s.draft.hits \in Nat

TypeOK ==
    /\ cfg \in Configs /\ stage \in {"capture", "serve"}
    /\ graphs \subseteq GraphSizes /\ hidden_states \in Nat
    /\ draft_graphs \subseteq DraftGraphSizes
    /\ eng = [r \in Requests |-> eng[r]] /\ \A r \in Requests : RequestOK(eng[r])
    /\ told \subseteq Requests /\ turn \in {"schedule", "drafts"} /\ preemptions \in Nat
    /\ IsSeq(outputs) /\ \A k \in DOMAIN outputs : OutputOK(outputs[k])
    /\ IsSeq(answers) /\ \A k \in DOMAIN answers : AnswerOK(answers[k])
    /\ slot \in [Requests -> 0 .. MaxNumReqs]
    /\ st = [i \in Slots |-> st[i]] /\ \A i \in Slots : StateOK(st[i])
    /\ IsSeq(exec) /\ \A n \in DOMAIN exec : RowOK(exec[n])
    /\ rows = [i \in Slots |-> rows[i]]
    /\ \A i \in Slots : rows[i] \in [len : {rows[i].len}, draft_len : {rows[i].draft_len},
                                     map : {rows[i].map}, slots : {rows[i].slots}]

\* The graphs are captured before the first request comes, the largest first.
GraphsCaptured ==
    /\ \A x \in GraphSizes : graphs # {} => x <= hidden_states
    /\ graphs = {} => hidden_states = 0
    /\ stage = "serve" => GraphSizes \subseteq graphs
    /\ stage = "capture" =>
          outputs = <<>> /\ answers = <<>> /\ exec = <<>> /\ last_draft = <<>>

\* How much is under way, and that no two requests share a slot or a row.
Pipeline ==
    /\ Len(outputs) + Len(answers) + (IF exec = <<>> THEN 0 ELSE 1)
          <= (IF cfg.async THEN 2 ELSE 1)
    /\ \A r, s \in Requests : slot[r] = slot[s] /\ slot[r] # 0 => r = s
    /\ \A m, n \in DOMAIN exec : exec[m].r = exec[n].r => m = n
    /\ \A k \in 0 .. Len(outputs) :
          Cardinality({r \in Requests : View(k, r).has}) <= MaxNumReqs

\* Each output is addressed to the worker as it will be then.
OutputsFit ==
    \A k \in DOMAIN outputs : LET o == outputs[k] IN \A r \in Scheduled(o) :
      IF r \in o.new
      THEN ~View(k - 1, r).has /\ o.computed[r] = 0 /\ o.table[r] = o.blocks[r]
      ELSE /\ View(k - 1, r).has /\ o.computed[r] = View(k - 1, r).computed
           /\ o.table[r] = View(k - 1, r).blocks \o o.blocks[r]

\* The engine's requests are what the worker will have of them.
EngineAgrees ==
    \A r \in Requests :
      LET v == View(Len(outputs), r) IN
      /\ v.computed \in Nat
      /\ eng[r].status = "running" =>
           v.has /\ v.blocks = eng[r].blocks /\ v.computed = eng[r].computed - Owed(r)
      /\ eng[r].status \in {"none", "preempted"} =>
           ~v.has /\ eng[r].computed = 0 /\ eng[r].blocks = <<>>
      /\ r \in told => ~v.has /\ eng[r].status = "finished"

\* Drafts a request has under way, in whatever it has come to.
DraftsOf(r) ==
    IF outputs # <<>> THEN Head(outputs).drafts[r]
    ELSE IF \E n \in DOMAIN exec : exec[n].r = r
    THEN exec[CHOOSE n \in DOMAIN exec : exec[n].r = r].drafts
    ELSE 0

\* With one step under way a request has computed at most what is known of it, its
\* drafts aside, and the worker's prefill is known.
TokensKnown ==
    /\ \A r \in Requests : slot[r] # 0 => st[slot[r]].prefill <= eng[r].tokens
    /\ \A r \in Requests : eng[r].status # "finished" =>
          eng[r].tokens < PromptLen[r] + MaxTokens[r]
    /\ ~cfg.async => \A r \in Requests : eng[r].placeholders = 0
    /\ ~cfg.async => \A r \in Requests : eng[r].status = "running" =>
          IF answers # <<>> /\ r \in DOMAIN Head(answers)
          THEN LET a == Head(answers)[r]
               IN  eng[r].computed - a.rejected <= eng[r].tokens + Most(0, a.sampled - 1)
          ELSE eng[r].computed - DraftsOf(r) <= eng[r].tokens

RunnerInv ==
    /\ TypeOK /\ GraphsCaptured /\ Pipeline /\ OutputsFit /\ EngineAgrees /\ TokensKnown
    /\ FollowsScheduler

--------------------------------------------------------------------------------
(* Whose tokens: an invariant built on RunnerInv *)

\* A runner that drafts is given each prefill whole.
WholePrefills ==
    \A c \in Configs : c.spec > 0 =>
      c.cut # "any" /\ \A r \in Requests : PromptLen[r] + MaxTokens[r] <= c.chunk

\* The length of r's prefill once the worker has executed the first k outputs.
Prefill(k, r) ==
    IF k = 2 /\ r \in outputs[2].new THEN outputs[2].tokens[r]
    ELSE IF k >= 1 /\ r \in outputs[1].new THEN outputs[1].tokens[r]
    ELSE IF slot[r] = 0 THEN 0 ELSE st[slot[r]].prefill

\* A step ends inside the prefill and has no drafts, or it begins behind it and is one
\* token with its drafts.
OutputsOwn ==
    \A k \in DOMAIN outputs : LET o == outputs[k] IN \A r \in Scheduled(o) :
      /\ cfg.spec = 0 => o.drafts[r] = 0
      /\ r \in o.new => o.num[r] <= o.tokens[r]
      /\ IF o.computed[r] + o.num[r] <= Prefill(k, r) THEN o.drafts[r] = 0
         ELSE Prefill(k, r) <= o.computed[r] /\ o.num[r] = o.drafts[r] + 1

RowOwn(b) ==
    /\ Chunked(b) => b.next = <<b.r, b.start + b.num>>
    /\ IF b.start + b.num <= b.prefill THEN b.drafts = 0
       ELSE /\ b.prefill <= b.start /\ b.num = b.drafts + 1
            /\ b.first = <<b.r, b.start>>
            /\ b.drafts > 0 => b.guess.r = b.r /\ b.guess.pos = b.start + 1

InBatch(r) == \E n \in DOMAIN exec : exec[n].r = r

\* A slot's last sample and drafts are its request's once that has sampled; until then
\* they may be anybody's.
SlotOwn(r) ==
    LET s == st[slot[r]] IN
    slot[r] # 0 /\ ~InBatch(r) /\ s.prefill <= s.computed =>
      /\ s.last = <<r, s.computed>>
      /\ cfg.spec > 0 => s.draft.r = r /\ s.draft.pos = s.computed + 1

AnchorOwn(d) == d.anchor = <<d.r, d.end>>

\* Tokens of r in the step under way.
NumOf(r) == IF outputs # <<>> THEN Head(outputs).num[r] ELSE Batched(r)

\* What is known of a running request, or awaited, is its prefill or at most one token
\* more than what is computed of it.
KnownAhead(r) ==
    LET e == eng[r]
        p == Prefill(Len(outputs), r)
    IN  IF cfg.async THEN e.tokens + e.placeholders <= Most(p, e.computed + 1)
        ELSE IF answers # <<>> /\ r \in DOMAIN Head(answers)
        THEN LET a == Head(answers)[r]
             IN  /\ e.tokens + a.sampled <= Most(p, e.computed - a.rejected + 1)
                 /\ e.computed - a.rejected < e.tokens + a.sampled
                 /\ cfg.spec > 0 => p <= e.computed - a.rejected
        ELSE /\ e.tokens <= Most(p, e.computed - NumOf(r) + 1)
             /\ NumOf(r) = 0 => e.computed < e.tokens
             /\ cfg.spec > 0 => p <= e.computed - DraftsOf(r)

\* An asynchronous engine has a placeholder for each sample on its way.
One(b) == IF b THEN 1 ELSE 0

OutputSamples(k, r) ==
    /\ k \in DOMAIN outputs /\ r \in Scheduled(outputs[k])
    /\ Prefill(k, r) <= outputs[k].computed[r] + outputs[k].num[r]

RowSamples(r) == \E n \in DOMAIN exec : exec[n].r = r /\ ~Chunked(exec[n])

AnswerSamples(k, r) ==
    k \in DOMAIN answers /\ r \in DOMAIN answers[k] /\ answers[k][r].sampled > 0

Awaited(r) ==
    One(OutputSamples(1, r)) + One(OutputSamples(2, r)) + One(RowSamples(r))
      + One(AnswerSamples(1, r)) + One(AnswerSamples(2, r))

PlaceholdersAwaited(r) ==
    /\ eng[r].status \in {"running", "preempted"} => eng[r].placeholders = Awaited(r)
    /\ eng[r].status = "none" => eng[r].placeholders = 0 /\ Awaited(r) = 0

\* A preempted request has no part in the newest step, so that nothing of it is on its
\* way when it is resumed.
PreemptedApart(r) ==
    eng[r].status = "preempted" =>
      IF outputs # <<>> THEN r \notin Scheduled(outputs[Len(outputs)])
      ELSE IF exec # <<>> THEN ~InBatch(r)
      ELSE answers # <<>> => r \notin DOMAIN answers[Len(answers)]

TokenInv ==
    /\ OutputsOwn
    /\ \A n \in DOMAIN exec : RowOwn(exec[n])
    /\ \A r \in Requests : SlotOwn(r)
    /\ \A n \in DOMAIN last_draft : AnchorOwn(last_draft[n])
    /\ \A r \in Requests : eng[r].status = "running" => KnownAhead(r)
    /\ cfg.async =>
         /\ \A k \in DOMAIN answers : \A r \in DOMAIN answers[k] : answers[k][r].sampled <= 1
         /\ \A r \in Requests : PlaceholdersAwaited(r) /\ PreemptedApart(r)

--------------------------------------------------------------------------------
(* The draft's context: an invariant built on RunnerInv *)

\* No two positions of tables share a block.
TablesApart(table) ==
    \A r, s \in DOMAIN table : \A i \in DOMAIN table[r], j \in DOMAIN table[s] :
      table[r][i] = table[s][j] => r = s /\ i = j

\* Tables are apart, of blocks that exist, and have room for `computed` positions.
TablesFit(table, computed) ==
    /\ TablesApart(table)
    /\ \A r \in DOMAIN table :
          table[r] \in Seq(Blocks) /\ computed[r] <= Len(table[r]) * BlockSize

\* The blocks of the scheduler.
EngineTables ==
    /\ TablesFit([r \in Requests |-> eng[r].blocks],
                 [r \in Requests |-> IF eng[r].status = "running" THEN eng[r].computed ELSE 0])
    /\ \A r \in Requests : eng[r].status # "running" => eng[r].blocks = <<>>

\* The worker's tables, now and once it has executed the outputs under way: a block is
\* given to another request by no output before the one that takes it from the first.
WorkerTables ==
    \A k \in 0 .. Len(outputs) :
      TablesFit([r \in Requests |-> View(k, r).blocks], [r \in Requests |-> View(k, r).computed])

RowTables == \A n \in DOMAIN exec : exec[n].blocks = st[exec[n].slot].blocks

DraftInv ==
    cfg.spec > 0 =>
      /\ EngineTables /\ WorkerTables /\ RowTables
      /\ DOMAIN draft_kv = Blocks \X (0 .. BlockSize - 1)
      /\ DraftContextComplete

================================================================================
