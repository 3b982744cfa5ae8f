------------------------------- MODULE Scheduler -------------------------------
(***************************************************************************)
(* The request scheduler of the patched vLLM (v1/core/sched/scheduler.py): *)
(* which requests run in the next step of the model, on how many tokens,   *)
(* with which KV-cache blocks, and what the model's answer does to them.   *)
(*                                                                         *)
(* One thread runs the engine loop, so a call of schedule() or of          *)
(* update_from_output() is atomic for every other handler.  Both are       *)
(* modelled one loop iteration at a time: `phase` says inside which loop   *)
(* the engine is, and every other handler waits for phase "engine".  What  *)
(* makes the code hard is between the calls: up to PipelineDepth outputs   *)
(* of schedule() are in flight when a request is preempted, aborted,       *)
(* stopped, reset or resumed.                                              *)
(*                                                                         *)
(* Tokens are counted, not represented.  Outside this model: KV            *)
(* connectors, encoder inputs, LoRA, Mamba alignment and pooling requests. *)
(***************************************************************************)
EXTENDS Integers, FiniteSets, RequestQueues

CONSTANTS
    Requests,        \* request ids, each used once
    NoRequest,       \* not a request id: no request is being allocated for
    PromptLen,       \* [Requests -> Nat \ {0}], tokens of the prompt
    MaxTokens,       \* [Requests -> Nat \ {0}], sampling_params.max_tokens
    Rank,            \* [Requests -> Nat], the order (priority, arrival_time)
    Resumable,       \* requests that are streaming-input sessions
    Structured,      \* requests that wait for their grammar to be compiled
    EarlyStop,       \* requests that may sample a stop token
    Abortable,       \* requests the client may abort
    ChunkLens,       \* lengths of the later input chunks of a session
    MaxChunks,       \* bound: later input chunks of one session
    MaxResets,       \* bound: calls of reset_prefix_cache
    Policy,          \* "fcfs" or "priority"
    SplitPD,         \* schedule() is schedule_split_pd, else schedule_default
    PipelineSize,    \* pipeline_parallel_size
    PPBalance,       \* VLLM_USE_PP_BALANCE
    Async,           \* the engine uses the asynchronous scheduler
    PipelineDepth,   \* scheduler outputs in flight at most
    MaxNumSeqs,      \* max_num_running_reqs
    MaxBatched,      \* max_num_scheduled_tokens
    LongPrefill,     \* long_prefill_token_threshold, 0 for none
    ChunkedPrefill,  \* enable_chunked_prefill
    MaxModelLen,     \* max_model_len
    BlockSize,       \* tokens of a KV-cache block
    NumBlocks,       \* blocks of the KV cache
    NumSpecTokens,   \* num_spec_tokens
    NumLookahead,    \* num_lookahead_tokens
    CacheHits        \* lengths, in blocks, a prefix-cache lookup may return

PositiveNat == Nat \ {0}

ASSUME RequestsAssumption ==
    /\ NoRequest \notin Requests
    /\ PromptLen \in [Requests -> PositiveNat]
    /\ MaxTokens \in [Requests -> PositiveNat]
    /\ Rank \in [Requests -> Nat]
    /\ \A r, s \in Requests : Rank[r] = Rank[s] => r = s
    /\ Resumable \subseteq Requests /\ Structured \subseteq Requests
    /\ EarlyStop \subseteq Requests /\ Abortable \subseteq Requests

ASSUME ConfigAssumption ==
    /\ ChunkLens \subseteq PositiveNat /\ MaxChunks \in Nat /\ MaxResets \in Nat
    /\ Policy \in {"fcfs", "priority"}
    /\ SplitPD \in BOOLEAN /\ PPBalance \in BOOLEAN /\ Async \in BOOLEAN
    /\ ChunkedPrefill \in BOOLEAN
    /\ PipelineSize \in PositiveNat /\ PipelineDepth \in PositiveNat
    /\ MaxNumSeqs \in PositiveNat /\ MaxBatched \in PositiveNat
    /\ LongPrefill \in Nat /\ MaxModelLen \in PositiveNat
    /\ BlockSize \in PositiveNat /\ NumBlocks \in PositiveNat
    /\ NumSpecTokens \in Nat /\ CacheHits \subseteq Nat
    /\ NumLookahead \in {0, NumSpecTokens}

\* Every prompt leaves room for one output token: the front end of the engine
\* refuses any other request.
ASSUME AdmissionAssumption == \A r \in Requests : PromptLen[r] < MaxModelLen

\* What the asynchronous scheduler does to sessions and resets is not in this
\* source tree.  Draft tokens of a synchronous engine are handed over between two
\* steps, before the next one is scheduled.
ASSUME EngineAssumption ==
    /\ Async => Resumable = {} /\ MaxResets = 0
    /\ NumSpecTokens > 0 /\ ~Async => PipelineDepth = 1

VARIABLES
    req,             \* the Request objects
    waiting,         \* the waiting queue
    running,         \* the running list
    blocks,          \* KV blocks held by each request
    free_blocks,     \* KV blocks nobody holds
    finished_req_ids,
    prev_step_scheduled_req_ids,
    num_waiting_for_streaming_input,
    batch_queue,     \* scheduler outputs the model has not answered, oldest first
    phase,           \* the loop the engine thread is in
    sch,             \* the local variables of schedule()
    pending,         \* requests update_from_output() has still to visit
    grammar_ready,   \* structured requests whose grammar is compiled
    chunks_sent,     \* later input messages of each session, the closing one too
    resets           \* calls of reset_prefix_cache so far

requestVars == <<req, waiting, running, num_waiting_for_streaming_input>>
cacheVars   == <<blocks, free_blocks>>
stepVars    == <<finished_req_ids, prev_step_scheduled_req_ids, batch_queue>>
clientVars  == <<grammar_ready, chunks_sent, resets>>
vars == <<requestVars, cacheVars, stepVars, clientVars, phase, sch, pending>>

--------------------------------------------------------------------------------
(* Requests *)

Statuses == {"NONE", "WAITING", "WAITING_FOR_FSM", "WAITING_FOR_STREAMING_REQ",
             "RUNNING", "PREEMPTED", "FINISHED"}

CloseSession == 0    \* the update None, by which a client ends its session

\* tokens: len(_all_token_ids); spec: len(spec_token_ids); outputs:
\* len(_output_token_ids); the other names are the source's, shortened.
NewRequest(r) ==
    [status |-> "NONE", prompt |-> PromptLen[r], tokens |-> PromptLen[r],
     outputs |-> 0, computed |-> 0, spec |-> 0, placeholders |-> 0,
     queue |-> <<>>]

\* r is in self.requests.
Live(r) == req[r].status \notin {"NONE", "FINISHED"}

Least(a, b) == IF a <= b THEN a ELSE b
Most(a, b) == IF a >= b THEN a ELSE b
CeilDiv(a, b) == (a + b - 1) \div b

UsePP == PipelineSize > 1

\* RequestQueue.peek_request: waiting[i] is the head of a FCFS queue, or the
\* request of least (priority, arrival_time) of a priority queue.
IsHead(i) ==
    /\ i \in DOMAIN waiting
    /\ IF Policy = "fcfs" THEN i = 1
       ELSE \A j \in DOMAIN waiting : Rank[waiting[i]] <= Rank[waiting[j]]

\* running[i] is the request a shortage of blocks evicts.
IsVictim(i) ==
    /\ i \in DOMAIN running
    /\ IF Policy = "fcfs" THEN i = Len(running)
       ELSE \A j \in DOMAIN running : Rank[running[j]] <= Rank[running[i]]

\* Mutant of Prepended: a preempted request goes to the end of the queue.
Appended(r) == Append(waiting, r)

\* RequestQueue.prepend_request; the order only matters to a FCFS queue.
Prepended(r) == <<r>> \o waiting

\* Mutant of Missing: a partly filled block is not counted.
MissingFullBlocks(r, computed, n, lookahead) ==
    Most(0, (Least(computed + n + lookahead, MaxModelLen) \div BlockSize) - blocks[r])

\* KVCacheManager.allocate_slots: blocks r needs beyond those it holds to have
\* slots for n tokens after the first `computed`, and `lookahead` more.
Missing(r, computed, n, lookahead) ==
    Most(0, CeilDiv(Least(computed + n + lookahead, MaxModelLen), BlockSize)
            - blocks[r])

TakeBlocks(r, m) ==
    /\ blocks' = [blocks EXCEPT ![r] = @ + m]
    /\ free_blocks' = free_blocks - m

\* Mutant of FreeBlocks: the blocks are taken from r and returned to nobody.
LeakBlocks(r) ==
    /\ blocks' = [blocks EXCEPT ![r] = 0]
    /\ UNCHANGED free_blocks

FreeBlocks(r) ==
    /\ blocks' = [blocks EXCEPT ![r] = 0]
    /\ free_blocks' = free_blocks + blocks[r]

--------------------------------------------------------------------------------
(* schedule(): local variables and loop conditions *)

NoSchedule ==
    [budget |-> 0, cap |-> 0, index |-> 1, request |-> NoRequest, new_tokens |-> 0,
     num |-> [r \in Requests |-> 0], spec |-> [r \in Requests |-> 0],
     new |-> {}, resumed |-> {}, continued |-> {}, preempted |-> {},
     skipped |-> <<>>]

Scheduled == sch.new \cup sch.resumed \cup sch.continued

\* max_batch_running, the share of the requests of one pipeline stage.
CapReached ==
    /\ UsePP /\ PPBalance /\ ~SplitPD
    /\ Cardinality(Scheduled) >= sch.cap

InRunningLoop ==
    /\ phase = "running"
    /\ sch.index <= Len(running) /\ sch.budget > 0 /\ ~CapReached

InWaitingLoop ==
    /\ phase = "waiting"
    /\ waiting # <<>> /\ sch.budget > 0
    /\ Len(running) # MaxNumSeqs /\ ~CapReached

Threshold(n) == IF 0 < LongPrefill /\ LongPrefill < n THEN LongPrefill ELSE n

NumNewTokens(r) ==
    Least(Least(Threshold(req[r].tokens + req[r].spec + req[r].placeholders
                              - req[r].computed),
                sch.budget),
          MaxModelLen - 1 - req[r].computed)

\* The request has outputs in flight that this step must not run ahead of.
AheadOfOutput(r) ==
    /\ req[r].placeholders > 0
    /\ \/ UsePP
       \/ req[r].computed + 2 - req[r].placeholders >= req[r].prompt + MaxTokens[r]

HasRequests ==
    \/ Len(waiting) - num_waiting_for_streaming_input + Len(running) > 0
    \/ finished_req_ids # {}

\* The engine calls schedule() again while the batch queue has room.
BeginSchedule ==
    /\ phase = "engine" /\ HasRequests /\ Len(batch_queue) < PipelineDepth
    /\ phase' = IF SplitPD THEN "waiting" ELSE "running"
    /\ sch' = [NoSchedule EXCEPT
                 !.budget = MaxBatched,
                 !.cap = CeilDiv(Len(waiting) + Len(running), PipelineSize)]
    /\ UNCHANGED <<requestVars, cacheVars, stepVars, clientVars, pending>>

--------------------------------------------------------------------------------
(* schedule(): the loop over the running requests *)

RunningSkip ==
    /\ InRunningLoop
    /\ LET r == running[sch.index]
       IN  AheadOfOutput(r) \/ NumNewTokens(r) = 0
    /\ sch' = [sch EXCEPT !.index = @ + 1]
    /\ UNCHANGED <<requestVars, cacheVars, stepVars, clientVars, phase, pending>>

RunningPick ==
    /\ InRunningLoop
    /\ LET r == running[sch.index]
       IN  /\ ~AheadOfOutput(r) /\ NumNewTokens(r) # 0
           /\ sch' = [sch EXCEPT !.request = r, !.new_tokens = NumNewTokens(r)]
    /\ phase' = "allocate"
    /\ UNCHANGED <<requestVars, cacheVars, stepVars, clientVars, pending>>

MissingForRunning ==
    Missing(sch.request, req[sch.request].computed, sch.new_tokens, NumLookahead)

\* Draft tokens among the n tokens scheduled for r.
ScheduledDrafts(r, n) ==
    Most(0, Least(req[r].spec, n + req[r].computed - req[r].tokens
                                 - req[r].placeholders))

RunningSchedule ==
    /\ phase = "allocate"
    /\ MissingForRunning <= free_blocks
    /\ LET r == sch.request
           n == sch.new_tokens
       IN  /\ TakeBlocks(r, MissingForRunning)
           /\ sch' = [sch EXCEPT !.num[r] = n,
                                 !.spec[r] = ScheduledDrafts(r, n),
                                 !.continued = @ \cup {r},
                                 !.budget = @ - n,
                                 !.index = @ + 1,
                                 !.request = NoRequest, !.new_tokens = 0]
           /\ req' = [req EXCEPT ![r].spec = 0]
    /\ phase' = "running"
    /\ UNCHANGED <<waiting, running, num_waiting_for_streaming_input, stepVars,
                   clientVars, pending>>

Preempted(q) == [q EXCEPT !.status = "PREEMPTED", !.computed = 0, !.spec = 0]

\* Mutant of Unschedule: the victim stays in the output of the step.
UnscheduleNothing(v) == [sch EXCEPT !.preempted = @ \cup {v}]

\* Mutant of Unschedule: the tokens of the victim are not refunded.
UnscheduleWithoutRefund(v) ==
    IF Policy = "priority" /\ v \in sch.continued
    THEN [sch EXCEPT !.continued = @ \ {v}, !.num[v] = 0, !.spec[v] = 0,
                     !.index = @ - 1, !.preempted = @ \cup {v}]
    ELSE [sch EXCEPT !.preempted = @ \cup {v}]

\* Mutant of Unschedule: the index goes back for every victim, not only for those
\* this step had scheduled, which lie before it.
UnscheduleAlwaysBack(v) ==
    [sch EXCEPT !.continued = @ \ {v},
                !.budget = @ + sch.num[v],
                !.num[v] = 0, !.spec[v] = 0,
                !.index = @ - 1,
                !.preempted = @ \cup {v}]

\* A victim that this step had already scheduled gives its tokens back.  Under
\* FCFS the victim is the last running request, which the loop has not reached.
Unschedule(v) ==
    IF Policy = "priority" /\ v \in sch.continued
    THEN [sch EXCEPT !.continued = @ \ {v},
                     !.budget = @ + sch.num[v],
                     !.num[v] = 0, !.spec[v] = 0,
                     !.index = @ - 1,
                     !.preempted = @ \cup {v}]
    ELSE [sch EXCEPT !.preempted = @ \cup {v}]

RunningPreempt ==
    /\ phase = "allocate"
    /\ MissingForRunning > free_blocks
    /\ \E i \in DOMAIN running :
         LET v == running[i]
         IN  /\ IsVictim(i)
             /\ running' = RemoveAt(running, i)
             /\ waiting' = Prepended(v)
             /\ req' = [req EXCEPT ![v] = Preempted(@)]
             /\ FreeBlocks(v)
             /\ IF v = sch.request
                THEN /\ phase' = "close"
                     /\ sch' = [Unschedule(v) EXCEPT !.request = NoRequest,
                                                     !.new_tokens = 0]
                ELSE /\ phase' = phase
                     /\ sch' = Unschedule(v)
    /\ UNCHANGED <<num_waiting_for_streaming_input, stepVars, clientVars, pending>>

\* Mutant of RunningDone: waiting requests are admitted in a step that preempts.
RunningDoneThenWaiting ==
    /\ phase = "running" /\ ~InRunningLoop
    /\ phase' = IF SplitPD THEN "close" ELSE "waiting"
    /\ UNCHANGED <<requestVars, cacheVars, stepVars, clientVars, sch, pending>>

RunningDone ==
    /\ phase = "running" /\ ~InRunningLoop
    /\ phase' = IF SplitPD \/ sch.preempted # {} THEN "close" ELSE "waiting"
    /\ UNCHANGED <<requestVars, cacheVars, stepVars, clientVars, sch, pending>>

--------------------------------------------------------------------------------
(* schedule(): the loop over the waiting requests *)

\* A structured request whose grammar is compiled becomes an ordinary one,
\* whether or not the rest of the iteration admits it.
WaitingGrammar ==
    /\ InWaitingLoop
    /\ \E i \in DOMAIN waiting :
         LET r == waiting[i]
         IN  /\ IsHead(i)
             /\ req[r].status = "WAITING_FOR_FSM" /\ r \in grammar_ready
             /\ req' = [req EXCEPT ![r].status = "WAITING"]
    /\ UNCHANGED <<waiting, running, num_waiting_for_streaming_input, cacheVars,
                   stepVars, clientVars, phase, sch, pending>>

\* `skipped` keeps the queue's order: the code's two prepends cancel out.
WaitingSkip ==
    /\ InWaitingLoop
    /\ \E i \in DOMAIN waiting :
         LET r == waiting[i]
         IN  /\ IsHead(i)
             /\ \/ req[r].status = "WAITING_FOR_FSM" /\ r \notin grammar_ready
                \/ req[r].status = "WAITING_FOR_STREAMING_REQ"
             /\ waiting' = RemoveAt(waiting, i)
             /\ sch' = [sch EXCEPT !.skipped = Append(@, r)]
    /\ UNCHANGED <<req, running, num_waiting_for_streaming_input, cacheVars,
                   stepVars, clientVars, phase, pending>>

\* get_computed_blocks finds at most the blocks before the last token; a request
\* that kept its computed tokens is not looked up.
CachedTokens(r) ==
    IF req[r].computed = 0
    THEN {h * BlockSize : h \in {k \in CacheHits : k * BlockSize < req[r].tokens}}
    ELSE {req[r].computed}

NumPrefillTokens(r, computed) == Threshold(req[r].tokens - computed)

MissingForWaiting(r, computed) ==
    Missing(r, computed, Least(NumPrefillTokens(r, computed), sch.budget),
            IF req[r].computed = 0 THEN 0 ELSE NumLookahead)

\* Mutant of Admissible: the request runs although allocate_slots returned None.
AdmissibleWithoutBlocks(r, computed) ==
    ChunkedPrefill \/ NumPrefillTokens(r, computed) <= sch.budget

Admissible(r, computed) ==
    /\ ChunkedPrefill \/ NumPrefillTokens(r, computed) <= sch.budget
    /\ MissingForWaiting(r, computed) <= free_blocks

WaitingAdmit ==
    /\ InWaitingLoop
    /\ \E i \in DOMAIN waiting : \E computed \in CachedTokens(waiting[i]) :
         LET r == waiting[i]
             n == Least(NumPrefillTokens(r, computed), sch.budget)
         IN  /\ IsHead(i)
             /\ req[r].status \in {"WAITING", "PREEMPTED"}
             /\ Admissible(r, computed)
             /\ TakeBlocks(r, MissingForWaiting(r, computed))
             /\ req' = [req EXCEPT ![r].status = "RUNNING", ![r].computed = computed]
             /\ sch' = [sch EXCEPT
                  !.new = IF req[r].status = "WAITING" THEN @ \cup {r} ELSE @,
                  !.resumed = IF req[r].status = "PREEMPTED" THEN @ \cup {r} ELSE @,
                  !.num[r] = n,
                  !.budget = @ - n]
             /\ waiting' = RemoveAt(waiting, i)
             /\ running' = Append(running, r)
    /\ UNCHANGED <<num_waiting_for_streaming_input, stepVars, clientVars, phase,
                   pending>>

\* Mutant of LeaveWaitingLoop: the skipped requests are not put back.
LeaveWaitingLoopDropping ==
    /\ sch' = [sch EXCEPT !.skipped = <<>>]
    /\ phase' = IF SplitPD /\ sch.new = {} /\ sch.resumed = {} THEN "running" ELSE "close"
    /\ UNCHANGED <<requestVars, cacheVars, stepVars, clientVars, pending>>

\* The skipped requests return to the head of the waiting queue.
LeaveWaitingLoop ==
    /\ waiting' = sch.skipped \o waiting
    /\ sch' = [sch EXCEPT !.skipped = <<>>]
    /\ phase' = IF SplitPD /\ sch.new = {} /\ sch.resumed = {} THEN "running" ELSE "close"
    /\ UNCHANGED <<req, running, num_waiting_for_streaming_input, cacheVars, stepVars,
                   clientVars, pending>>

\* The head request cannot be scheduled: nobody behind it may pass.
WaitingBlocked ==
    /\ InWaitingLoop
    /\ \E i \in DOMAIN waiting : \E computed \in CachedTokens(waiting[i]) :
         /\ IsHead(i)
         /\ req[waiting[i]].status \in {"WAITING", "PREEMPTED"}
         /\ ~Admissible(waiting[i], computed)
    /\ LeaveWaitingLoop

WaitingDone == phase = "waiting" /\ ~InWaitingLoop /\ LeaveWaitingLoop

--------------------------------------------------------------------------------
(* schedule(): the output, and _update_after_schedule *)

\* The step reaches the end of what is known of r, so the model samples for it.
Samples(r) ==
    /\ sch.num[r] > 0
    /\ req[r].computed + sch.num[r] >= req[r].tokens + req[r].placeholders + sch.spec[r]

StepOutput ==
    [num |-> sch.num, spec |-> sch.spec, sampled |-> {r \in Requests : Samples(r)}]

\* Mutant of AfterSchedule: computed tokens advance with the answer only.
AfterScheduleUnadvanced(r) == req[r]

\* The asynchronous scheduler counts the tokens the step will produce, and plans
\* with placeholders for the drafts that will follow them.
AfterSchedule(r) ==
    IF Async /\ Samples(r)
    THEN [req[r] EXCEPT !.computed = @ + sch.num[r],
                        !.placeholders = @ + 1 + sch.spec[r],
                        !.spec = NumSpecTokens]
    ELSE [req[r] EXCEPT !.computed = @ + sch.num[r]]

EndSchedule ==
    /\ phase = "close"
    /\ batch_queue' = Append(batch_queue, StepOutput)
    /\ req' = [r \in Requests |-> AfterSchedule(r)]
    /\ prev_step_scheduled_req_ids' = {r \in Requests : sch.num[r] > 0}
    /\ finished_req_ids' = {}
    /\ phase' = "engine"
    /\ sch' = NoSchedule
    /\ UNCHANGED <<waiting, running, num_waiting_for_streaming_input, cacheVars,
                   clientVars, pending>>

--------------------------------------------------------------------------------
(* update_from_output() *)

BeginUpdate ==
    /\ phase = "engine" /\ batch_queue # <<>>
    /\ phase' = "update"
    /\ pending' = {r \in Requests : Head(batch_queue).num[r] > 0}
    /\ UNCHANGED <<requestVars, cacheVars, stepVars, clientVars, sch>>

Visit(r) ==
    /\ phase = "update" /\ r \in pending
    /\ pending' = pending \ {r}

\* The request is gone, or its step ended inside the prompt and sampled nothing.
UpdateSkip(r) ==
    /\ Visit(r)
    /\ ~Live(r) \/ r \notin Head(batch_queue).sampled
    /\ UNCHANGED <<requestVars, cacheVars, stepVars, clientVars, phase, sch>>

\* Mutant of Adjusted: the rejected drafts stay computed.
AdjustedPlaceholders(q, rejected) ==
    [q EXCEPT !.placeholders = IF @ > 0 THEN @ - rejected ELSE @]

\* Rejected drafts are taken off what schedule() had counted as computed.
Adjusted(q, rejected) ==
    [q EXCEPT !.computed = IF @ > 0 THEN @ - rejected ELSE @,
              !.placeholders = IF @ > 0 THEN @ - rejected ELSE @]

\* Mutant of UntilLimit: the request stops one token after its limit.
PastLimit(r) == Most(1, 1 + Least(MaxTokens[r] - req[r].outputs, MaxModelLen - req[r].tokens))

\* Tokens that can be appended until check_stop reports a length limit.
UntilLimit(r) ==
    Most(1, Least(MaxTokens[r] - req[r].outputs, MaxModelLen - req[r].tokens))

WithOutput(q, k) ==
    [q EXCEPT !.tokens = @ + k, !.outputs = @ + k,
              !.placeholders = IF Async THEN @ - k ELSE @]

RejectedDrafts(r, generated) == Head(batch_queue).spec[r] - (generated - 1)

\* r after the model's answer: k of the `generated` tokens are kept.
Answered(r, generated, k) ==
    WithOutput(Adjusted(req[r], RejectedDrafts(r, generated)), k)

Generated(r) == 1 .. 1 + Head(batch_queue).spec[r]

\* The tokens are appended up to the limit, and none of them stops the request.
UpdateContinue(r) ==
    /\ Visit(r) /\ Live(r) /\ r \in Head(batch_queue).sampled
    /\ \E generated \in Generated(r) :
         /\ generated < UntilLimit(r)
         /\ req' = [req EXCEPT ![r] = Answered(r, generated, generated)]
    /\ UNCHANGED <<waiting, running, num_waiting_for_streaming_input, cacheVars,
                   stepVars, clientVars, phase, sch>>

\* The answer holds a k-th token that stops the request: a stop token, or the
\* token that reaches a length limit.  What follows it is dropped.
StopsAt(r, k) ==
    \/ k = UntilLimit(r)
    \/ r \in EarlyStop /\ k < UntilLimit(r)

\* Mutant of RemoveFromQueues: an answer finds its request in the running list, as if
\* it could not have been preempted meanwhile.
RemoveAnswered(r) ==
    IF phase = "update" \/ req[r].status = "RUNNING"
    THEN running' = Without(running, r) /\ UNCHANGED waiting
    ELSE waiting' = Without(waiting, r) /\ UNCHANGED running

RemoveFromQueues(r) ==
    IF req[r].status = "RUNNING"
    THEN running' = Without(running, r) /\ UNCHANGED waiting
    ELSE waiting' = Without(waiting, r) /\ UNCHANGED running

\* _free_request and _free_blocks: r leaves self.requests.
Free(r) ==
    /\ finished_req_ids' = finished_req_ids \cup {r}
    /\ FreeBlocks(r)

HasInput(r) == req[r].queue # <<>>

\* The next message of the session is the one that ends it.
SessionClosed(r) == HasInput(r) /\ Head(req[r].queue) = CloseSession

UpdateFinish(r) ==
    /\ Visit(r) /\ Live(r) /\ r \in Head(batch_queue).sampled
    /\ r \in Resumable => SessionClosed(r)
    /\ \E generated \in Generated(r) : \E k \in 1 .. generated :
         /\ StopsAt(r, k)
         /\ req' = [req EXCEPT ![r] =
                      [Answered(r, generated, k) EXCEPT !.status = "FINISHED"]]
    /\ Free(r)
    /\ RemoveFromQueues(r)
    /\ UNCHANGED <<num_waiting_for_streaming_input, prev_step_scheduled_req_ids,
                   batch_queue, clientVars, phase, sch>>

\* Mutant of AsSession: the kept outputs do not become prompt.
AsSessionWithoutOutputs(q, chunk) ==
    [q EXCEPT !.status = "WAITING",
              !.tokens = Least(q.tokens, q.computed) + chunk,
              !.prompt = @ + chunk,
              !.outputs = 0]

\* _update_request_as_session: the tokens beyond the computed ones are dropped,
\* the outputs among the kept ones become prompt, and the chunk follows.
AsSession(q, chunk) ==
    LET kept == Least(q.tokens, q.computed)
    IN  [q EXCEPT !.status = "WAITING",
                  !.tokens = kept + chunk,
                  !.prompt = @ + Most(0, kept - q.prompt) + chunk,
                  !.outputs = 0]

\* Mutant of RequeueSession: a session without input is left out of the queue.
RequeueSessionNowhere(r) == running' = Without(running, r) /\ UNCHANGED waiting

\* A session that stops goes back to the waiting queue: for its next chunk if it
\* has one, to wait for one otherwise.  It then leaves the queue its status,
\* before the answer, says it is in; leaving `waiting` takes out every
\* occurrence of it.
RequeueSession(r) ==
    IF req[r].status = "RUNNING"
    THEN /\ running' = Without(running, r)
         /\ waiting' = Append(waiting, r)
    ELSE /\ waiting' = Without(waiting, r)
         /\ UNCHANGED running

UpdateSession(r) ==
    /\ Visit(r) /\ Live(r) /\ r \in Head(batch_queue).sampled
    /\ r \in Resumable /\ ~SessionClosed(r)
    /\ \E generated \in Generated(r) : \E k \in 1 .. generated :
         LET q == Answered(r, generated, k)
         IN  /\ StopsAt(r, k)
             /\ IF HasInput(r)
                THEN /\ req' = [req EXCEPT ![r] =
                                  [AsSession(q, Head(q.queue)) EXCEPT !.queue = Tail(@)]]
                     /\ UNCHANGED num_waiting_for_streaming_input
                ELSE /\ req' = [req EXCEPT ![r] =
                                  [q EXCEPT !.status = "WAITING_FOR_STREAMING_REQ"]]
                     /\ num_waiting_for_streaming_input' =
                            num_waiting_for_streaming_input + 1
    /\ RequeueSession(r)
    /\ UNCHANGED <<cacheVars, stepVars, clientVars, phase, sch>>

\* After the answer of a synchronous step the engine hands over the drafts the
\* model proposed (update_draft_token_ids); those of a structured request end
\* where its grammar refuses them.
EndUpdate ==
    /\ phase = "update" /\ pending = {}
    /\ \E drafts \in [Requests -> 0 .. NumSpecTokens] :
         /\ \A r \in Requests \ Structured : drafts[r] = NumSpecTokens
         /\ req' = [r \in Requests |->
                      IF ~Async /\ Live(r) /\ Head(batch_queue).num[r] > 0
                      THEN [req[r] EXCEPT !.spec = drafts[r]] ELSE req[r]]
    /\ batch_queue' = Tail(batch_queue)
    /\ phase' = "engine"
    /\ UNCHANGED <<waiting, running, num_waiting_for_streaming_input, cacheVars,
                   finished_req_ids, prev_step_scheduled_req_ids, clientVars, sch,
                   pending>>

--------------------------------------------------------------------------------
(* The other handlers *)

\* The engine loop serves its clients between two steps, when a full batch queue
\* has been answered; aborts also while it waits for that answer.
BetweenSteps == phase = "engine" /\ Len(batch_queue) < PipelineDepth

AddRequest(r) ==
    /\ BetweenSteps
    /\ req[r].status = "NONE"
    /\ req' = [req EXCEPT ![r].status =
                  IF r \in Structured THEN "WAITING_FOR_FSM" ELSE "WAITING"]
    /\ waiting' = Append(waiting, r)
    /\ UNCHANGED <<running, num_waiting_for_streaming_input, cacheVars, stepVars,
                   clientVars, phase, sch, pending>>

\* Mutant of Finished: an aborted session stays counted as waiting for input.
FinishedUncounted(r) ==
    /\ req' = [req EXCEPT ![r].status = "FINISHED"]
    /\ UNCHANGED num_waiting_for_streaming_input
    /\ RemoveFromQueues(r)
    /\ Free(r)

Finished(r) ==
    /\ req' = [req EXCEPT ![r].status = "FINISHED"]
    /\ num_waiting_for_streaming_input' =
           num_waiting_for_streaming_input
             - (IF req[r].status = "WAITING_FOR_STREAMING_REQ" THEN 1 ELSE 0)
    /\ RemoveFromQueues(r)
    /\ Free(r)

FinishRequests(r) ==
    /\ phase = "engine" /\ r \in Abortable /\ Live(r)
    /\ Finished(r)
    /\ UNCHANGED <<prev_step_scheduled_req_ids, batch_queue, clientVars, phase, sch,
                   pending>>

\* add_request for a session that exists: a further chunk, or its end.
StreamingUpdate(r) ==
    /\ BetweenSteps
    /\ r \in Resumable /\ Live(r)
    /\ \E update \in ChunkLens \cup {CloseSession} :
         /\ chunks_sent[r] < MaxChunks + (IF update = CloseSession THEN 1 ELSE 0)
         /\ chunks_sent' = [chunks_sent EXCEPT
                 ![r] = IF update = CloseSession THEN MaxChunks + 1 ELSE @ + 1]
         /\ \/ /\ req[r].status # "WAITING_FOR_STREAMING_REQ"
               /\ req' = [req EXCEPT ![r].queue = Append(@, update)]
               /\ UNCHANGED <<waiting, running, num_waiting_for_streaming_input,
                              cacheVars, finished_req_ids>>
            \/ /\ req[r].status = "WAITING_FOR_STREAMING_REQ" /\ update # CloseSession
               /\ req' = [req EXCEPT ![r] = AsSession(@, update)]
               /\ num_waiting_for_streaming_input' = num_waiting_for_streaming_input - 1
               /\ UNCHANGED <<waiting, running, cacheVars, finished_req_ids>>
            \/ /\ req[r].status = "WAITING_FOR_STREAMING_REQ" /\ update = CloseSession
               /\ Finished(r)
    /\ UNCHANGED <<prev_step_scheduled_req_ids, batch_queue, grammar_ready, resets, phase,
                   sch, pending>>

\* The structured-output manager compiles grammars in a thread of its own.
GrammarReady(r) ==
    /\ r \in Structured \ grammar_ready /\ Live(r)
    /\ grammar_ready' = grammar_ready \cup {r}
    /\ UNCHANGED <<requestVars, cacheVars, stepVars, chunks_sent, resets, phase, sch,
                   pending>>

\* reset_prefix_cache(reset_running_requests = True) preempts every running
\* request, the last one first.  It also sets discard_latest_async_tokens, which
\* nothing in the synchronous scheduler reads.
BeginReset ==
    /\ BetweenSteps /\ resets < MaxResets
    /\ resets' = resets + 1
    /\ phase' = "reset"
    /\ UNCHANGED <<requestVars, cacheVars, stepVars, grammar_ready, chunks_sent, sch,
                   pending>>

ResetPreempt ==
    /\ phase = "reset" /\ running # <<>>
    /\ LET v == running[Len(running)]
       IN  /\ running' = RemoveAt(running, Len(running))
           /\ waiting' = Prepended(v)
           /\ req' = [req EXCEPT ![v] = [Preempted(@) EXCEPT !.placeholders = 0]]
           /\ FreeBlocks(v)
    /\ UNCHANGED <<num_waiting_for_streaming_input, stepVars, clientVars, phase, sch,
                   pending>>

EndReset ==
    /\ phase = "reset" /\ running = <<>>
    /\ prev_step_scheduled_req_ids' = {}
    /\ phase' = "engine"
    /\ UNCHANGED <<requestVars, cacheVars, finished_req_ids, batch_queue, clientVars, sch,
                   pending>>

--------------------------------------------------------------------------------
Init ==
    /\ req = [r \in Requests |-> NewRequest(r)]
    /\ waiting = <<>> /\ running = <<>>
    /\ blocks = [r \in Requests |-> 0] /\ free_blocks = NumBlocks
    /\ finished_req_ids = {} /\ prev_step_scheduled_req_ids = {}
    /\ num_waiting_for_streaming_input = 0
    /\ batch_queue = <<>>
    /\ phase = "engine" /\ sch = NoSchedule /\ pending = {}
    /\ grammar_ready = {} /\ chunks_sent = [r \in Requests |-> 0] /\ resets = 0

ScheduleStep ==
    \/ BeginSchedule
    \/ RunningSkip \/ RunningPick \/ RunningSchedule \/ RunningPreempt \/ RunningDone
    \/ WaitingGrammar \/ WaitingSkip \/ WaitingAdmit \/ WaitingBlocked \/ WaitingDone
    \/ EndSchedule

UpdateStep ==
    \/ BeginUpdate
    \/ \E r \in Requests : \/ UpdateSkip(r) \/ UpdateContinue(r)
                           \/ UpdateFinish(r) \/ UpdateSession(r)
    \/ EndUpdate

ResetStep == BeginReset \/ ResetPreempt \/ EndReset

ClientStep ==
    \E r \in Requests : \/ AddRequest(r) \/ FinishRequests(r) \/ StreamingUpdate(r)
                        \/ GrammarReady(r)

Next == ScheduleStep \/ UpdateStep \/ ResetStep \/ ClientStep

Spec == Init /\ [][Next]_vars
================================================================================
