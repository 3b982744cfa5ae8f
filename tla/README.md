# Formal model of the llm-adaptation patches

This directory holds TLA+ models of the programs in this repository, the TLC configurations that
check them on small instances, and theorems about them checked by TLAPS. The repository adapts two
large language models to K100-AI accelerators. It consists of files that replace or extend files of
vLLM (for GLM-5.2) and of SGLang (for MiniMax-M3), and of shell scripts that put them into an
installed package and take them out again.

Paths below are relative to the repository. `dspark/` stands for
`glm-5.2-channel-int4-w4a8/dspark/`, `minimax/` for `minimax-m3-awq-int4/`, and `scheduler.py` for
`dspark/vllm_patches/modified/v1/core/sched/scheduler.py`.

## 1. Inventory

Components with control state of their own:

**Request scheduler** (`scheduler.py`, 2754 lines). State: the requests with their token counts and
status, the `waiting` queue, the `running` list, the KV-cache blocks (through `KVCacheManager`), the
request ids of the previous step and those finished since, the count of sessions waiting for input.
Operations: `schedule()` (two variants), `update_from_output()`, `update_draft_token_ids()`,
`add_request()`, `finish_requests()`, `reset_prefix_cache()`. It is called by one engine thread, but
up to `PipelineDepth` outputs are in flight between `schedule()` and `update_from_output()`, and
anything may happen to a request meanwhile. Hard: preemption of a request in flight, counts that run
ahead of the answers, rejected drafts, sessions that return to the queue, eviction of what the same
call has scheduled. Correct when no live request is lost or queued twice, no block leaks, only
running requests are scheduled, no position is sampled twice, and every request finishes.

**KV-transfer recovery** (`scheduler.py` 2490-2754). State: `finished_recving_kv_req_ids`,
`failed_recving_kv_req_ids`, delayed frees. Reports of the workers arrive steps later, may name
requests that are gone, and may say that some blocks are invalid. Correct when every computed token
is backed by a valid block, an invalid shared block is recomputed by exactly one request, and every
request waiting for a transfer leaves that state.

**Encoder inputs** (`scheduler.py` 1614-1785). A compute budget and a cache of encoder outputs, both
charged and refunded by the scheduling loops.

**V2 model runner** (`dspark/vllm_patches/modified/v1/worker/gpu/model_runner.py`). State: request
slots, block tables with staged writes, the draft tokens of the last batch. It consumes the
scheduler's outputs in order; slots are reused. Correct when a slot always belongs to the request
whose tokens it holds.

**DSpark speculator** (`dspark/vllm_patches/added/v1/worker/gpu/spec_decode/dspark/`). State: the
draft KV context. Each proposal depends on how many of the previous drafts were accepted.

**CUDA graphs and their buffers** (`cudagraph_utils.py`, `attn_utils.py` of the runner;
`minimax/sglang_patches/eagle3-v2/modified/minimax_sparse_backend.py`). A captured graph reads fixed
buffers, which have to exist before the capture and to be refreshed before each replay. The comments
of the MiniMax backend trace a memory fault to a temporary tensor that broke this rule.

**Patch scripts** (`apply_patch.sh` and `revert_patch.sh` of GLM, MTP, DSpark; `evalscope_patch.sh`;
`minimax/apply_patch.sh`; `eagle3-v2/install.sh`). State: the files of the installed packages and
the backups. They are run by hand, in any order, repeatedly, and may stop at any command. Correct
when an apply that ends has installed its patch, the original files are never lost, and a revert
restores them.

**Engine configuration** (`dspark/vllm_patches/modified/config/`). State: the `VllmConfig` and the
settings objects it shares with its copies. `__post_init__` writes defaults into them, and the
loading of a DSpark draft runs it a second time on what the first pass wrote. Correct when both
passes end in the same configuration, because the graph manager has read it in between.

**Weight loading** (`deepseek_v2.py`, `qwen3_dspark.py`, `dflash/utils.py`, `eagle3_utils.py`).
Names of tensors are rewritten by substring, fused, split, offered to replicas of experts; the draft
shares modules of the target and asks for some of its hidden states. Correct when every part of
every parameter gets its own tensor and the draft gets the states it was trained on. A mistake
raises nothing: the shapes agree.

**GPU worker** (`v1/worker/gpu_worker.py`). State: device and runner of one rank, from `init_device`
to the end of `load_model`.

**Sparse attention of GLM** (`vllm_patches/modified/sparse_attn_indexer.py`, `flashmla_sparse.py`,
`vllm_patches/added/`). State: index keys, latent keys, and one buffer of chosen positions that full
layers write and shared layers read. Prefills are cut into chunks and slices; which of several
kernels runs depends on the cache, the device and the batch. Correct when every query weighs each of
the best keys of its own request exactly once.

**Sparse attention of MiniMax** (`eagle3-v2/modified/minimax_sparse_backend.py` and the Triton
kernels it calls). State: the KV cache, three buffers for verification, recorded graphs. Correct
when prefill, decode, verification and their recorded forms choose the same blocks and read the same
tokens.

Components without control state: layers and quantisation schemes, the evalscope adapter, the
benchmark client, diagnostics, start scripts, tests and notes.

Interactions: the engine builds the configuration, every worker copies it, loads target and draft
and then serves. The scheduler and the runner exchange `SchedulerOutput`, `ModelRunnerOutput` and
`DraftTokenIds`; the connector's reports travel with the answers; the runner drives the speculator,
the graphs and the attention; the scripts install all of it.

`PROJECT.json` lists every component, every hazard with its line, and for each definition the lines
it models.

## 2. Modules

| Module | Contents |
|---|---|
| `RequestQueues` | queue operations the community modules lack |
| `Scheduler` | the request scheduler, one action per loop iteration or handler |
| `RequestService` | abstract: what the engine promises the clients |
| `SchedulerProperties` | types, invariants and liveness properties of the scheduler, the refinement mapping to `RequestService`, and the inductive invariants `IInv`, `ServiceInv`, `QueueInv`, `BlockInv`, `TokenInv` |
| `RequestQueueLemmas` | lemmas about sequences as queues, about folds, sums and division, and the least-number principle that replaces induction |
| `SchedulerProofs` -> `SchedulerAccountingProofs` | proofs: every step preserves `TypeOK` and `IInv`, the scheduler implements `RequestService`, waiting queue and sessions; blocks and tokens |
| `PatchScripts`, `PatchScriptsProofs` | the patch scripts with their properties; the theorems about them |
| `KVTransfer` | loads through a KV connector and their failures, with the inductive invariants `TransferInv` and, for what the entries are, `EntriesInv` |
| `KVTransferProofs` | proof that every step of `KVTransfer` preserves `TransferInv` and `EntriesInv`, and their consequences |
| `ModelRunner` | the V2 runner, its graphs and the DSpark speculator, driven by scheduler outputs, with the inductive invariants `RunnerInv`, for the tokens `TokenInv` and for the draft's context `DraftInv` |
| `ModelRunnerProofs` | proof that every step of `ModelRunner` preserves `RunnerInv`, `TokenInv` and `DraftInv`, and their consequences |
| `EngineConfig` -> `ModelLoading` -> `Startup` | the configuration; what is loaded where; a server that starts |
| `SparseMLA` -> `GlmAttention` | kernels of GLM's attention as operators; batches through the layers, with the inductive invariant `ForwardInv` |
| `GlmAttentionProofs` | theorems about which kernel is launched; proof that every step of `GlmAttention` preserves `ForwardInv`, and its consequence |
| `BlockTopk` -> `SparseAttention` -> `SparseBackend` | bitonic top-k networks; MiniMax's kernels; the backend with its graphs and the inductive invariant `BackendInv` |
| `SparseBackendProofs` | which positions MiniMax's kernels read; proof that every step of `SparseBackend` preserves `BackendInv`, and its consequences |
| `MC...` | instances for TLC |

`A -> B` means that `B` extends `A`.

Definitions named "Mutant of X" are faulty versions of X. They are not part of the specification;
replacing X by one of them shows that a property notices the fault.

### 2.1 Scheduler

`req[r]` is the `Request` object with its token counts: `tokens` is `len(_all_token_ids)`,
`computed` is `num_computed_tokens`, `spec` is `len(spec_token_ids)`, `placeholders` is
`num_output_placeholders`, `queue` is `streaming_queue`. `blocks` and `free_blocks` are the KV
cache. `batch_queue` holds the outputs in flight. `phase` says inside which loop the engine thread
is, and `sch` holds the local variables of `schedule()`.

One thread runs the engine loop. A call of `schedule()` or `update_from_output()` is therefore
atomic for every other handler: their guards wait for phase `"engine"`. Inside a call each loop
iteration is an action, so that the invariants also see the states between them, where the code's
assertions stand.

| Code | Actions |
|---|---|
| `schedule()`, loop over `running` | `RunningSkip`, `RunningPick`, `RunningPreempt`, `RunningSchedule`, `RunningDone` |
| `schedule()`, loop over `waiting` | `WaitingGrammar`, `WaitingSkip`, `WaitingAdmit`, `WaitingBlocked`, `WaitingDone` |
| start and end of `schedule()`, `_update_after_schedule` | `BeginSchedule`, `EndSchedule` |
| `update_from_output()` | `BeginUpdate`, `UpdateSkip`, `UpdateContinue`, `UpdateFinish`, `UpdateSession`, `EndUpdate` |
| `update_draft_token_ids()` | part of `EndUpdate` |
| `add_request()` | `AddRequest`, `StreamingUpdate` |
| `finish_requests()` | `FinishRequests` |
| `reset_prefix_cache()` | `BeginReset`, `ResetPreempt`, `EndReset` |
| the grammar thread | `GrammarReady` |

`SplitPD` selects `schedule_split_pd`, which visits the waiting requests first and the running ones
only if none was admitted; the loops are the same.

Abstractions. Tokens are counted. The model's answer is any number of accepted drafts, and a stop
token where `EarlyStop` allows one. A prefix-cache lookup returns any hit in `CacheHits` below the
last token. `KVCacheManager`, `RequestQueue`, `Request` and the asynchronous scheduler's
placeholders are not in this source tree and are modelled from how `scheduler.py` uses them.

### 2.2 PatchScripts

`tree` maps each file to the name of its content: absent, the wheel's original, a partial copy, or a
version installed by a script or by hand. `backup` has one slot for `.bak`, one for `.bak.prepatch`
and one for `install.sh`'s directory. A script visits its files one by one (`Skip`, `TargetMissing`,
`BackUp`, `Overwrite`, `Restore`, `Delete`), and `Interrupt` may end it between any two commands.
With `CopiesMayFail` a `cp` may leave a partial file and `set -e` ends the script, except where
`minimax/apply_patch.sh` ignores a failing backup. What differs between the six scripts is in six
operators: `Compares`, `Slot`, `BacksUp`, `MarkerFound`, `IgnoresFailedBackup`, `Revertible`. Dry
runs, cache cleaning and messages are left out: they change no file of the packages.

### 2.3 RequestService

A client's request is accepted, answered in portions of at most `NumSpecTokens + 1` tokens, and
closed once: at its limit, at a stop token, or by an abort. `SchedulerProperties!Service` maps a
request's status to `state` and its outputs to `received`. Preemption, reset, drafts and every step
inside `schedule()` map to stutters. Sessions are left out of the mapping, because they are answered
more than once.

### 2.4 KVTransfer

The same scheduler seen from its blocks. They have an identity here, because requests share them and
loads fail block by block, and each step is answered before the next is scheduled. `filled[b]` (how
much of a block is right) and `req[r].wrong` are history variables. Actions follow the code:
`RemoteReady` and `RemoteSkip` (`_update_waiting_for_remote_kv`), `ConnectorUndecided`,
`WaitingLoad`, `WaitingAdmit` (the waiting loop), `HandleInvalidBlocks`, `Answer`, `EndUpdate`
(`update_from_output`, `_update_from_kv_xfer_finished`), `Abort` with the delayed free. `LoadFails`,
`LoadEnds` and `SendEnds` are the connector, which is not in this tree. The two passes of
`_update_requests_with_invalid_blocks` over the waiting and the running requests are the fold
`TruncateAll`, whose accumulator holds that function's local variables.

### 2.5 ModelRunner

The engine is reduced to what reaches the worker (`Schedule`, `Update`, `Abort`). The worker is
modelled as it is: `CaptureGraph`, `CaptureDraftGraph`, `CaptureDone`, `Execute` (`execute_model`
with finish, free, add and update of requests in the code's order, and `prepare_inputs`),
`SampleTokens` (`sample_tokens`, `postprocess`, the whole draft step), `TakeDraftTokenIds`. The p-th
token of r is `<<r, p>>`, so that a buffer with the token of another request or position is seen at
once. Each output carries `expected`, the scheduler's own tables, to compare with.

### 2.6 Startup

A *world* is what a server is started with: options, configuration, speculative options, config.json
of target and draft, the files of the checkpoint, the streams the draft was trained on. `Configure`
is `SpeculativeConfig` and `VllmConfig.__post_init__`; then each rank runs `InitDevice`, `LoadFile`
once for each file in any order, `FinishTarget`, `LoadDraft` and `SetAux`. The first exception ends
the server. Names of tensors are records, and `Within` says which name contains which, because the
code rewrites substrings. Ranks of one tensor-parallel group load alike and are left out.

### 2.7 GlmAttention and SparseBackend

Both follow the identity of keys instead of numbers: a softmax is the set of tokens it weighs, a
score a small integer. In `GlmAttention` a step is `BeginStep`, one `RunLayer` per layer and
`EndStep`. In `SparseBackend` each forward is an action: `Extend`, `Decode`, `Verify`; `Capture`
freezes in a graph what Python computes once, and a replay reads the fixed buffers again.
`VerifyOverflows` is the forward that raises an exception (section 3.3). In `GlmAttention` the
longest request the indexer takes for a decode is a field of the mode (`threshold`), because the
builder that decides it is not in the repository. The bitonic networks of
`BlockTopk` are evaluated lane by lane and stage by stage. `SparseMLA` has the split of a batch over
compute units (`get_best_streamk_config`) and the quarters of a head in the order the kernels store
them.

## 3. What the runs check

Scheduler (`MCScheduler`): three requests whose prompts fill more than a block, a block and
less than a block, on a cache of three or four blocks of two tokens each, so that any two requests
compete for blocks and at least one is preempted on some path.

| Run | Instance | Shows |
|---|---|---|
| `SchedulerSync` | FCFS, one draft token, one reset, an abort, a grammar that may shorten drafts; fair engine and grammar threads | preempted requests wait first, the scheduler implements `RequestService`, every request finishes |
| `SchedulerAsync` | two stages with balanced batches, two steps in flight, drafts, an abort | running list and waiting queue agree with the statuses whatever became of a request before its answer came, no block leaks, optimistic counts are covered by blocks and settled by the answers, no request runs again before its late answer has come, resumed requests are announced as such |
| `SchedulerPriority` | `schedule_split_pd`, eviction by priority; fair threads | `schedule()`'s assertions hold; refunds, index, output and blocks are right when the victim was just scheduled; every request finishes although decodes wait for prefills |
| `SchedulerSessions` | a session with a further chunk and a close, aborted anywhere | queues agree with statuses and the session is never lost, its counter is exact, its tokens are prompt and outputs |

Patch scripts (`MCPatchScripts`): for each script one or two files of its own and those it shares
with another.

| Run | Instance | Shows |
|---|---|---|
| `PatchesApart` | DSpark, MTP, EAGLE3, evalscope: no common file | originals recoverable at every state, reverts restore them |
| `PatchesFail` | GLM, MiniMax, EAGLE3, failing copies, a foreign package | an apply that ends has installed its patch |

The rest of the server:

| Run | Instance | Shows |
|---|---|---|
| `KVTransfer` | two requests with a common prefix, four deployments (loads inside or beside steps, both failure policies, scarce and ample blocks), one failing load | no answer from entries nobody wrote, no load into foreign blocks, every request and block comes back |
| `ModelRunner` | three deployments: drafts with preemption, steps in flight with chunked prefills, padded batches of three with aborts | slots follow the scheduler's tables, drafts start from their own complete context, padded rows are inert, graphs fit the buffer |
| `GlmAttention` | three requests, two drafts, three layers on two stages, three of the caches and devices, indexer thresholds of one and two tokens | every query weighs exactly the best keys; nothing fails but a decode of several tokens in the indexer |
| `GlmDraftDecodes` | the same with a threshold of 1 + drafts, as a comment has it | violated: the first such decode meets an assertion (3.3) |
| `SparseBackend` | six deployments, all orders of five blocks for one request, two requests with different keys | every path chooses the best blocks, reads each token once, stores inside its buffers and never sees a rejected draft |
| `Startup` | about five thousand worlds in six families | the second post-init changes nothing, every shard is loaded, a ready drafter is fed |

### 3.1 Bounds

Scheduler and scripts. Every request id is used once; `MaxChunks` and `MaxResets` bound what clients
send; token lengths are at most 9. The hazards concern two requests that compete for blocks, or one
request and its outputs in flight. Three requests are enough for an eviction that frees blocks for a
third party, two blocks per request for an allocation that grows, and two outputs in flight for an
answer that finds its request resumed. The lists of the scripts are longer than in the instances,
but a file interacts only with the scripts that have it in their list: one shared file and one
private file of each kind show every order. The theorems of section 5 hold without these bounds.

`KVTransfer`. Blocks of two tokens and prompts of four and three make a shared block, a private full
one and a partial one. `MaxFailures = 1` is one failing load, for any subset of its blocks. One
failure already meets both requests, the one that loads and the one that shares.

`ModelRunner`. Four slots for three requests, so that slots change hands; capture sizes `{1, 2, 4,
6, 16}` contain sizes that do and do not divide by the tokens of a decode, and one beyond the batch.
One preemption: what it leaves in a slot is read, or not, by the next owner.

`GlmAttention`. Numbers are scaled: 8 tokens a block, rows of 32, alignment 4 for 128, a logits
buffer small enough that a prefill takes several slices. One long request passes `TopK`, the others
stay below. Two drafts make verifications of two and of three tokens, so that a threshold of two
makes decodes of some and prefills of others.

`SparseBackend`. Two tokens a block, up to five blocks, two or three chosen of four or eight lanes:
fewer and more blocks than lanes, ties, forced blocks, and queries whose tile is partly absent. The
context of a request may be the longest one when a verification begins, so that the blocks its
drafts reach are those a graph was recorded for and no more.

`Startup`. One family of worlds for each part of the post-init, and one each for speculative
options, models and drafts; options that meet in one condition are varied together, others held
fixed. Two layers are enough for a dense and a sparse one, or one on each stage. Three experts on
two or three ranks with up to two redundant ones give local, remote and replicated experts.

Deadlock is not checked where a system may stop: when all requests have finished and no client has
anything to send (scheduler, `KVTransfer`, `ModelRunner`, `GlmAttention`), or when an exception has
ended the server or it has become ready (`SparseBackend`, `Startup`). The patch scripts can always
be started again and are checked for deadlock.

### 3.2 Fairness

Liveness is checked under `FairSpec`. The engine thread's steps are weakly fair: it is a loop that
never waits while it has work. So is each grammar's compilation. In `KVTransfer` the end of a load
and of a sending is strongly fair, because the engine takes reports only between two answers and
switches the action off in between; a connector that never answers is outside the promise. Clients
are under no fairness. Resets are bounded and are no part of what must happen, but one that has
begun ends, because it runs in the engine thread. The other runs state safety only.

### 3.3 Preconditions, and observations behind them

What the code does where a property would not hold, or a comment says otherwise. Each was seen as a
counterexample of a larger instance or while the lines were translated. The passing runs leave the
case out, as said in each item.

Scheduler:

* A session preempted while its step is in flight, and stopped by that step's answer, is added to
  the waiting queue (`scheduler.py:2118`) and removed from it by the same call (2030). It stays in
  `self.requests` for ever. The next chunk of such a session starts from zero computed tokens
  (1584), and the old prompt is deleted with the last output token. Sessions are checked with one
  step in flight (`SchedulerSessions`).
* A reset with a step in flight samples one position twice (2362): the flag that should discard the
  late answer is never read in this file. With three pipeline stages a request preempted and
  readmitted overtakes its own unanswered step; a synchronous engine needs a reset and two stages for
  it. `AwaitedAreComputed` is checked and proved for `Orderly` engines: one step in flight, or two
  and no reset.
* `num_lookahead_tokens` stays 0 for DSpark (207-216): `NumLookahead` is 0 or the number of drafts,
  and each occurs in a run with drafts. Asynchronous scheduling is refused for DSpark
  (`config/vllm.py:595-650`).

KV transfer:

* `num_cached_tokens` is stale after a preemption, and a synchronous load that fails after the
  request was resumed can go unnoticed. `resumed_load` is off in the synchronous deployments.
* With the recompute policy invalid blocks stay in the cache until the request has recomputed them;
  aborting, preempting or chunking that request leaves them. The deployment with shared blocks and
  that policy has room for all requests, no aborts, and a chunk as long as a prompt.
* With the fail policy, loads inside the steps and a common prefix, a request whose invalid blocks
  were all marked by an earlier request of the same pass (2646) is failed too, but what it computed
  behind them is not evicted. TLC finds `EntriesAreThere` violated with two requests that share one
  block and one failed load. The deployment with this policy and such loads has no common block, and
  the theorems about entries are stated for `Careful` (section 5).
* The `finished_recving` id of a request aborted meanwhile stays in the set. Ids are used once.
* A synchronous load with a speculator and chunked prefills overwrites drafts; the modelled
  deployments have no speculator.

Runner and speculator:

* `draft_seq_lens` counts the query tokens twice (`dspark/speculator.py:602` and 901; the comment at
  143-145 says once). The model follows which tokens the context holds, not how far behind them the
  attention reads.
* Drafts proposed for a request that is still prefilling are kept (`scheduler.py:2187`) and may be
  scheduled with the rest of the prefill (397-410, 516-529). The step then ends behind the prefill,
  and `combine_sampled_and_draft_tokens` (`model_runner.py:654`; the kernel is not in this tree)
  writes the slot's last sampled token, which is that of an earlier request, over the last position
  of the prompt. TLC shows it with two drafts and chunks of two tokens. `OwnTokens` is checked and
  proved for `WholePrefills`: a runner that drafts gets each prefill, that of a resumed request with
  its answers included, in one step. The server of `start.sh` gives a step 8192 tokens and does not promise this of longer prompts.
* A session on this runner leaks its slot. Sessions are not part of `ModelRunner`.

MiniMax backend and kernels:

* A verification batch larger than the largest graph raises an exception
  (`minimax_sparse_backend.py:540`; the comment above promises temporaries). It is the action
  `VerifyOverflows`, after which nothing is claimed.
* `_topk_index_merge_kernel` stores as many entries as the next power of two of `topk` without a
  mask (`decode_flash_with_topk_idx.py:772-780`): with another `topk` it writes into the next row.
  `MergeStores` models it and `StoresInBounds` speaks of it; `ConfigAssumption` of `SparseBackend`
  demands a power of two of every deployment that decodes. `static_assert(BLOCK_SIZE_K > topk)` is
  too weak for other values of `topk`, and decode lacks the assertion `init + local <= topk` of
  prefill, which `ConfigAssumption` demands too.
* `_merge_attn_out_kernel` divides by zero for a row of length 0, which the backend's fill value 1
  avoids. NaN scores become -1e30 and tie with absent lanes; scores in the model are numbers.

GLM attention:

* The indexer's kernel for decodes takes one token per request (`assert next_n == 1`,
  `paged_mqa_logits.py:259`). The comment `sparse_attn_indexer.py:289-292` says that the threshold
  below which a request is a decode is 1 + speculative tokens; with it the first verification, or a
  prompt of two tokens, would meet the assertion (`GlmDraftDecodes`, a finding). The builder that
  sets the threshold is outside this source tree, and `flashmla_sparse.py:409-411` takes single
  tokens for its own decodes. `OnlyLongDecodesFail` is checked and proved for any threshold,
  `NothingFails` proved for a threshold of one. Padding of decodes of different lengths matters only
  beyond the assertion, and is modelled as far as `next_n`.
* The comment `deepseek_v2.py:836` that full layers write before shared layers read is not true for
  a pipeline stage that begins with a shared layer: `StagesAssumption`.
* `MAX_Q_CHUNK` of 0 is raised to 1 and padded to 128 rows, and the view does not fit the logits
  buffer, when a prefill chunk exceeds 4,194,304 keys: `BuffersAssumption`.
* `head_no_split` stores quarters swapped for 128 heads (`sparse_mla_fwd.py:1153-1160`). It is
  launched only with a tail, and calls of a batch of one have none: proved (section 5).
  `get_best_streamk_config` counts with tiles of 32 heads where the kernel uses 16; `lse` is
  uninitialised for one split and nobody reads it here.
* With `USE_FUSED_RMS_QUANT` the indexer gets `q_c` before its normalisation (`mla.py:150-158`). The
  start script does not set it.

Startup:

* `VLLM_USE_CUDA_GRAPH_SIZES` makes a list of sizes that is not ascending (the docstring at
  `config/vllm.py:1125` says it is), and a second post-init raises a `ValueError` for some maxima;
  sequence parallelism with more ranks than the largest size ends in an assertion. `ConfigSettles`
  is stated for `OrderlySizes`.
* The hybrid KV cache stays enabled when the connector comes from `kv_offloading_size`, contrary to
  the comment near 969: the connector is created after the decision. The model follows the code.
* An auxiliary stream `L - 1` is collected with a final stream too many, and `L` never, contrary to
  the comment near `deepseek_v2.py:1561`: worlds name earlier streams, in ascending order.
* The loader's `continue` inside its loop over chunks reports names that were not mapped. With the
  unquantised NN layout under pipeline or expert parallelism this raises a `KeyError`; that layout
  is left out.
* Names of a draft's checkpoint that `load_weights` does not know are passed over silently. That
  DSpark does not run on several stages is found only after everything was loaded; the model does
  the same.
* `model_type in ("pangu_ultra_moe")` tests for a substring; the comment "considered as draft_model
  by default" stands above a `NotImplementedError`; the module of the DFlash speculator is not in
  the tree.

Patch scripts:

* A backup cut short by a failing `cp` is taken for the backup ever after
  (`dspark/apply_patch.sh:97`): the runs with failing copies check only that the patch is installed.
* On the machine the DSpark patch was taken from, revert keeps the modified files, which have no
  `.bak`, and deletes the modules they import (`dspark/revert_patch.sh:62`): trees begin as the
  wheel's.
* GLM's script run again after DSpark's on the file they share, and MiniMax's run twice, copy a
  patched file over `.bak`: `OriginalRecoverable` is checked for scripts without a common file and
  without `minimax`.

## 4. The properties

`ScheduleAssertions`, `ScheduledAreRunning`, `ResumedNotInPrevStep` and `WaitingHasWork` are
assertions of the code or what its callers rely on, checked in every state between two iterations.
`SettledRequestHasWork` and `AwaitedAreComputed` relate the optimistic counts to the outputs in
flight: a request with no answer to come has something to compute, one with an answer to come has
computed all that is known of it. `ListsAgree` (`RunningAgreement` and `WaitingAgreement`) says that
a request is in the list its status says, which an answer has to get right for a request that was
preempted after its step; it speaks of `skipped \o waiting`, because the waiting loop sets requests
aside before it puts them back.

`EntriesAreThere` relates what a request counts as computed, and what the cache offers to others, to
what was really written; a block may be wrong between two steps only while a running request is
about to recompute it. `NoWrongAnswer` is its consequence for the client. `LoadsWriteOwnBlocks` is
why an abort must wait for the load.

`FollowsScheduler` compares two copies of the same counts that are never synchronised. `OwnTokens`
says for each input of the model whose token at which position it is. `DraftContextComplete` says
the same of the draft's cache, where rejected drafts leave entries that the next step has to
overwrite.

`ChoiceIsTopk`, `AttendsExactly` and `AttendsBest` compare every path of the code with one
definition of the best blocks or keys of a query (`Deserved`, `Best`), which no kernel uses.
`StoresInBounds` catches a shape frozen by a recording. `RejectedKeysGone` is what makes
verification repeatable.

`ConfigSettles` says that the post-init is idempotent on its own results. `EveryShardLoaded`
compares what `load_weights` wrote, through substrings, maps and replicas, with the list of tensors
each parameter is made of (`PartsOf`). `DrafterFed` compares the collected streams with those the
draft was trained on, for every way a config.json may name them.

## 5. What is proved

All proofs hold for every value of the constants that satisfies the named assumptions of `Scheduler`
(`RequestsAssumption`, `ConfigAssumption`, `AdmissionAssumption`, `EngineAssumption`), of
`KVTransfer` and of `ModelRunner` (`ConfigAssumption` each), of `PatchScripts` (`ScriptsAssumption`,
`ContentsAssumption`), of `GlmAttention` and of `SparseBackend` (`ConfigAssumption`; see there). Two
clauses of `ModelRunner!ConfigAssumption` are more than types: no more requests than tokens fit into
a step, which vLLM's `SchedulerConfig` verifies (outside this source tree), and no asynchronous
scheduling with the DSpark speculator, which `dspark/vllm_patches/modified/config/vllm.py:595-631`
refuses or switches off.

The library's induction theorems take an operator as a parameter, which the provers cannot
instantiate. What a fold returns is therefore proved with the least-number principle
(`RequestQueueLemmas!LeastNat`, from the well-foundedness of the natural numbers): a fold that
breaks a claim breaks it first at some element, and the element before it gives the contradiction.
`OnlyElements` (what a filtered queue holds), `FoldSum` (a sum over a set counts its units, so that
it does not depend on the order the fold takes), in `KVTransferProofs` `TruncateAllFacts` and
`TruncateExact` (what the pass over invalid blocks leaves each request) and in `GlmAttentionProofs`
`ChunksFit` (how a batch is divided) are proved in this way.

**Scheduler.** `SchedulerProofs!InductiveInvariant` shows `Spec => []IInv`, from which follow
`TypeCorrectness`, `RunningListAgrees`, `OutputListsRunningRequests`, `ResumedWasNotScheduled` and
`IndexStaysInList`. The conjuncts of `IInv` need one another:

* `TypeOK` is not inductive without `RunningAgreement`, because blocks are freed of what the running
  list holds.
* `ScheduledAreRunning` needs `LoopIndex`: under FCFS the victim is the last running request and is
  not looked up in what has been scheduled, which is right only because everything scheduled lies
  before the index.
* `LoopIndex` needs `RunningAgreement` (no request is listed twice) and the finiteness of
  `sch.continued`.
* `ResumedNotInPrevStep` needs `PreemptedSincePrevStep`: a preempted request of the previous step
  was preempted by this call, which then admits nobody (`ScheduleStages`), or by a reset that is
  about to clear the set.
* `UpdatesAnOutput` says that a visit has an output to read.

`SchedulerProofs` proves the type part action by action, `RequestQueueLemmas` the facts about removal
from a sequence. Four further invariants are built on `IInv`, each for one question.

*The service.* `SchedulerImplementsService` shows that `Spec` implements `RequestService`. It rests
on `ServiceInv`: an ordinary request is its prompt and an answer short of its limit
(`OrdinaryAnswers`), and no more drafts are planned, scheduled or in flight than the drafter
proposes (`DraftsBounded`), which bounds a portion. Of the steps, `UpdateContinue` and
`UpdateFinish` are portions, `FinishRequests` an abort, `AddRequest` an acceptance, and every other
step leaves status class and outputs of ordinary requests as they are.

*The queues.* `QueueInv` adds that the waiting loop puts back what it has skipped (`SkippedInLoop`),
and that a session leaves the running list only when its step has been answered (`SessionsInStep`).
From it follow `WaitingQueueAgrees`, `RequestsAreListed`, `PreemptedWaitFirst`, `ParkedSessionsCounted` and
`TokensAddUp`. They assume `OneStepOrNoSessions`: without it `WaitingAgreement` is false (section
3.3). `TokensAddUp` needs of a session that its prompt does not go beyond what is computed while it
waits (`SessionTokens`), because the next chunk drops the outputs behind the computed tokens.

*The blocks.* `BlocksAreAccounted` holds for every engine. A sum over requests is the number of
pairs of a request and a unit (`Units`, `Sum`), so that the theorems about finite sets apply and no
sum is computed by recursion.

*The tokens.* `TokenInvariant` shows `Spec => []TokenInv` for engines without sessions. `computed`
runs ahead of the answers, so that nothing can be said of it alone. The argument goes through what
is in flight: an asynchronous engine has a placeholder for each token it awaits
(`PlaceholdersAwaited`); a step computes of a request no more than is known and awaited of it, and
with drafts exactly that (`ScheduledCounts`); so the drafts an answer rejects are tokens that were
counted. The parts serve one another: `BudgetInv` and `LoopBehind` (the loop meets nobody twice)
give `AllocationFits`, that `SlotsHeld`, and the answers in flight give `WorkLeft`. From these follow
`ScheduleAssertionsHold` and `ComputedTokensStayInSlots`. `AwaitedStayComputed` assumes `Orderly`, in
which a request with an answer in flight is running or was preempted by the newest step
(`AwaitedRuns`), and a synchronous engine awaits one answer of it (`OneAwaited`); outside of
`Orderly` the property fails (section 3.3). `SettledRequestsHaveWork` assumes a synchronous engine,
two steps in flight or no drafts: else a late answer may take rejected drafts off a request that has
started again (`ComputedNat`).

**KV transfer.** `TransferInvariant` shows `Spec => []TransferInv` for every set of deployments, any
number of requests and blocks and any number of failing loads; the deployments of section 3.3 that
`EntriesAreThere` has to leave out are included. TLC checked `TransferInv` on all of them for small
caches first. Its parts need one another:

* `LoadsWriteOwnBlocks` needs the request of a load to be waiting for it, or finished and held
  (`LoadsUnderWay`), so that no step of the scheduler allocates, frees or caches for it meanwhile. A
  load's blocks are new when it begins, hence in no other table and without a key
  (`AllocatedApart`), and a cached prefix never contains them, because they have no key.
* `LoadsUnderWay` needs the reports: a load that has ended is in a report or in
  `finished_recving_kv_req_ids` and no longer under way, and only blocks of requests that are not
  loading are given back by `finished_sending`.
* `InvalidBlocksUnshared` carries this from the load to the report that reads it, one step later.
* `WaitingHasWork` needs of a request that still waits for its load that its last block begins
  before its last token (`RemoteHasWork`). Whichever block a load fails for, the pass over invalid
  blocks leaves the request a token to compute, and a complete load of the prompt leaves the last
  one.
* `QueuesAgree` and `ScheduleStages` say who is visited by which loop, and that a preempted request
  has not been scheduled by the same call.

Its consequences are `LoadsStayInOwnBlocks`, `WaitingRequestsHaveWork` (the assertion
`num_new_tokens > 0`) and `AsyncLoadsAreUnshared` (the comment "Async loading does not yet support
block sharing").

*The entries.* `EntriesInvariant` shows `Spec => []EntriesInv`, from which follow
`PromisedEntriesAreThere` and `NoAnswerIsWrong`. They are stated for `Careful` deployments: loads
beside the steps with either policy, or loads inside the steps with the fail policy, none for resumed
requests and no common block. What `Careful` leaves out is violated in a larger instance (section
3.3), and it takes in three of the four deployments of the run. In the fourth, loads inside the steps
with the recompute policy, the entries are right only because there is room for all; there they
are model-checked only. TLC checked `EntriesInv` first, on caches of 3 and 4 blocks with steps of 1,
2, 3 and 9 tokens and up to two failures, 500,000 to 1,700,000 states each.

In the middle of a step what a request counts is not yet written, so the invariant says for each
table position which of four it is (`Counted`, `Offered`, `Loaded`): the entries are there; the step
under way brings them (`Coming`: it loads the block, or computes it to its end); a load is still
writing them; or they are known to be missing, in a report, by the truncated count, or because their
request is about to fail. The other parts make each step keep that:

* `TablesInOrder` and `OwnBlocks` say whose entries a block has: a new block takes no entries from
  a table, and without common blocks an eviction hits only the failed request's keys.
* `StepLoads` says that a load inside a step is for a request in its first step, whose count of
  cached tokens is therefore fresh; that count is what the pass over invalid blocks looks through.
* `FailuresRemembered` and `InvalidIsRemote` say that an invalid block of a load beside the steps
  belongs to a request that still waits, so that no running request has counted it.
* `TruncateExact` gives the new count: up to the first invalid block, before which all is there.
* `RightAnswers`: a request that computed with wrong entries in `Execute` has an invalid block in
  what it counts, is therefore affected and gets no answer.

**Model runner.** `RunnerInvariant` shows `Spec => []RunnerInv` for any number of requests, slots,
blocks and capture sizes, any lengths, every deployment and any number of preemptions and aborts.
TLC checked the parts of `RunnerInv` on the instance of `ModelRunner.cfg` first (1,061,470 distinct
states). From it follow `WorkerFollowsScheduler`, `ReplayedGraphsFit` and, together with a conjunct
for the padding, `PaddingIsInert`.

The difficulty of `FollowsScheduler` is that it compares two parties that are never at the same
point: the engine has made up to two outputs the worker has not executed, and not yet read an answer
the worker has given. The argument is about what the worker *will* have of a request: `View(k, r)`
is the count and the block table of r in its slot once the batch under way is run and the first k
outputs are executed.

* `EngineAgrees`: behind all outputs, the view of a running request is the engine's request, less
  the rejected drafts the engine has still to read in an answer (`Owed`). The view of a preempted,
  waiting or reported request is nothing, so that its slot is free by then.
* `OutputsFit`: each output is addressed to the view before it. A new request is not yet there; any
  other one is, with the count and the table the scheduler wrote into the output. `Execute` then
  turns the first output into rows that agree, and every other view stays what it was.
* `Pipeline`: at most two steps are under way, one without asynchronous scheduling, so that a
  rejection changes no view an output is already addressed to. No view holds more requests than
  there are slots, which is why `add_requests` finds one free; and no two requests share a slot.
* `TokensKnown`: with one step under way a request has computed at most what is known of it, its
  drafts aside. Rejected drafts are therefore tokens that were counted: `num_computed_tokens` does
  not fall below what the worker has.
* `GraphsCaptured`: capture is over before the first request comes and begins with the largest size,
  so that the buffer its graph allocates has room for all others.

`PaddedRowsInert` needs of this only that a draft graph has no more rows than the buffers
(`DraftGraphSizes`) and what the rows consist of (`TypeOK`): each draft step clears all four fields
of every row its graph adds, three in the kernel of `prepare_dspark_inputs`, the lengths where the
attention metadata is built (`PreparedFacts`).

*The tokens.* `TokensAreOwn` shows `Spec => []OwnTokens` under `WholePrefills` (section 3.3 says
what happens without it). The scheduler sends the worker no sampled token, and of
the drafts it sends the runner uses only the number (`model_runner.py:579-590`), so what
`prepare_inputs` reads from a slot is right because both sides counted alike. `TokenInv`, on top of
`RunnerInv`, says why:

* `OutputsOwn`: a step ends inside the prefill and has no drafts, or it begins behind the prefill and
  is one token with its drafts. `RowOwn` says the same of the batch, with the token and the drafts it
  has read.
* `SlotOwn`: a slot's last sample is its request's token at the count the worker has, and its drafts
  begin one further, from the first sample on. Before that both may be a former owner's, and nobody
  reads them because a first step ends inside or at the end of the prefill.
* `KnownAhead`: the engine knows, or has placeholders for, at most one token more than what is
  computed. This is what makes the next step one token, and it is why a rejection has to be read
  before the next step is made.
* `PlaceholdersAwaited`: with steps in flight the placeholders of a request are the samples in
  outputs, batch and answers still to be read (`Awaited`). `PreemptedApart` keeps a resumed request
  apart from them: a preempted request has no part in the newest step, and with at most two under way
  (`Pipeline`) all that is older has been answered when it returns.
* `AnchorOwn`: the draft step began at the last token of the batch it was made from.

TLC checked `TokenInv` on the same instance first.

*The draft's context.* `DraftContextIsComplete` shows `Spec => []DraftContextComplete` in every
deployment with a speculator. Nobody clears an entry of the draft's cache: those of rejected drafts,
of the query tokens and of a block's former owner all stay, and the property says that none of them
is ever counted. `DraftInv`, on top of `RunnerInv`, says why (`DraftInvariant`):

* `WorkerTables`: in the worker's tables no block occurs twice, and each table has room for the
  positions it counts. This is about the tables as they are and as they will be after every output on
  its way, `View(k, r)` again: the scheduler hands a block on as soon as it has preempted or finished
  its owner, while the worker still has it in the old table.
* `EngineTables`, the same of the scheduler, from which the last of those views gets it. A step takes
  blocks off the free ones only, and `NewBlocksApart` shows that the requests of one step take
  different ones: each begins behind the sum of what those before it take.
* `RowTables`: a row of the batch has the table of its slot, so that a step stores where the counted
  positions are looked up.

`sample_tokens` stores the positions from the old count to the last valid one, then the query tokens
behind it. With the tables apart (`SlotsApart`) neither is a place of another position, whoever its
request is: `StoredAt`. `execute_model` stores nothing; a table grows at its end, which leaves the
places of all counted positions alone (`SlotsKept`), or is replaced together with the count, which
begins at 0. TLC checked `DraftInv` on the same instance first.

**Patch scripts.** `PatchTypes` and `ApplyInstalls` hold for every set of scripts, every tree and
failing copies; the invariant is that a running apply leaves its patch behind it (`AppliedSoFar`).
`OriginalStays` and `RevertRestores` assume `ScriptsApart`: no two scripts overwrite the same file,
`minimax` is not among them, every copy is whole and the machine starts with the wheel's files.
Section 3 says what happens without each of these conditions; the instance of `PatchesApart`
satisfies them. The invariant is `Kept`: a file is the original or the patch of its one script,
which then has the original in the backup, and has it already when it is about to overwrite the
file. `KeepsBackup` is the argument for the scripts that do not always back up: `install.sh` finds
its marker only in a file that is not the original.

**Sparse attention of GLM.** `sparse_mla_fwd.py` has a kernel that stores the quarters of a head in
another order than the others. `SingleBatchHasNoTail` shows that for one row, which is how this
server calls it, whatever the device and the number of heads, the chosen split has no tail, so that
kernel is never launched. The argument: in `StreamKFits` an item either fills the compute units, and
there is a head and no tail, or is all tail, and then `FastConfig` replaces the choice by one
without. `SingleBatchLaunches` shows that every such split passes the assertions of the launch, and
`SingleBatchInOrder` that therefore the columns of the result are in order. `AttendsBest` checks the
consequence on the instance of `GlmAttention`. Assumed are `KernelAssumption` (some compute units,
tiles of some size), and for the launch that `index_topk` is a multiple of 32 tiles and that more
heads than one tile holds fill their tiles.

`OnlyLongDecodesMayFail` shows `Spec => []OnlyLongDecodesFail`: whatever the threshold of the
indexer's builder, the only thing in a forward that can fail is the assertion of its decode kernel,
and only with a request of several tokens among the decodes. `SingleDecodesNeverFail` is its
consequence `Spec => []NothingFails` where every threshold is one token, so that verifications go
through the prefill branch; with a longer one that is false (section 3.3). To be shown is that no
view fails to fit the logits buffer and no launch is refused. Two things must be known of every
batch, and for both a step must be well formed, which is `ForwardInv`:

* the lengths of a batch are the contexts its requests will have, within the model's length
  (`LengthsFit`; it needs `ContextsFit`, that a request left between steps has room for a token, which
  `EndStep` and the cut of a decode at the longest context in `Shares` maintain together);
* every request of the batch has a row (`RowsCover`), so that no chunk asks for a launch without
  rows, for which the choice of a kernel is not defined.

From these: `ChunksFit`, that no chunk of `split_prefill_chunks` is empty or has more keys than the
buffer holds, by induction over the requests of the batch; `SlicesAreShort`, that a slice has at most
`MAX_Q_CHUNK` rows; and `RowsFit`, that so many rows, rounded up to tiles, times the keys, rounded up
to tiles, fit. The last one holds only because `MAX_Q_CHUNK` is itself rounded down to tiles (the
mutant `MaxQChunkUnaligned` is not) and because `BuffersAssumption` leaves room for one tile of rows
with a full buffer of keys: below that `max(1, ...)` in `sparse_attn_indexer.py:172` would ask for a
row that does not fit. The buffer of `16384 * 32768` elements satisfies it for prefill buffers of up
to 4 194 304 keys; the size of those is chosen outside this source tree. The other assumptions are
types (`RequestsAssumption`) and `ModesAssumption`, the two conditions on `index_topk` and heads above.

**Sparse attention of MiniMax.** `BackendInvariant` shows `Spec => []BackendInv`, together with
`StoresInBounds` and `IndexAttendsAll`, for every set of deployments: any sizes of blocks, tiles and
programs, any recorded batch sizes, numbers of drafts and lengths, any keys. TLC checked `BackendInv`
on the instance of `SparseBackend.cfg` first. What makes a replay right is in its parts:

* `GraphsFit`: a recorded graph has the width of the longest context with the drafts behind it and a
  row for each draft of each
  request it is padded to, although it was recorded with lengths of 1. `Capture` gets the width from
  `score_max_seqblock_k`, not from the lengths of the moment (the mutant `ScoreWidthLive`), so that
  `ColumnsFit` holds for any position a replay may meet.
* `BuffersFit`: the three buffers are as long as the largest recorded size, which is why the slice of
  every replayed size is (`LargestGraph`, `FilledBuffers`): `ReplayBuffers` gives the lengths and the
  first rows the kernels then read.
* Rows of different requests are apart, because a request's rows end before those of the next begin:
  for prefill by the sums of the lengths before it (`RowsApart`), for verification by equal steps
  (`EqualRowsApart`).
* `RejectedKeysGone`: a verification stores its rejected keys only behind the length it leaves
  (`OwnKeysStored`), and what is stored next begins at that length. `VerifyOverflows` stores keys too,
  but leaves the lengths.

`NoRejectedKeyCounts` and `StoresStayInBounds` follow. `IndexHeadAttendsAll` is the first half of
`AttendsExactly`. For prefill and verification `SeenTokensExact` shows that a program that skips the
mask for tiles in front of the diagonal masks neither too little nor too much, because the diagonal
is rounded down to a tile at the first query of the program. For decode `IndexDecodeExact` shows that
the chunks the merge reads are exactly those that hold blocks, whatever the number of chunks, and
that each position is in one of them. Of `ConfigAssumption` the proofs use that the sizes are
positive, the recorded sizes finitely many, the requests with keys among `Requests`, and that a
deployment that decodes has a `topk` that is a power of two, which is what keeps the stores of the
merge inside their rows; the rest is for the choice of blocks.

**Only model-checked.** Liveness under fairness: `EveryRequestFinishes`, `RemoteRequestReturns`,
`BlocksReturn`. The token accounts of sessions, whose answers replace their prompt. `NoWrongAnswer` and
`EntriesAreThere` of `KVTransfer` where a synchronous load that fails is recomputed. Of
`SparseBackend`, `ChoiceIsTopk` and the half of `AttendsExactly` that is about the main head,
`AttendsChosenOnce`: both rest on what the networks of `BlockTopk` compute, stage by stage, which is
checked for bounded inputs only. `AttendsBest` of `GlmAttention`, and every property of `Startup`.

## 6. Not modelled

Scheduler: encoder inputs (1614-1785; GLM-5.2 takes text only), LoRA, Mamba alignment, pooling
requests, statistics and events. A chunk that makes a session longer than the model, or an empty
one: the front end that might refuse them is not in this source tree, and `StreamingUpdate` assumes
it does. KV transfer: the path `VLLM_USE_DP_CONNECTOR`; loads are block-aligned or the whole prompt.

Runner and worker: sessions, dummy runs, multimodal embeddings, attention metadata builders, sleep
and wake-up, memory profiling, the pipeline hand-over, elastic expert parallelism. What the models
compute and sample.

Configuration and loading: hashes, attention settings, Mamba blocks and what a platform changes;
scales of quantised weights and their layouts; `glm4_moe_lite`; the MiniMax models and their
loaders.

GLM attention: context parallelism (`enable_lightly_cp`), FP8 index keys, the MTP layer. A preempted request does not return.

The arithmetic of kernels and layers, rounding included, is out of reach of a model checker. The MTP
quantisation patch, the evalscope adapter, the diagnostics, start scripts and tests are numeric
code, text processing or commands without state.

## 7. Plan

In order:

1. Proofs: the bitonic networks of `BlockTopk` with a lemma for each stage, then `ChoiceIsTopk` and
   the main head's half of `AttendsExactly`; `ConfigSettles` of `Startup`.
2. Proofs: the token accounts of sessions; the entries of `KVTransfer` for synchronous loads with
   the recompute policy, with room for all.
3. `EncoderBudget` and the Mamba-aligned split of a prefill, added to `Scheduler`'s loops; LoRA's
   limit on admission.
4. Sleep and wake-up, memory profiling and the pipeline hand-over of `gpu_worker.py`, after
   `Startup`.
5. Sessions and dummy runs in `ModelRunner`.
6. Scheme selection and weight loading of the MiniMax models, in the manner of `ModelLoading`.
7. Context parallelism and the MTP layer in `GlmAttention`.
