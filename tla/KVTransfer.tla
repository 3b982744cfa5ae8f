------------------------------- MODULE KVTransfer -------------------------------
(***************************************************************************)
(* The KV-transfer side of the request scheduler (v1/core/sched/           *)
(* scheduler.py, with a KV connector): tokens whose KV-cache entries are   *)
(* loaded from elsewhere instead of being computed, either inside a step   *)
(* of the model (sync) or beside several steps (async), loads that fail    *)
(* for some blocks, and blocks the connector still reads after a request   *)
(* has finished.                                                           *)
(*                                                                         *)
(* Blocks have an identity here, because requests share them and loads     *)
(* fail block by block.  `filled[b]` is not in the code: the number of     *)
(* leading tokens of block b whose entries are right.  The model of        *)
(* preemption, drafts, sessions and steps in flight is in Scheduler; here  *)
(* each output of schedule() is answered before the next one.              *)
(***************************************************************************)
EXTENDS Integers, FiniteSets, FiniteSetsExt, Functions, RequestQueues

CONSTANTS
    Requests,        \* request ids, each used once
    NoRequest,       \* not a request id
    PromptLen,       \* [Requests -> Nat \ {0}]
    MaxTokens,       \* [Requests -> Nat \ {0}], outputs after which a request ends
    BlockSize,
    Chunk,           \* long_prefill_token_threshold: new tokens per step at most
    MaxFailures,     \* bound: loads that fail for some of their blocks
    Configs          \* deployments to choose from, see ConfigAssumption

\* blocks: blocks of the KV cache; shared: tokens at the head of every prompt that
\* are the same; recompute: kv_load_failure_policy; async:
\* the connector loads beside the steps, else inside them; abort: clients abort
\* requests; resumed_load: it loads for a resumed request too; delay: it may go on
\* reading the blocks of a finished request.
ASSUME ConfigAssumption ==
    /\ NoRequest \notin Requests
    /\ PromptLen \in [Requests -> Nat \ {0}] /\ MaxTokens \in [Requests -> Nat \ {0}]
    /\ BlockSize \in Nat \ {0} /\ Chunk \in Nat \ {0}
    /\ MaxFailures \in Nat
    /\ Configs \subseteq [blocks : Nat, shared : Nat, recompute : BOOLEAN,
                          async : BOOLEAN, abort : BOOLEAN, resumed_load : BOOLEAN,
                          delay : BOOLEAN]

VARIABLES
    cfg,             \* the deployment
    req,             \* the Request objects
    waiting, running,
    table,           \* block ids of each request
    key,             \* content a block is cached under, NoKey if none
    filled,          \* tokens of a block whose entries are right
    phase,           \* where the engine thread is
    sch,             \* the local variables of schedule(), then its output
    finished_recving_kv_req_ids,
    failed_recving_kv_req_ids,
    loading,         \* requests an asynchronous load is under way for
    load,            \* [position -> block] such a load has still to write
    held,            \* finished requests whose blocks the connector still reads
    report,          \* what the worker's connector reports with the next answer
    failures

engineVars == <<req, waiting, running>>
cacheVars == <<table, key, filled>>
recvVars == <<finished_recving_kv_req_ids, failed_recving_kv_req_ids>>
workerVars == <<loading, load, held, report, failures>>
vars == <<cfg, engineVars, cacheVars, phase, sch, recvVars, workerVars>>

--------------------------------------------------------------------------------
(* Requests and blocks *)

Statuses == {"NONE", "WAITING", "WAITING_FOR_REMOTE_KVS", "RUNNING", "PREEMPTED",
             "FINISHED"}

NotScheduledYet == -1

\* cached: num_cached_tokens, set when the request is first scheduled; wrong is
\* not in the code: an answer was accepted that was computed from wrong entries.
NewRequest(r) ==
    [status |-> "NONE", tokens |-> PromptLen[r], computed |-> 0,
     cached |-> NotScheduledYet, preempted |-> FALSE, wrong |-> FALSE]

Live(r) == req[r].status \notin {"NONE", "FINISHED"}

CeilDiv(a, b) == (a + b - 1) \div b
Least(a, b) == IF a <= b THEN a ELSE b
Most(a, b) == IF a >= b THEN a ELSE b

Blocks == 1 .. cfg.blocks
NoKey == <<NoRequest, 0>>

\* What the i-th block of r holds: requests agree on their first cfg.shared tokens.
Key(r, i) == IF i * BlockSize <= cfg.shared THEN <<NoRequest, i>> ELSE <<r, i>>

Held(r) == {table[r][i] : i \in DOMAIN table[r]}
FreeBlocks == Blocks \ UNION {Held(r) : r \in Requests}

\* KVCacheManager.get_computed_blocks: the longest cached prefix that leaves at
\* least one token to compute.
LocalHit(r) ==
    LET hit == {n \in 0 .. (req[r].tokens - 1) \div BlockSize :
                  \A i \in 1 .. n : \E b \in Blocks : key[b] = Key(r, i)}
    IN  [i \in 1 .. Max(hit) |-> CHOOSE b \in Blocks : key[b] = Key(r, i)]

\* Sets of n free blocks outside `hit` that may be taken: no cached block as long as
\* there are others, which are interchangeable.
Available(n, hit) ==
    LET free == FreeBlocks \ Range(hit)
    IN  {new \in kSubset(n, free) :
           \A b \in new, c \in free \ new : key[c] = NoKey => key[b] = NoKey /\ b < c}

Ascending(S) ==
    [k \in 1 .. Cardinality(S) |-> CHOOSE x \in S : Cardinality({y \in S : y < x}) = k - 1]

\* KVCacheManager.allocate_slots: r gets the blocks `hit` and new ones for
\* `total` tokens; those of the first `cached` tokens are entered in the cache.
Allocate(r, hit, total, cached) ==
    LET missing == Most(0, CeilDiv(total, BlockSize) - Len(hit))
    IN  \E new \in Available(missing, hit) :
          LET t == hit \o Ascending(new)
          IN  /\ table' = [table EXCEPT ![r] = t]
              /\ filled' = [b \in Blocks |-> IF b \in new THEN 0 ELSE filled[b]]
              /\ key' = [b \in Blocks |->
                   IF \E i \in 1 .. cached \div BlockSize : t[i] = b
                   THEN Key(r, CHOOSE i \in DOMAIN t : t[i] = b)
                   ELSE IF b \in new THEN NoKey ELSE key[b]]

Fits(hit, total) ==
    CeilDiv(total, BlockSize) - Len(hit) <= Cardinality(FreeBlocks \ Range(hit))

--------------------------------------------------------------------------------
(* schedule() *)

NoSchedule ==
    [index |-> 1, preempted |-> FALSE, skipped |-> <<>>,
     num |-> [r \in Requests |-> 0], sync |-> [r \in Requests |-> {}],
     right |-> {}, pending |-> {}, failing |-> {}]

AddRequest(r) ==
    /\ phase = "engine" /\ req[r].status = "NONE"
    /\ req' = [req EXCEPT ![r].status = "WAITING"]
    /\ waiting' = Append(waiting, r)
    /\ UNCHANGED <<cfg, running, cacheVars, phase, sch, recvVars, workerVars>>

BeginSchedule ==
    /\ phase = "engine" /\ \E r \in Requests : Live(r) \/ r \in held
    /\ phase' = "running"
    /\ UNCHANGED <<cfg, engineVars, cacheVars, sch, recvVars, workerVars>>

NewTokens(r, computed) == Least(req[r].tokens - computed, Chunk)

InRunningLoop == phase = "running" /\ sch.index <= Len(running)

RunningSchedule ==
    /\ InRunningLoop
    /\ LET r == running[sch.index]
           n == NewTokens(r, req[r].computed)
       IN  /\ Fits(table[r], req[r].computed + n)
           /\ Allocate(r, table[r], req[r].computed + n, req[r].computed + n)
           /\ sch' = [sch EXCEPT !.index = @ + 1, !.num[r] = n]
    /\ UNCHANGED <<cfg, engineVars, phase, recvVars, workerVars>>

\* _preempt_request for the last running request, which the loop has not reached.
RunningPreempt ==
    /\ InRunningLoop
    /\ LET r == running[sch.index]
           v == Last(running)
       IN  /\ ~Fits(table[r], req[r].computed + NewTokens(r, req[r].computed))
           /\ running' = Front(running)
           /\ waiting' = <<v>> \o waiting
           /\ req' = [req EXCEPT ![v].status = "PREEMPTED", ![v].computed = 0,
                                 ![v].preempted = TRUE]
           /\ table' = [table EXCEPT ![v] = <<>>]
    /\ sch' = [sch EXCEPT !.preempted = TRUE]
    /\ UNCHANGED <<cfg, key, filled, phase, recvVars, workerVars>>

RunningDone ==
    /\ phase = "running" /\ ~InRunningLoop
    /\ phase' = IF sch.preempted THEN "close" ELSE "waiting"
    /\ UNCHANGED <<cfg, engineVars, cacheVars, sch, recvVars, workerVars>>

InWaitingLoop == phase = "waiting" /\ waiting # <<>>

SkipHead ==
    /\ waiting' = Tail(waiting)
    /\ sch' = [sch EXCEPT !.skipped = Append(@, Head(waiting))]

\* Mutant of CacheUpTo: everything the load wrote is cached, failed or not.
CacheWholeTable(r, n) ==
    key' = [b \in Blocks |->
              IF b \in Held(r) THEN Key(r, CHOOSE i \in DOMAIN table[r] : table[r][i] = b)
              ELSE key[b]]

\* KVCacheManager.cache_blocks
CacheUpTo(r, n) ==
    key' = [b \in Blocks |->
              IF \E i \in 1 .. Least(n \div BlockSize, Len(table[r])) : table[r][i] = b
              THEN Key(r, CHOOSE i \in DOMAIN table[r] : table[r][i] = b)
              ELSE key[b]]

\* Mutant of LoadedTokens: a load of the whole prompt leaves nothing to compute.
LoadedTokensUnreduced(r) == Least(Len(table[r]) * BlockSize, req[r].tokens)

\* Tokens a finished load counts for: all of its blocks, but the last token of the
\* prompt is computed again, because its output is needed.
LoadedTokens(r) ==
    LET n == Least(Len(table[r]) * BlockSize, req[r].tokens)
    IN  IF n = req[r].tokens THEN n - 1 ELSE n

StillFailed(r) == failed_recving_kv_req_ids \ {r}

\* _update_waiting_for_remote_kv for a finished load; the request stays the head.
RemoteReady ==
    /\ InWaitingLoop
    /\ LET r == Head(waiting)
           failed == r \in failed_recving_kv_req_ids
           n == IF failed THEN req[r].computed ELSE LoadedTokens(r)
       IN  /\ req[r].status = "WAITING_FOR_REMOTE_KVS"
           /\ r \in finished_recving_kv_req_ids
           /\ IF failed /\ n = 0
              THEN table' = [table EXCEPT ![r] = <<>>] /\ UNCHANGED key
              ELSE CacheUpTo(r, n) /\ UNCHANGED table
           /\ req' = [req EXCEPT ![r].computed = n,
                                 ![r].status = IF req[r].preempted THEN "PREEMPTED"
                                               ELSE "WAITING"]
           /\ finished_recving_kv_req_ids' = finished_recving_kv_req_ids \ {r}
           /\ failed_recving_kv_req_ids' = StillFailed(r)
    /\ UNCHANGED <<cfg, waiting, running, filled, phase, sch, workerVars>>

RemoteSkip ==
    /\ InWaitingLoop
    /\ req[Head(waiting)].status = "WAITING_FOR_REMOTE_KVS"
    /\ Head(waiting) \notin finished_recving_kv_req_ids
    /\ SkipHead
    /\ UNCHANGED <<cfg, req, running, cacheVars, phase, recvVars, workerVars>>

Admittable(r) == InWaitingLoop /\ r = Head(waiting)
                 /\ req[r].status \in {"WAITING", "PREEMPTED"}

\* get_num_new_matched_tokens answers None: the connector does not know yet.
ConnectorUndecided ==
    /\ InWaitingLoop /\ Admittable(Head(waiting)) /\ req[Head(waiting)].computed = 0
    /\ cfg.async
    /\ SkipHead
    /\ UNCHANGED <<cfg, req, running, cacheVars, phase, recvVars, workerVars>>

MayLoad(r) == cfg.resumed_load \/ ~req[r].preempted

\* Tokens a connector may have beyond the `local` first: whole blocks, or the rest
\* of the prompt if it is loaded beside the steps.
External(r, local) ==
    {n \in 1 .. req[r].tokens - local :
       /\ MayLoad(r) /\ local + n <= PromptLen[r]
       /\ \/ (local + n) % BlockSize = 0 /\ local + n < req[r].tokens
          \/ cfg.async /\ local + n = req[r].tokens}

Positions(from, to) == from \div BlockSize + 1 .. CeilDiv(to, BlockSize)

\* An asynchronous load: blocks are allocated, nothing is computed.
WaitingLoad ==
    /\ InWaitingLoop /\ cfg.async
    /\ LET r == Head(waiting)
           hit == LocalHit(r)
           local == Len(hit) * BlockSize
       IN  /\ Admittable(r) /\ req[r].computed = 0
           /\ \E n \in External(r, local) :
                /\ Fits(hit, local + n)
                /\ Allocate(r, hit, local + n, 0)
                /\ load' = [load EXCEPT ![r] =
                              [i \in Positions(local, local + n) |-> table'[r][i]]]
           /\ loading' = loading \cup {r}
           /\ req' = [req EXCEPT ![r].status = "WAITING_FOR_REMOTE_KVS"]
    /\ SkipHead
    /\ UNCHANGED <<cfg, running, phase, recvVars, held, report, failures>>

Admit(r, hit, computed, sync) ==
    LET n == NewTokens(r, computed)
    IN  /\ Fits(hit, computed + n)
        /\ Allocate(r, hit, computed + n, computed + n)
        /\ sch' = [sch EXCEPT !.num[r] = n, !.sync[r] = sync]
        /\ req' = [req EXCEPT ![r].status = "RUNNING", ![r].computed = computed,
                      ![r].cached = IF @ = NotScheduledYet THEN computed ELSE @]
        /\ waiting' = Tail(waiting)
        /\ running' = Append(running, r)

\* A request is admitted: with what a finished load has left it, or with the cached
\* prefix and possibly a load inside the step.
WaitingAdmit ==
    /\ InWaitingLoop
    /\ LET r == Head(waiting)
           hit == LocalHit(r)
           local == Len(hit) * BlockSize
       IN  /\ Admittable(r)
           /\ \/ req[r].computed > 0 /\ Admit(r, table[r], req[r].computed, {})
              \/ req[r].computed = 0 /\ Admit(r, hit, local, {})
              \/ /\ req[r].computed = 0 /\ ~cfg.async
                 /\ \E n \in External(r, local) :
                      Admit(r, hit, local + n, Positions(local, local + n))
    /\ UNCHANGED <<cfg, phase, recvVars, workerVars>>

\* Mutant of LeaveWaitingLoop: the skipped requests are dropped.
LeaveWaitingLoopDropping ==
    /\ sch' = [sch EXCEPT !.skipped = <<>>]
    /\ phase' = "close"
    /\ UNCHANGED waiting

\* The skipped requests return to the head of the queue, in their order.
LeaveWaitingLoop ==
    /\ waiting' = sch.skipped \o waiting
    /\ sch' = [sch EXCEPT !.skipped = <<>>]
    /\ phase' = "close"

\* The head does not fit: nobody behind it is looked at.
WaitingBlocked ==
    /\ InWaitingLoop
    /\ LET r == Head(waiting)
           hit == IF req[r].computed > 0 THEN table[r] ELSE LocalHit(r)
           computed == IF req[r].computed > 0 THEN req[r].computed
                       ELSE Len(hit) * BlockSize
       IN  Admittable(r) /\ ~Fits(hit, computed + NewTokens(r, computed))
    /\ LeaveWaitingLoop
    /\ UNCHANGED <<cfg, req, running, cacheVars, recvVars, workerVars>>

WaitingDone ==
    /\ phase = "waiting" /\ waiting = <<>>
    /\ LeaveWaitingLoop
    /\ UNCHANGED <<cfg, req, running, cacheVars, recvVars, workerVars>>

\* _update_after_schedule
EndSchedule ==
    /\ phase = "close"
    /\ req' = [r \in Requests |-> [req[r] EXCEPT !.computed = @ + sch.num[r]]]
    /\ phase' = "execute"
    /\ UNCHANGED <<cfg, waiting, running, cacheVars, sch, recvVars, workerVars>>

--------------------------------------------------------------------------------
(* The worker: its connector, and the step of the model *)

\* An asynchronous load fails for some blocks and goes on with the others.
LoadFails(r) ==
    /\ phase = "execute" /\ failures < MaxFailures
    /\ \E bad \in (SUBSET DOMAIN load[r]) \ {{}} :
         /\ report' = [report EXCEPT !.invalid = @ \cup {load[r][i] : i \in bad}]
         /\ load' = [load EXCEPT ![r] = Restrict(@, DOMAIN @ \ bad)]
    /\ failures' = failures + 1
    /\ UNCHANGED <<cfg, engineVars, cacheVars, phase, sch, recvVars, loading, held>>

\* A load that has ended has written what did not fail: every token of the prompt
\* that lies in its blocks.
LoadEnds(r) ==
    /\ phase = "execute" /\ r \in loading
    /\ filled' = [b \in Blocks |->
         IF \E i \in DOMAIN load[r] : load[r][i] = b
         THEN LET i == CHOOSE i \in DOMAIN load[r] : load[r][i] = b
              IN  Least(BlockSize, PromptLen[r] - (i - 1) * BlockSize)
         ELSE filled[b]]
    /\ loading' = loading \ {r}
    /\ load' = [load EXCEPT ![r] = <<>>]
    /\ report' = [report EXCEPT !.recving = @ \cup {r}]
    /\ UNCHANGED <<cfg, engineVars, table, key, phase, sch, recvVars, held, failures>>

\* The connector needs the blocks of a finished request no longer.
SendEnds(r) ==
    /\ phase = "execute" /\ r \in held \ (loading \cup report.sending)
    /\ report' = [report EXCEPT !.sending = @ \cup {r}]
    /\ UNCHANGED <<cfg, engineVars, cacheVars, phase, sch, recvVars, loading, load, held,
                   failures>>

Start(r) == req[r].computed - sch.num[r]

\* Tokens of the i-th block of r that lie before its n-th token.
Within(n, i) == Least(BlockSize, Most(0, n - (i - 1) * BlockSize))

\* What the requests `some` write, in tokens of block b.
WrittenTo(b, some) ==
    LET places(r) == {i \in DOMAIN table[r] :
                        /\ table[r][i] = b
                        /\ Within(Start(r), i) < Within(req[r].computed, i)}
    IN  Max({0} \cup UNION {{Within(req[r].computed, i) : i \in places(r)} : r \in some})

\* The entries r reads are right, given what `f` says is filled and that the
\* requests `some` of the same step write theirs rightly.
ReadsRight(r, f, some) ==
    \A i \in DOMAIN table[r] :
      Most(f[table[r][i]], WrittenTo(table[r][i], some)) >= Within(Start(r), i)

\* One step of the model: the loads of this step first, then the forward pass.
Execute ==
    /\ phase = "execute"
    /\ LET scheduled == {r \in Requests : sch.num[r] > 0}
           synced == UNION {{table[r][i] : i \in sch.sync[r]} : r \in scheduled}
       IN  \E bad \in SUBSET synced :
             LET f == [b \in Blocks |-> IF b \in synced \ bad THEN BlockSize ELSE filled[b]]
                 right == UNION {some \in SUBSET scheduled :
                                   \A r \in some : ReadsRight(r, f, some)}
             IN  /\ bad # {} => failures < MaxFailures
                 /\ failures' = failures + (IF bad = {} THEN 0 ELSE 1)
                 /\ report' = [report EXCEPT !.invalid = @ \cup bad]
                 /\ sch' = [sch EXCEPT !.right = right]
                 /\ filled' = [b \in Blocks |-> Most(f[b], WrittenTo(b, right))]
    /\ phase' = "invalid"
    /\ UNCHANGED <<cfg, engineVars, table, key, recvVars, loading, load, held>>

--------------------------------------------------------------------------------
(* update_from_output() *)

\* Positions of r's blocks that may hold loaded tokens and are invalid.
InvalidPositions(r, async) ==
    LET n == IF ~async THEN req[r].cached
             ELSE IF r \in failed_recving_kv_req_ids THEN req[r].computed
             ELSE Len(table[r]) * BlockSize
    IN  {i \in 1 .. Least(CeilDiv(n, BlockSize), Len(table[r])) :
           table[r][i] \in report.invalid}

\* Mutant of Truncate: affected requests keep what they count as computed.
TruncateNothing(acc, r, async) ==
    IF InvalidPositions(r, async) = {} THEN acc
    ELSE [acc EXCEPT !.affected = @ \cup {r}]

\* _update_requests_with_invalid_blocks for one request: its computed tokens end at
\* the first invalid block no request before it has marked.  If others will
\* recompute all of them it keeps the tokens it was first scheduled with.
Truncate(acc, r, async) ==
    LET bad == InvalidPositions(r, async)
        unmarked == {i \in bad : table[r][i] \notin acc.marked}
    IN  IF bad = {} THEN acc
        ELSE IF unmarked = {}
        THEN [acc EXCEPT !.affected = @ \cup {r}, !.computed[r] = req[r].cached]
        ELSE [acc EXCEPT !.affected = @ \cup {r},
                         !.computed[r] = (Min(unmarked) - 1) * BlockSize,
                         !.marked = @ \cup {table[r][i] : i \in unmarked},
                         !.evict = @ \cup {table[r][i] : i \in Min(unmarked) .. Len(table[r])}]

TruncateAll(requests, async) ==
    FoldLeft(LAMBDA acc, r : Truncate(acc, r, async),
             [affected |-> {}, marked |-> {}, evict |-> {},
              computed |-> [r \in Requests |-> req[r].computed]],
             requests)

\* _handle_invalid_blocks
HandleInvalidBlocks ==
    /\ phase = "invalid"
    /\ LET remote == Only(waiting,
                        {r \in Requests : req[r].status = "WAITING_FOR_REMOTE_KVS"})
           async == TruncateAll(remote, TRUE)
           sync == TruncateAll(running, FALSE)
           affected == async.affected \cup sync.affected
       IN  /\ req' = [r \in Requests |->
                 IF r \in async.affected THEN [req[r] EXCEPT !.computed = async.computed[r]]
                 ELSE [req[r] EXCEPT !.computed = sync.computed[r]]]
           /\ key' = [b \in Blocks |-> IF ~cfg.recompute /\ b \in sync.evict THEN NoKey
                                      ELSE key[b]]
           /\ failed_recving_kv_req_ids' =
                 IF cfg.recompute THEN failed_recving_kv_req_ids \cup async.affected
                 ELSE failed_recving_kv_req_ids
           /\ sch' = [sch EXCEPT !.pending = {r \in Requests : sch.num[r] > 0} \ affected,
                                 !.failing = IF cfg.recompute THEN {} ELSE affected]
    /\ phase' = "answers"
    /\ UNCHANGED <<cfg, waiting, running, table, filled, finished_recving_kv_req_ids,
                   workerVars>>

\* Mutant of MayDelay: a request that is being loaded is freed at once.
MayDelayIgnoringLoads(r) == IF cfg.delay THEN BOOLEAN ELSE {FALSE}

\* The connector's answer to request_finished: whether it keeps the blocks.
MayDelay(r) == IF r \in loading THEN {TRUE} ELSE IF cfg.delay THEN BOOLEAN ELSE {FALSE}

\* Mutant of FreeRequests: nobody remembers that the connector keeps the blocks.
FreeRequestsForgetting(some) ==
    \E keeps \in SUBSET some :
      /\ \A r \in some : (r \in keeps) \in MayDelay(r)
      /\ held' = held
      /\ table' = [r \in Requests |-> IF r \in some \ keeps THEN <<>> ELSE table[r]]

\* _free_request for every member of `some`.
FreeRequests(some) ==
    \E keeps \in SUBSET some :
      /\ \A r \in some : (r \in keeps) \in MayDelay(r)
      /\ held' = held \cup keeps
      /\ table' = [r \in Requests |-> IF r \in some \ keeps THEN <<>> ELSE table[r]]

Answer(r) ==
    /\ phase = "answers" /\ r \in sch.pending
    /\ sch' = [sch EXCEPT !.pending = @ \ {r}]
    /\ LET samples == req[r].computed = req[r].tokens
           ends == samples /\ req[r].tokens + 1 - PromptLen[r] = MaxTokens[r]
       IN  /\ req' = [req EXCEPT
                 ![r].tokens = IF samples THEN @ + 1 ELSE @,
                 ![r].wrong = @ \/ (samples /\ r \notin sch.right),
                 ![r].status = IF ends THEN "FINISHED" ELSE @]
           /\ running' = IF ends THEN Without(running, r) ELSE running
           /\ FreeRequests(IF ends THEN {r} ELSE {})
    /\ UNCHANGED <<cfg, waiting, key, filled, phase, recvVars, loading, load, report,
                   failures>>

\* The failing requests are finished, and the reports of the connector are noted.
EndUpdate ==
    /\ phase = "answers" /\ sch.pending = {}
    /\ req' = [r \in Requests |->
                 IF r \in sch.failing THEN [req[r] EXCEPT !.status = "FINISHED"] ELSE req[r]]
    /\ running' = Only(running, Requests \ sch.failing)
    /\ waiting' = Only(waiting, Requests \ sch.failing)
    /\ \E keeps \in SUBSET sch.failing :
         /\ \A r \in sch.failing : (r \in keeps) \in MayDelay(r)
         /\ held' = (held \cup keeps) \ report.sending
         /\ table' = [r \in Requests |->
              IF r \in (sch.failing \ keeps) \cup report.sending THEN <<>> ELSE table[r]]
    /\ finished_recving_kv_req_ids' = finished_recving_kv_req_ids \cup report.recving
    /\ report' = [invalid |-> {}, recving |-> {}, sending |-> {}]
    /\ sch' = NoSchedule /\ phase' = "engine"
    /\ UNCHANGED <<cfg, key, filled, failed_recving_kv_req_ids, loading, load, failures>>

\* finish_requests: the client aborts a request.
Abort(r) ==
    /\ phase = "engine" /\ cfg.abort /\ Live(r)
    /\ req' = [req EXCEPT ![r].status = "FINISHED"]
    /\ waiting' = Without(waiting, r) /\ running' = Without(running, r)
    /\ FreeRequests({r})
    /\ UNCHANGED <<cfg, key, filled, phase, sch, recvVars, loading, load, report, failures>>

--------------------------------------------------------------------------------
Init ==
    /\ cfg \in Configs
    /\ req = [r \in Requests |-> NewRequest(r)]
    /\ waiting = <<>> /\ running = <<>>
    /\ table = [r \in Requests |-> <<>>]
    /\ key = [b \in Blocks |-> NoKey] /\ filled = [b \in Blocks |-> 0]
    /\ phase = "engine" /\ sch = NoSchedule
    /\ finished_recving_kv_req_ids = {} /\ failed_recving_kv_req_ids = {}
    /\ loading = {} /\ load = [r \in Requests |-> <<>>] /\ held = {}
    /\ report = [invalid |-> {}, recving |-> {}, sending |-> {}] /\ failures = 0

EngineStep ==
    \/ BeginSchedule \/ RunningSchedule \/ RunningPreempt \/ RunningDone
    \/ RemoteReady \/ RemoteSkip \/ ConnectorUndecided \/ WaitingLoad \/ WaitingAdmit
    \/ WaitingBlocked \/ WaitingDone
    \/ EndSchedule \/ Execute \/ HandleInvalidBlocks
    \/ \E r \in Requests : Answer(r)
    \/ EndUpdate

WorkerStep == \E r \in Requests : LoadFails(r) \/ LoadEnds(r) \/ SendEnds(r)
ClientStep == \E r \in Requests : AddRequest(r) \/ Abort(r)

Next == EngineStep \/ WorkerStep \/ ClientStep

Spec == Init /\ [][Next]_vars

\* The engine thread never rests while it has work, and what the connector has
\* begun ends, between two answers of the worker.
FairSpec ==
    /\ Spec
    /\ WF_vars(EngineStep)
    /\ \A r \in Requests : SF_vars(LoadEnds(r)) /\ SF_vars(SendEnds(r))

--------------------------------------------------------------------------------
(* Properties *)

\* No answer is given to a client that was computed from entries a failed load, a
\* preemption or another request has left wrong (update_from_output skips the
\* answers of affected requests, and truncates what they count as computed).
NoWrongAnswer == \A r \in Requests : ~req[r].wrong

\* The blocks a load beside the steps still writes belong to its request alone and
\* are not yet in the cache (delay_cache_blocks, _connector_finished).
LoadsWriteOwnBlocks ==
    \A r \in loading : \A i \in DOMAIN load[r] :
      /\ load[r][i] \in Held(r) /\ key[load[r][i]] = NoKey
      /\ \A s \in Requests \ {r} : load[r][i] \notin Held(s)

\* A running request that will compute block b again.
Recomputes(b) ==
    \E r \in Requests : \E i \in DOMAIN table[r] :
      req[r].status = "RUNNING" /\ table[r][i] = b /\ req[r].computed <= (i - 1) * BlockSize

\* Between two steps, what a request counts as computed is there, or is about to be
\* recomputed (_update_requests_with_invalid_blocks).
ComputedIsThere ==
    phase = "engine" =>
      \A r \in Requests : Live(r) /\ req[r].status # "WAITING_FOR_REMOTE_KVS" =>
        \A i \in DOMAIN table[r] :
          filled[table[r][i]] < Within(req[r].computed, i) => Recomputes(table[r][i])

\* Between two steps, what the cache offers to other requests is there, or is about
\* to be recomputed (evict_blocks, blocks_to_evict).
CacheIsRight ==
    phase = "engine" =>
      \A b \in Blocks : key[b] # NoKey /\ filled[b] < BlockSize => Recomputes(b)

\* Nobody is promised entries that are not there: neither the requests by their
\* counts nor the requests to come by the cache.
EntriesAreThere == ComputedIsThere /\ CacheIsRight

\* The assertion num_new_tokens > 0 of schedule(): whatever a load has brought, a
\* waiting request has a token left to compute, and blocks for what it counts.
WaitingHasWork ==
    \A r \in Requests : req[r].status \in {"WAITING", "PREEMPTED"} =>
      /\ req[r].computed < req[r].tokens
      /\ req[r].computed <= Len(table[r]) * BlockSize

--------------------------------------------------------------------------------
(* An inductive invariant *)

TypeOK ==
    /\ cfg \in Configs
    /\ req \in [Requests -> [status : Statuses, tokens : Nat \ {0}, computed : Int,
                             cached : Int, preempted : BOOLEAN, wrong : BOOLEAN]]
    /\ waiting \in Seq(Requests) /\ running \in Seq(Requests)
    /\ table \in [Requests -> Seq(Blocks)]
    /\ key \in [Blocks -> (Requests \cup {NoRequest}) \X Nat]
    /\ filled \in [Blocks -> 0 .. BlockSize]
    /\ phase \in {"engine", "running", "waiting", "close", "execute", "invalid", "answers"}
    /\ sch \in [index : Nat \ {0}, preempted : BOOLEAN, skipped : Seq(Requests),
                num : [Requests -> Int], sync : [Requests -> SUBSET (Nat \ {0})],
                right : SUBSET Requests, pending : SUBSET Requests,
                failing : SUBSET Requests]
    /\ finished_recving_kv_req_ids \subseteq Requests
    /\ failed_recving_kv_req_ids \subseteq Requests
    /\ loading \subseteq Requests /\ held \subseteq Requests
    /\ load = [r \in Requests |-> load[r]]
    /\ report \in [invalid : SUBSET Blocks, recving : SUBSET Requests,
                   sending : SUBSET Requests]
    /\ failures \in Nat

\* The running list holds running requests, the queue of the others those that wait,
\* and nobody is listed twice.
QueuesAgree ==
    /\ NoDuplicates(running) /\ NoDuplicates(sch.skipped \o waiting)
    /\ \A r \in ToSet(running) : req[r].status = "RUNNING"
    /\ \A r \in ToSet(sch.skipped) \cup ToSet(waiting) :
          req[r].status \in {"WAITING", "WAITING_FOR_REMOTE_KVS", "PREEMPTED"}

\* Which variables are in use at which place.  What the running loop has scheduled
\* lies before its index, until schedule() ends only running requests get tokens, and a
\* load inside the step writes into blocks its request has.
ScheduleStages ==
    /\ phase = "engine" => sch = NoSchedule
    /\ phase # "waiting" => sch.skipped = <<>>
    /\ phase = "running" => \A r \in Requests : sch.num[r] # 0 =>
          \E i \in DOMAIN running : i < sch.index /\ running[i] = r
    /\ phase \in {"running", "waiting", "close"} => \A r \in Requests :
          sch.num[r] # 0 => req[r].status = "RUNNING"
    /\ phase = "running" => \A r \in Requests : sch.sync[r] = {}
    /\ phase \in {"waiting", "close", "execute"} => \A r \in Requests :
          sch.sync[r] \subseteq DOMAIN table[r]
    /\ phase \notin {"execute", "invalid", "answers"} =>
          report.invalid = {} /\ report.recving = {} /\ report.sending = {}

\* Only a deployment that loads beside the steps has requests waiting for a load.  A
\* load under way belongs to such a request or to one that has finished meanwhile,
\* whose blocks are then kept, its end has not been reported, and it writes tokens of
\* the prompt.
LoadsUnderWay ==
    /\ \A r \in Requests : req[r].status = "WAITING_FOR_REMOTE_KVS" => cfg.async
    /\ \A r \in Requests \ loading : load[r] = <<>>
    /\ \A r \in loading :
          /\ cfg.async
          /\ \/ req[r].status = "WAITING_FOR_REMOTE_KVS"
             \/ req[r].status = "FINISHED" /\ r \in held
          /\ r \notin finished_recving_kv_req_ids \cup report.recving \cup report.sending
          /\ \A i \in DOMAIN load[r] :
                /\ i \in DOMAIN table[r] /\ load[r][i] = table[r][i]
                /\ (i - 1) * BlockSize < PromptLen[r]
    /\ \A r \in finished_recving_kv_req_ids \cup report.recving :
          req[r].status \in {"WAITING_FOR_REMOTE_KVS", "FINISHED"}
    /\ report.sending \subseteq held
    /\ \A r \in held : req[r].status = "FINISHED"

\* A block that a load beside the steps could not write is in one table only
\* ("Async loading does not yet support block sharing").
InvalidBlocksUnshared ==
    cfg.async =>
      /\ \A r \in Requests : sch.sync[r] = {}
      /\ \A b \in report.invalid : \A r, s \in Requests :
            b \in Held(r) /\ b \in Held(s) => r = s

\* A request that waits for a load has a token left to compute whichever of its blocks
\* will fail: its last block begins before its last token.
RemoteHasWork ==
    \A r \in Requests :
      /\ req[r].status = "NONE" => req[r].computed = 0
      /\ req[r].status = "WAITING_FOR_REMOTE_KVS" =>
            /\ req[r].computed < req[r].tokens
            /\ req[r].computed <= Len(table[r]) * BlockSize
            /\ (Len(table[r]) - 1) * BlockSize < req[r].tokens

\* Each step preserves this conjunction, whatever the deployment.
TransferInv ==
    /\ TypeOK /\ QueuesAgree /\ ScheduleStages /\ LoadsUnderWay
    /\ LoadsWriteOwnBlocks /\ InvalidBlocksUnshared
    /\ RemoteHasWork /\ WaitingHasWork

--------------------------------------------------------------------------------
(* Right entries: an invariant built on TransferInv *)

\* Deployments in which no entry is wrong: the connector loads beside the steps; or it
\* loads inside them, a failed load ends its requests, loads nothing for resumed requests,
\* and no two prompts have a block in common.
Careful == cfg.async \/ (~cfg.recompute /\ ~cfg.resumed_load /\ cfg.shared < BlockSize)

Waits == {"WAITING", "WAITING_FOR_REMOTE_KVS", "PREEMPTED"}
Counts == {"WAITING", "PREEMPTED", "RUNNING"}
Planning == {"running", "waiting", "close"}

\* Tokens of r that are computed before the step that schedule() plans, and behind it.
Before(r) == IF phase = "execute" THEN req[r].computed - sch.num[r] ELSE req[r].computed
Behind(r) == IF phase \in Planning THEN req[r].computed + sch.num[r] ELSE req[r].computed

\* The step loads the i-th block of r, or computes it to its end.
Brings(r, i) ==
    i \in sch.sync[r] \/ (Before(r) < i * BlockSize /\ i * BlockSize <= Behind(r))

\* The step will bring block b.
Coming(b) ==
    /\ phase \in Planning \cup {"execute"}
    /\ \E r \in Requests : \E i \in DOMAIN table[r] : table[r][i] = b /\ Brings(r, i)

\* Everybody who runs or waits is in the queue for it.
Listed ==
    \A r \in Requests :
      /\ req[r].status = "RUNNING" => r \in ToSet(running)
      /\ req[r].status \in Waits => r \in ToSet(sch.skipped) \cup ToSet(waiting)

\* No table has a block twice, and it has a block for every token that is counted.
TablesInOrder ==
    \A r \in Requests :
      /\ IsInjective(table[r])
      /\ req[r].status \in Counts => /\ req[r].computed <= Len(table[r]) * BlockSize
                                     /\ Behind(r) <= Len(table[r]) * BlockSize

\* A failed load is remembered for as long as its request waits for it.
FailuresRemembered ==
    \A r \in failed_recving_kv_req_ids : req[r].status \in {"WAITING_FOR_REMOTE_KVS", "FINISHED"}

\* What was loaded beside the steps and failed is no part of a request that counts it.
InvalidIsRemote ==
    cfg.async /\ phase \in {"execute", "invalid"} =>
      \A r \in Requests : req[r].status \in Counts => Held(r) \cap report.invalid = {}

\* A load inside a step is made once for a request, when it is first scheduled, and is
\* of blocks the request then counts as cached.
StepLoads ==
    /\ phase \in Planning \cup {"execute"} => \A r \in Requests : \A i \in sch.sync[r] :
          /\ i \in DOMAIN table[r] /\ sch.num[r] > 0
          /\ i * BlockSize <= Before(r) /\ req[r].cached = Before(r)
    /\ phase = "execute" => \A r \in Requests : sch.num[r] # 0 => req[r].status = "RUNNING"
    /\ ~cfg.async => \A r \in Requests :
          req[r].status \in Waits \cup {"NONE"} /\ ~req[r].preempted =>
            req[r].cached = NotScheduledYet

\* Without common blocks every block has one owner, whose key it has if any.
OwnBlocks ==
    ~cfg.async =>
      /\ \A r, s \in Requests : r # s => Held(r) \cap Held(s) = {}
      /\ \A r \in Requests : \A i \in DOMAIN table[r] : key[table[r][i]] \in {NoKey, Key(r, i)}

\* A running request that a failed load will end.
Hit(r) == req[r].status = "RUNNING" /\ InvalidPositions(r, FALSE) # {}

\* What r counts is there, or comes with this step, or is about to be found missing.
Counted(r) ==
    req[r].status \in Counts =>
      \A i \in DOMAIN table[r] :
        \/ Within(Before(r), i) <= filled[table[r][i]]
        \/ Coming(table[r][i])
        \/ phase = "invalid" /\ Hit(r)
        \/ phase = "answers" /\ r \in sch.failing

\* The same for what the cache offers.
Offered(b) ==
    key[b] # NoKey =>
      \/ filled[b] = BlockSize
      \/ Coming(b)
      \/ /\ phase = "invalid"
         /\ \E r \in Requests : \E i \in DOMAIN table[r] :
              /\ Hit(r) /\ table[r][i] = b
              /\ \E j \in InvalidPositions(r, FALSE) : j <= i

\* What a load brings to r: its blocks are there, or being written, or known to have failed.
Loaded(r) ==
    req[r].status = "WAITING_FOR_REMOTE_KVS" =>
      /\ Least(Len(table[r]) * BlockSize, req[r].tokens) <= PromptLen[r]
      /\ \A i \in DOMAIN table[r] :
           \/ Within(PromptLen[r], i) <= filled[table[r][i]]
           \/ Coming(table[r][i])
           \/ i \in DOMAIN load[r]
           \/ phase \in {"execute", "invalid"} /\ table[r][i] \in report.invalid
           \/ r \in failed_recving_kv_req_ids /\ req[r].computed <= (i - 1) * BlockSize
           \/ phase = "answers" /\ r \in sch.failing

\* The answers that will be given were computed from right entries.
RightAnswers ==
    /\ phase = "invalid" => \A r \in Requests : sch.num[r] > 0 /\ r \notin sch.right => Hit(r)
    /\ phase = "answers" => sch.pending \subseteq sch.right

InOrder ==
    /\ Listed /\ TablesInOrder /\ FailuresRemembered /\ InvalidIsRemote
    /\ StepLoads /\ OwnBlocks

RightEntries ==
    /\ \A r \in Requests : Counted(r) /\ Loaded(r)
    /\ \A b \in Blocks : Offered(b)
    /\ RightAnswers /\ NoWrongAnswer

\* Each step preserves this one too, in a state with TransferInv.
EntriesInv == Careful => InOrder /\ RightEntries

--------------------------------------------------------------------------------
(* Liveness *)

\* A request that waits for remote entries leaves that state
\* (_update_waiting_for_remote_kv).
RemoteRequestReturns ==
    \A r \in Requests : req[r].status = "WAITING_FOR_REMOTE_KVS"
                          ~> req[r].status # "WAITING_FOR_REMOTE_KVS"

\* The blocks of a finished request return to the pool, also those the connector
\* held on to.
BlocksReturn == \A r \in Requests : req[r].status = "FINISHED" ~> table[r] = <<>>

================================================================================
