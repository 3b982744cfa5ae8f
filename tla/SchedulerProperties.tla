-------------------------- MODULE SchedulerProperties --------------------------
(***************************************************************************)
(* What the scheduler of module Scheduler promises: its types, the safety  *)
(* of its queues, its KV-cache blocks and its token accounting, and that   *)
(* every request is served.                                                *)
(***************************************************************************)
EXTENDS Scheduler

RequestType ==
    [status : Statuses, prompt : Int, tokens : Int, outputs : Int, computed : Int,
     spec : Nat, placeholders : Int,
     queue : Seq(ChunkLens \cup {CloseSession})]

ScheduleType ==
    [budget : Int, cap : Int, index : Int, request : Requests \cup {NoRequest},
     new_tokens : Int, num : [Requests -> Int], spec : [Requests -> Nat],
     new : SUBSET Requests, resumed : SUBSET Requests, continued : SUBSET Requests,
     preempted : SUBSET Requests, skipped : Seq(Requests)]

OutputType ==
    [num : [Requests -> Int], spec : [Requests -> Nat], sampled : SUBSET Requests]

Phases == {"engine", "running", "allocate", "waiting", "close", "update", "reset"}

\* The type of every variable.
TypeOK ==
    /\ req \in [Requests -> RequestType]
    /\ waiting \in Seq(Requests) /\ running \in Seq(Requests)
    /\ blocks \in [Requests -> Nat] /\ free_blocks \in Nat
    /\ finished_req_ids \subseteq Requests
    /\ prev_step_scheduled_req_ids \subseteq Requests
    /\ num_waiting_for_streaming_input \in Int
    /\ batch_queue \in Seq(OutputType)
    /\ phase \in Phases /\ sch \in ScheduleType /\ pending \subseteq Requests
    /\ grammar_ready \subseteq Structured
    /\ chunks_sent \in [Requests -> Nat] /\ resets \in Nat

--------------------------------------------------------------------------------
(* Queues *)

Queued == sch.skipped \o waiting

\* The running list holds exactly the RUNNING requests, each once, whatever the
\* order of preemption, stop, abort, reset and re-queueing.
RunningAgreement ==
    /\ \A r \in Requests : (req[r].status = "RUNNING") <=> (r \in ToSet(running))
    /\ NoDuplicates(running)

\* The waiting queue, with what the waiting loop has set aside, holds exactly the
\* other live requests, each once: none is lost, to wait for ever, and none can
\* be admitted twice.
WaitingAgreement ==
    /\ \A r \in Requests :
          (Live(r) /\ req[r].status # "RUNNING") <=> (r \in ToSet(Queued))
    /\ NoDuplicates(Queued)

\* Every live request is in the list its status says and in no other, also when the
\* answer of a step finds it preempted, resumed, requeued or gone: update_from_output
\* goes by the status before the stop, which may no longer be that of the step.
ListsAgree == RunningAgreement /\ WaitingAgreement

\* num_waiting_for_streaming_input counts the sessions parked without input: the
\* engine loop stops calling schedule() on the strength of this count
\* (get_num_unfinished_requests).
StreamingCounter ==
    num_waiting_for_streaming_input =
        Cardinality({r \in Requests : req[r].status = "WAITING_FOR_STREAMING_REQ"})

\* Under FCFS a preempted request waits ahead of every request that has not been
\* preempted, so it is readmitted before any of them takes its place.
PreemptedFirst ==
    Policy = "fcfs" =>
        \A i, j \in DOMAIN Queued :
            i < j /\ req[Queued[j]].status = "PREEMPTED"
                => req[Queued[i]].status = "PREEMPTED"

--------------------------------------------------------------------------------
(* KV-cache blocks *)

\* The units a function of natural numbers counts, and their number.
Units(f) == UNION {{r} \X (1 .. f[r]) : r \in DOMAIN f}

Sum(f) == Cardinality(Units(f))

\* Blocks are neither lost nor given twice, and only a running request or a
\* session between two chunks holds any: preemption and every way to finish
\* give all of them back.
BlockAccounting ==
    /\ free_blocks + Sum(blocks) = NumBlocks
    /\ \A r \in Requests : blocks[r] > 0 =>
          \/ req[r].status = "RUNNING"
          \/ r \in Resumable /\ Live(r) /\ req[r].status # "PREEMPTED"

\* Every token counted as computed for a live request has a slot in a block the
\* request holds, also after the optimistic advance of _update_after_schedule.
ComputedTokensHaveSlots ==
    \A r \in Requests :
        Live(r) => req[r].computed <= blocks[r] * BlockSize

--------------------------------------------------------------------------------
(* One call of schedule() *)

\* The assertions at the end of schedule(): the tokens scheduled and the rest of
\* the budget add up through preemptions that refund it; the running list
\* respects its bound; no request is scheduled that is not running, and each is
\* given at least one token beside its drafts.
ScheduleAssertions ==
    phase \in {"running", "allocate", "waiting", "close"} =>
        /\ sch.budget >= 0 /\ Sum(sch.num) + sch.budget = MaxBatched
        /\ Len(running) <= MaxNumSeqs
        /\ Cardinality(Scheduled) <= Len(running)
        /\ \A r \in Scheduled : sch.spec[r] < sch.num[r]

\* A request preempted in this step is in no part of its output, and exactly the
\* running requests listed as new, resumed or continued get tokens: the model
\* would otherwise write to blocks that are no longer the request's.
ScheduledAreRunning ==
    /\ sch.preempted \cap Scheduled = {}
    /\ \A r \in Requests :
          /\ r \in Scheduled => req[r].status = "RUNNING"
          /\ r \notin Scheduled => sch.num[r] = 0

\* A resumed request was not part of the previous step (the assertion of
\* _make_cached_request_data), so the workers get its whole token list again.
ResumedNotInPrevStep ==
    sch.resumed \cap prev_step_scheduled_req_ids = {}

\* The running loop never reads the list before its start, although each eviction
\* of a request it has scheduled pulls its index back, and it allocates for a
\* request that is still running.  Under FCFS all it has scheduled lies before
\* the index, out of reach of an eviction, which takes the last request.
LoopIndex ==
    /\ IsFiniteSet(sch.continued) /\ Cardinality(sch.continued) < sch.index
    /\ phase = "allocate" => sch.request \in ToSet(running)
    /\ Policy = "fcfs" /\ phase \in {"running", "allocate"} =>
          sch.continued \subseteq
              {running[j] : j \in {i \in DOMAIN running : i < sch.index}}
    /\ Policy = "fcfs" /\ phase = "allocate" =>
          sch.index \in DOMAIN running /\ sch.request = running[sch.index]

--------------------------------------------------------------------------------
(* Token accounting across steps in flight *)

InFlight(r) == \E i \in DOMAIN batch_queue : batch_queue[i].num[r] > 0

\* When no step in flight concerns a running request, every optimistic count is
\* settled: it has tokens left to compute and no placeholder.  A miscount of
\* rejected drafts would leave it computed beyond its tokens, never to be
\* scheduled again.
SettledRequestHasWork ==
    \A r \in Requests :
        phase = "engine" /\ req[r].status = "RUNNING" /\ ~InFlight(r) =>
            /\ req[r].placeholders = 0
            /\ 0 <= req[r].computed /\ req[r].computed < req[r].tokens

\* The token list of a live request is its prompt followed by its outputs.
TokensArePromptAndOutputs ==
    \A r \in Requests : Live(r) => req[r].tokens = req[r].prompt + req[r].outputs

\* update_from_output() has not visited r in the i-th step in flight.
Unvisited(i, r) == phase = "update" /\ i = 1 => r \in pending

\* The i-th step in flight samples r, and its answer still counts for r.
Awaits(i, r) ==
    /\ i \in DOMAIN batch_queue /\ r \in batch_queue[i].sampled
    /\ Live(r) /\ Unvisited(i, r)

\* While a running request has an answer in flight, all that is known of it has been
\* computed, with the drafts under verification; of what is awaited, all but the last
\* token.  A request that ran again from the start before its late answer came would
\* be sampled twice at one position, and the rejected drafts of that answer would be
\* taken off computed tokens they are no part of.
AwaitedAreComputed ==
    \A r \in Requests : \A i \in DOMAIN batch_queue :
        req[r].status = "RUNNING" /\ Awaits(i, r) =>
            IF Async THEN req[r].computed = req[r].tokens + req[r].placeholders - 1
            ELSE req[r].computed >= req[r].tokens + batch_queue[i].spec[r]

--------------------------------------------------------------------------------
(* What the clients see *)

Ordinary == Requests \ Resumable

AnswerLimit == [r \in Ordinary |-> Least(MaxTokens[r], MaxModelLen - PromptLen[r])]

ClientState(r) ==
    CASE req[r].status = "NONE" -> "idle"
      [] req[r].status = "FINISHED" -> "closed"
      [] OTHER -> "open"

Service ==
    INSTANCE RequestService WITH
        Clients <- Ordinary, Limit <- AnswerLimit,
        StopsEarly <- EarlyStop, MayAbort <- Abortable, Portion <- NumSpecTokens + 1,
        state <- [r \in Ordinary |-> ClientState(r)],
        received <- [r \in Ordinary |-> req[r].outputs]

\* For the clients the scheduler is the service of module RequestService: schedules,
\* preemptions, resets and rejected drafts are invisible to them, no portion is lost
\* or repeated, and no answer goes on after its end.
ImplementsService == Service!Spec

--------------------------------------------------------------------------------
(* An inductive invariant *)

\* Which local variables of schedule() are in use at which place: no request is
\* admitted before the running loop of a default schedule, nor in a step that has
\* preempted one.
ScheduleStages ==
    /\ phase \in {"engine", "update", "reset"} => sch = NoSchedule
    /\ phase \in {"running", "allocate"} => sch.new = {} /\ sch.resumed = {}
    /\ phase = "waiting" => sch.preempted = {} /\ (SplitPD => sch.continued = {})
    /\ \A r \in sch.preempted : req[r].status = "PREEMPTED"

\* A request of the previous step that is preempted now was preempted by this
\* call of schedule(), which then admits nobody, or by a reset under way, which
\* clears prev_step_scheduled_req_ids.
PreemptedSincePrevStep ==
    \A r \in prev_step_scheduled_req_ids :
        req[r].status = "PREEMPTED" => r \in sch.preempted \/ phase = "reset"

\* update_from_output() answers a step in flight.
UpdatesAnOutput == phase = "update" => batch_queue # <<>>

\* Each step of the scheduler preserves this conjunction, whatever the constants.
IInv ==
    /\ TypeOK
    /\ RunningAgreement
    /\ ScheduledAreRunning
    /\ ResumedNotInPrevStep
    /\ LoopIndex
    /\ ScheduleStages
    /\ PreemptedSincePrevStep
    /\ UpdatesAnOutput

\* No more drafts are planned, scheduled or awaited than the drafter proposes.
DraftsBounded ==
    /\ \A r \in Requests : req[r].spec <= NumSpecTokens /\ sch.spec[r] <= NumSpecTokens
    /\ \A i \in DOMAIN batch_queue : \A r \in Requests :
          batch_queue[i].spec[r] <= NumSpecTokens

\* The tokens of an ordinary request are its prompt and its answer so far, which is
\* short of the limit until the request finishes.
OrdinaryAnswers ==
    \A r \in Ordinary :
        /\ req[r].prompt = PromptLen[r] /\ req[r].tokens = PromptLen[r] + req[r].outputs
        /\ req[r].outputs >= 0 /\ req[r].queue = <<>>
        /\ req[r].status = "NONE" => req[r].outputs = 0
        /\ Live(r) => req[r].outputs < AnswerLimit[r]
        /\ req[r].status # "WAITING_FOR_STREAMING_REQ"

\* What the refinement of RequestService rests on.
ServiceInv == IInv /\ DraftsBounded /\ OrdinaryAnswers

\* The waiting loop puts what it has skipped back before anything else happens.
SkippedInLoop == sch.skipped # <<>> => phase = "waiting"

\* With one step in flight at most, a session leaves the running list only when that
\* step has been answered.
SessionsInStep ==
    /\ PipelineDepth = 1 =>
          Len(batch_queue) <= 1 /\ (batch_queue # <<>> => phase \in {"engine", "update"})
    /\ \A r \in Resumable : \A i \in DOMAIN batch_queue :
          r \in batch_queue[i].sampled /\ Live(r) /\ Unvisited(i, r)
              => req[r].status = "RUNNING"

Parked == {r \in Requests : req[r].status = "WAITING_FOR_STREAMING_REQ"}

\* What the agreement of the waiting queue rests on: an invariant of every engine
\* without sessions, or with one step in flight.
QueueInv ==
    /\ ServiceInv
    /\ SkippedInLoop /\ SessionsInStep
    /\ WaitingAgreement /\ PreemptedFirst
    /\ IsFiniteSet(Parked) /\ StreamingCounter

\* What block accounting rests on.
BlockInv == IInv /\ IsFiniteSet(Units(blocks)) /\ BlockAccounting

\* The next chunk of a session follows its prompt and the outputs that were computed:
\* no output it drops had been taken into the prompt.
SessionTokens ==
    \A r \in Resumable :
        /\ req[r].placeholders = 0 /\ req[r].outputs >= 0
        /\ req[r].tokens = req[r].prompt + req[r].outputs
        /\ req[r].status = "WAITING_FOR_STREAMING_REQ" => req[r].prompt <= req[r].computed
        /\ \A i \in DOMAIN batch_queue :
              r \in batch_queue[i].sampled /\ Live(r) /\ Unvisited(i, r)
                  => req[r].tokens + batch_queue[i].spec[r] <= req[r].computed

\* A step in flight was scheduled for the requests it samples, and there is room for
\* the step being scheduled.
Flights ==
    /\ Len(batch_queue) <= PipelineDepth
    /\ phase \notin {"engine", "update"} => Len(batch_queue) < PipelineDepth
    /\ phase = "reset" => MaxResets > 0
    /\ \A r \in Requests : \A i \in DOMAIN batch_queue :
          r \in batch_queue[i].sampled
              => batch_queue[i].num[r] > 0 /\ req[r].status # "NONE"

\* The tokens of the placeholders of r that the i-th step in flight will replace.
AwaitedIn(i, r) ==
    IF r \in batch_queue[i].sampled /\ Unvisited(i, r)
    THEN 1 + batch_queue[i].spec[r] ELSE 0

Awaited(r) == [i \in DOMAIN batch_queue |-> AwaitedIn(i, r)]

\* A placeholder stands for each token of an answer that an asynchronous engine awaits.
PlaceholdersAwaited ==
    \A r \in Requests :
        /\ IsFiniteSet(Units(Awaited(r)))
        /\ req[r].status # "FINISHED" =>
              req[r].placeholders = IF Async THEN Sum(Awaited(r)) ELSE 0

\* The tokens of the step add up with what is left of the budget, and the running list
\* has its bound.
BudgetInv ==
    /\ Len(running) <= MaxNumSeqs
    /\ phase \in {"running", "allocate", "waiting", "close"} =>
          /\ sch.budget >= 0 /\ IsFiniteSet(Units(sch.num))
          /\ Sum(sch.num) + sch.budget = MaxBatched

\* What the step computes of a request does not go beyond what is known and awaited of
\* it; with drafts it reaches exactly the end.
ScheduledCounts ==
    /\ \A r \in Requests \ Scheduled : sch.spec[r] = 0
    /\ \A r \in Scheduled :
          LET end == req[r].tokens + req[r].placeholders + sch.spec[r]
          IN  /\ sch.num[r] > sch.spec[r]
              /\ req[r].computed + sch.num[r] <= end
              /\ sch.spec[r] > 0 => req[r].computed + sch.num[r] = end

\* What the running loop has scheduled lies before its index: it meets nobody twice.
LoopBehind ==
    /\ phase \in {"running", "allocate"} =>
          \A r \in sch.continued : \E i \in DOMAIN running : i < sch.index /\ running[i] = r
    /\ phase = "allocate" =>
          \E i \in DOMAIN running : i <= sch.index /\ running[i] = sch.request

\* It allocates for tokens it has not scheduled, within the budget and max_model_len.
AllocationFits ==
    phase = "allocate" =>
        LET r == sch.request
        IN  /\ r \notin sch.continued
            /\ 0 < sch.new_tokens /\ sch.new_tokens <= sch.budget
            /\ req[r].computed + sch.new_tokens
                  <= req[r].tokens + req[r].placeholders + req[r].spec
            /\ req[r].computed + sch.new_tokens < MaxModelLen

\* What is computed of a running request, with what this step computes, lies in its
\* blocks and short of max_model_len; of any other request nothing is computed.
SlotsHeld ==
    \A r \in Requests :
        /\ req[r].status \notin {"RUNNING", "FINISHED"} => req[r].computed = 0
        /\ req[r].status = "RUNNING" =>
              LET end == req[r].computed + sch.num[r]
              IN  end < MaxModelLen /\ end <= blocks[r] * BlockSize

\* Something is left to compute of a running request: at once, or after the answer
\* to a step in flight.
WorkLeft ==
    \A r \in Requests : req[r].status = "RUNNING" =>
        IF Async THEN req[r].computed < req[r].tokens + req[r].placeholders
        ELSE \/ req[r].computed < req[r].tokens
             \/ \E i \in DOMAIN batch_queue :
                   /\ Awaits(i, r)
                   /\ req[r].computed <= req[r].tokens + batch_queue[i].spec[r]

\* A request cannot be preempted and readmitted while an answer to it is in flight.
Orderly == PipelineDepth = 1 \/ (PipelineDepth = 2 /\ MaxResets = 0)

\* A request with an answer in flight is running, or was preempted by the call of
\* schedule() that has begun, or by the last one, whose output fills the batch queue.
AwaitedRuns ==
    \A r \in Requests : \A i \in DOMAIN batch_queue : Awaits(i, r) =>
        \/ req[r].status = "RUNNING"
        \/ /\ req[r].status = "PREEMPTED"
           /\ r \in sch.preempted \/ (Len(batch_queue) = 2 /\ i = 1)

\* A synchronous engine has one answer in flight for a request.
OneAwaited ==
    \A r \in Requests : \A i, j \in DOMAIN batch_queue :
        ~Async /\ Awaits(i, r) /\ Awaits(j, r) => i = j

ComputedNat ==
    \A r \in Requests : req[r].status # "FINISHED" => req[r].computed >= 0

\* What token accounting rests on, in an engine without sessions.
TokenInv ==
    /\ ServiceInv /\ BlockInv
    /\ Flights /\ PlaceholdersAwaited /\ BudgetInv
    /\ ScheduledCounts /\ LoopBehind /\ AllocationFits /\ SlotsHeld /\ WorkLeft
    /\ Orderly => AwaitedRuns /\ OneAwaited /\ AwaitedAreComputed
    /\ Orderly \/ NumSpecTokens = 0 => ComputedNat

--------------------------------------------------------------------------------
(* Liveness *)

\* The engine thread never stops in the middle of a handler nor leaves a step
\* unanswered or a request unscheduled for ever, and every grammar is compiled.
EngineStep == ScheduleStep \/ UpdateStep \/ ResetPreempt \/ EndReset

FairSpec ==
    /\ Spec
    /\ WF_vars(EngineStep)
    /\ \A r \in Requests : WF_vars(GrammarReady(r))

\* Every request that enters the scheduler leaves it, however often it is
\* preempted: the request at the head always makes progress.
EveryRequestFinishes ==
    \A r \in Requests \ Resumable : Live(r) ~> (req[r].status = "FINISHED")
================================================================================
