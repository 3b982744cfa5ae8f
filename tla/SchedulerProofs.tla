---------------------------- MODULE SchedulerProofs ----------------------------
(***************************************************************************)
(* Theorems about the scheduler, for every value of its constants: its     *)
(* type invariant, the agreement of the running list with the status of    *)
(* the requests, and what one call of schedule() may put into its output.  *)
(* They rest on one inductive invariant, IInv of SchedulerProperties.      *)
(* First the types of the operators, and one lemma per action of Next.     *)
(*                                                                         *)
(* The scheduler keeps what RequestService promises the clients: the       *)
(* fields each action gives a request, the bounds of an answer, and the    *)
(* refinement.  And it keeps its queues: who waits, in which order, and    *)
(* how many sessions are parked.                                           *)
(***************************************************************************)
EXTENDS SchedulerProperties, RequestQueueLemmas, FiniteSetTheorems, TLAPS

--------------------------------------------------------------------------------
(* Types of the operators *)

\* The types of the constants, in the form the proofs use.
LEMMA ConstantTypes ==
    /\ NoRequest \notin Requests
    /\ \A r \in Requests : PromptLen[r] \in Int /\ MaxTokens[r] \in Int
    /\ ChunkLens \subseteq Nat /\ CloseSession \in Nat
    /\ MaxNumSeqs \in Nat /\ MaxBatched \in Nat /\ LongPrefill \in Nat
    /\ MaxModelLen \in Nat /\ NumBlocks \in Nat /\ NumSpecTokens \in Nat
    /\ NumLookahead \in Nat
    /\ CacheHits \subseteq Nat /\ MaxChunks \in Nat
    /\ BlockSize \in Nat /\ BlockSize > 0 /\ PipelineSize \in Nat /\ PipelineSize > 0
BY RequestsAssumption, ConfigAssumption DEF PositiveNat, CloseSession

LEMMA CeilDivType ==
    ASSUME NEW a \in Int, NEW b \in Nat, b > 0
    PROVE  CeilDiv(a, b) \in Int
BY DEF CeilDiv

LEMMA MissingType ==
    ASSUME TypeOK, NEW r \in Requests,
           NEW computed \in Int, NEW n \in Int, NEW lookahead \in Int
    PROVE  Missing(r, computed, n, lookahead) \in Nat
<1> DEFINE upto == Least(computed + n + lookahead, MaxModelLen)
<1>1. upto \in Int
  BY ConstantTypes DEF Least
<1>2. blocks[r] \in Nat
  BY DEF TypeOK
<1> HIDE DEF upto
<1>3. CeilDiv(upto, BlockSize) \in Int
  BY <1>1, ConstantTypes, CeilDivType
<1>4. QED BY <1>2, <1>3 DEF Missing, Most, upto

LEMMA RequestFields ==
    ASSUME TypeOK, NEW r \in Requests
    PROVE  /\ req[r] \in RequestType
           /\ req[r].prompt \in Int /\ req[r].tokens \in Int /\ req[r].outputs \in Int
           /\ req[r].computed \in Int /\ req[r].spec \in Nat
           /\ req[r].placeholders \in Int /\ req[r].status \in Statuses
           /\ req[r].queue \in Seq(ChunkLens \cup {CloseSession})
BY DEF TypeOK, RequestType

LEMMA ScheduleFields ==
    ASSUME TypeOK
    PROVE  /\ sch \in ScheduleType
           /\ sch.budget \in Int /\ sch.cap \in Int /\ sch.index \in Int
           /\ sch.request \in Requests \cup {NoRequest} /\ sch.new_tokens \in Int
           /\ sch.num \in [Requests -> Int] /\ sch.spec \in [Requests -> Nat]
           /\ sch.new \subseteq Requests /\ sch.resumed \subseteq Requests
           /\ sch.continued \subseteq Requests /\ sch.preempted \subseteq Requests
           /\ sch.skipped \in Seq(Requests)
BY DEF TypeOK, ScheduleType

LEMMA NumNewTokensType ==
    ASSUME TypeOK, NEW r \in Requests
    PROVE  NumNewTokens(r) \in Int
<1>1. \A x, y \in Int : Least(x, y) \in Int
  BY DEF Least
<1>2. \A x \in Int : Threshold(x) \in Int
  BY ConstantTypes DEF Threshold
<1>3. req[r].tokens + req[r].spec + req[r].placeholders - req[r].computed \in Int
  BY RequestFields
<1>4. MaxModelLen - 1 - req[r].computed \in Int
  BY RequestFields, ConstantTypes
<1>5. sch.budget \in Int
  BY ScheduleFields
<1>6. QED BY <1>1, <1>2, <1>3, <1>4, <1>5 DEF NumNewTokens

LEMMA ScheduledDraftsType ==
    ASSUME TypeOK, NEW r \in Requests, NEW n \in Int
    PROVE  ScheduledDrafts(r, n) \in Nat
BY RequestFields DEF ScheduledDrafts, Least, Most

LEMMA NumPrefillTokensType ==
    ASSUME TypeOK, NEW r \in Requests, NEW computed \in Int
    PROVE  NumPrefillTokens(r, computed) \in Int
BY RequestFields, ConstantTypes DEF NumPrefillTokens, Threshold

LEMMA CachedTokensType ==
    ASSUME TypeOK, NEW r \in Requests, NEW computed \in CachedTokens(r)
    PROVE  computed \in Int
BY RequestFields, ConstantTypes DEF CachedTokens

LEMMA FreeBlocksType ==
    ASSUME TypeOK, NEW r \in Requests, FreeBlocks(r)
    PROVE  blocks' \in [Requests -> Nat] /\ free_blocks' \in Nat
BY DEF FreeBlocks, TypeOK

LEMMA TakeBlocksType ==
    ASSUME TypeOK, NEW r \in Requests, NEW m \in Nat, m <= free_blocks, TakeBlocks(r, m)
    PROVE  blocks' \in [Requests -> Nat] /\ free_blocks' \in Nat
BY DEF TakeBlocks, TypeOK

\* One request changes, to another request.
LEMMA RequestUpdate ==
    ASSUME TypeOK, NEW r \in Requests, NEW q \in RequestType
    PROVE  [req EXCEPT ![r] = q] \in [Requests -> RequestType]
BY DEF TypeOK

\* A record of RequestType stays one when one field gets a value of its type.
LEMMA RequestFieldUpdate ==
    /\ \A q \in RequestType, v \in Statuses : [q EXCEPT !.status = v] \in RequestType
    /\ \A q \in RequestType, v \in Int :
          /\ [q EXCEPT !.prompt = v] \in RequestType
          /\ [q EXCEPT !.tokens = v] \in RequestType
          /\ [q EXCEPT !.outputs = v] \in RequestType
          /\ [q EXCEPT !.computed = v] \in RequestType
          /\ [q EXCEPT !.placeholders = v] \in RequestType
    /\ \A q \in RequestType, v \in Nat : [q EXCEPT !.spec = v] \in RequestType
    /\ \A q \in RequestType, v \in Seq(ChunkLens \cup {CloseSession}) :
          [q EXCEPT !.queue = v] \in RequestType
<1>1. ASSUME NEW q \in RequestType, NEW v \in Statuses
      PROVE  [q EXCEPT !.status = v] \in RequestType
  BY DEF RequestType
<1>2. ASSUME NEW q \in RequestType, NEW v \in Int
      PROVE  [q EXCEPT !.prompt = v] \in RequestType
  BY DEF RequestType
<1>3. ASSUME NEW q \in RequestType, NEW v \in Int
      PROVE  [q EXCEPT !.tokens = v] \in RequestType
  BY DEF RequestType
<1>4. ASSUME NEW q \in RequestType, NEW v \in Int
      PROVE  [q EXCEPT !.outputs = v] \in RequestType
  BY DEF RequestType
<1>5. ASSUME NEW q \in RequestType, NEW v \in Int
      PROVE  [q EXCEPT !.computed = v] \in RequestType
  BY DEF RequestType
<1>6. ASSUME NEW q \in RequestType, NEW v \in Int
      PROVE  [q EXCEPT !.placeholders = v] \in RequestType
  BY DEF RequestType
<1>7. ASSUME NEW q \in RequestType, NEW v \in Nat
      PROVE  [q EXCEPT !.spec = v] \in RequestType
  BY DEF RequestType
<1>8. ASSUME NEW q \in RequestType, NEW v \in Seq(ChunkLens \cup {CloseSession})
      PROVE  [q EXCEPT !.queue = v] \in RequestType
  BY DEF RequestType
<1>9. QED BY <1>1, <1>2, <1>3, <1>4, <1>5, <1>6, <1>7, <1>8, Zenon

\* The same for the local variables of schedule().
LEMMA ScheduleFieldUpdate ==
    /\ \A s \in ScheduleType, v \in Int :
          /\ [s EXCEPT !.budget = v] \in ScheduleType
          /\ [s EXCEPT !.cap = v] \in ScheduleType
          /\ [s EXCEPT !.index = v] \in ScheduleType
          /\ [s EXCEPT !.new_tokens = v] \in ScheduleType
    /\ \A s \in ScheduleType, v \in Requests \cup {NoRequest} :
          [s EXCEPT !.request = v] \in ScheduleType
    /\ \A s \in ScheduleType, r \in Requests, v \in Int :
          [s EXCEPT !.num[r] = v] \in ScheduleType
    /\ \A s \in ScheduleType, r \in Requests, v \in Nat :
          [s EXCEPT !.spec[r] = v] \in ScheduleType
    /\ \A s \in ScheduleType, v \in SUBSET Requests :
          /\ [s EXCEPT !.new = v] \in ScheduleType
          /\ [s EXCEPT !.resumed = v] \in ScheduleType
          /\ [s EXCEPT !.continued = v] \in ScheduleType
          /\ [s EXCEPT !.preempted = v] \in ScheduleType
    /\ \A s \in ScheduleType, v \in Seq(Requests) :
          [s EXCEPT !.skipped = v] \in ScheduleType
<1>1. ASSUME NEW s \in ScheduleType, NEW v \in Int
      PROVE  [s EXCEPT !.budget = v] \in ScheduleType
  BY DEF ScheduleType
<1>2. ASSUME NEW s \in ScheduleType, NEW v \in Int
      PROVE  [s EXCEPT !.cap = v] \in ScheduleType
  BY DEF ScheduleType
<1>3. ASSUME NEW s \in ScheduleType, NEW v \in Int
      PROVE  [s EXCEPT !.index = v] \in ScheduleType
  BY DEF ScheduleType
<1>4. ASSUME NEW s \in ScheduleType, NEW v \in Int
      PROVE  [s EXCEPT !.new_tokens = v] \in ScheduleType
  BY DEF ScheduleType
<1>5. ASSUME NEW s \in ScheduleType, NEW v \in Requests \cup {NoRequest}
      PROVE  [s EXCEPT !.request = v] \in ScheduleType
  BY DEF ScheduleType
<1>6. ASSUME NEW s \in ScheduleType, NEW r \in Requests, NEW v \in Int
      PROVE  [s EXCEPT !.num[r] = v] \in ScheduleType
  BY DEF ScheduleType
<1>7. ASSUME NEW s \in ScheduleType, NEW r \in Requests, NEW v \in Nat
      PROVE  [s EXCEPT !.spec[r] = v] \in ScheduleType
  BY DEF ScheduleType
<1>8. ASSUME NEW s \in ScheduleType, NEW v \in SUBSET Requests
      PROVE  [s EXCEPT !.new = v] \in ScheduleType
  BY DEF ScheduleType
<1>9. ASSUME NEW s \in ScheduleType, NEW v \in SUBSET Requests
      PROVE  [s EXCEPT !.resumed = v] \in ScheduleType
  BY DEF ScheduleType
<1>10. ASSUME NEW s \in ScheduleType, NEW v \in SUBSET Requests
      PROVE  [s EXCEPT !.continued = v] \in ScheduleType
  BY DEF ScheduleType
<1>11. ASSUME NEW s \in ScheduleType, NEW v \in SUBSET Requests
      PROVE  [s EXCEPT !.preempted = v] \in ScheduleType
  BY DEF ScheduleType
<1>12. ASSUME NEW s \in ScheduleType, NEW v \in Seq(Requests)
      PROVE  [s EXCEPT !.skipped = v] \in ScheduleType
  BY DEF ScheduleType
<1>13. QED
  BY <1>1, <1>2, <1>3, <1>4, <1>5, <1>6, <1>7, <1>8, <1>9, <1>10, <1>11, <1>12, Zenon

LEMMA PreemptedType ==
    ASSUME NEW q \in RequestType
    PROVE  Preempted(q) \in RequestType
<1> DEFINE a == [q EXCEPT !.status = "PREEMPTED"]
           b == [a EXCEPT !.computed = 0]
<1>1. a \in RequestType
  BY RequestFieldUpdate, "PREEMPTED" \in Statuses DEF Statuses
<1>2. b \in RequestType
  BY <1>1, RequestFieldUpdate, 0 \in Int, Zenon
<1>3. [b EXCEPT !.spec = 0] \in RequestType
  BY <1>2, RequestFieldUpdate, 0 \in Nat, Zenon
<1>4. QED BY <1>3 DEF Preempted

LEMMA UnscheduleType ==
    ASSUME TypeOK, NEW v \in Requests
    PROVE  Unschedule(v) \in ScheduleType
<1>1. /\ sch \in ScheduleType /\ sch.continued \ {v} \in SUBSET Requests
      /\ sch.budget + sch.num[v] \in Int /\ sch.index - 1 \in Int
      /\ sch.preempted \cup {v} \in SUBSET Requests
  BY ScheduleFields
<1> DEFINE a == [sch EXCEPT !.continued = @ \ {v}]
           b == [a EXCEPT !.budget = sch.budget + sch.num[v]]
           c == [b EXCEPT !.num[v] = 0]
           d == [c EXCEPT !.spec[v] = 0]
           e == [d EXCEPT !.index = sch.index - 1]
           f == [e EXCEPT !.preempted = sch.preempted \cup {v}]
<1>2. a \in ScheduleType
  BY <1>1, ScheduleFieldUpdate, Zenon
<1>3. b \in ScheduleType
  BY <1>1, <1>2, ScheduleFieldUpdate, Zenon
<1>4. c \in ScheduleType
  BY <1>3, ScheduleFieldUpdate, 0 \in Int, Zenon
<1>5. d \in ScheduleType
  BY <1>4, ScheduleFieldUpdate, 0 \in Nat, Zenon
<1>6. e \in ScheduleType
  BY <1>1, <1>5, ScheduleFieldUpdate, Zenon
<1>7. f \in ScheduleType
  BY <1>1, <1>6, ScheduleFieldUpdate, Zenon
<1>8. [sch EXCEPT !.preempted = @ \cup {v}] \in ScheduleType
  BY <1>1, ScheduleFieldUpdate, Zenon
<1>9. CASE Policy = "priority" /\ v \in sch.continued
  <2>1. Unschedule(v) = f
    BY <1>9, ScheduleFields DEF Unschedule, ScheduleType
  <2>2. QED BY <1>7, <2>1
<1>10. CASE ~(Policy = "priority" /\ v \in sch.continued)
  BY <1>8, <1>10 DEF Unschedule
<1>11. QED BY <1>9, <1>10

LEMMA NoScheduleType == NoSchedule \in ScheduleType
BY DEF NoSchedule, ScheduleType

\* The head of the batch queue is an output of schedule().
LEMMA HeadType ==
    ASSUME TypeOK, batch_queue # <<>>
    PROVE  /\ Head(batch_queue) \in OutputType /\ Tail(batch_queue) \in Seq(OutputType)
           /\ \A r \in Requests : Head(batch_queue).spec[r] \in Nat
<1>1. Head(batch_queue) \in OutputType /\ Tail(batch_queue) \in Seq(OutputType)
  BY DEF TypeOK
<1>2. Head(batch_queue).spec \in [Requests -> Nat]
  BY <1>1 DEF OutputType
<1>3. QED BY <1>1, <1>2

\* What the model's answer makes of a request is a request again.
LEMMA AnsweredType ==
    ASSUME TypeOK, NEW r \in Requests, Head(batch_queue).spec[r] \in Nat,
           NEW g \in Int, NEW k \in Int
    PROVE  Answered(r, g, k) \in RequestType
<1> DEFINE x == RejectedDrafts(r, g)
<1>1. x \in Int
  BY DEF RejectedDrafts
<1> HIDE DEF x
<1> DEFINE q == Adjusted(req[r], x)
           w == [req[r] EXCEPT !.computed = IF @ > 0 THEN @ - x ELSE @]
<1>2. w \in RequestType
  <2>1. (IF req[r].computed > 0 THEN req[r].computed - x ELSE req[r].computed) \in Int
    BY <1>1, RequestFields
  <2>2. QED BY <2>1, RequestFields, RequestFieldUpdate, Zenon
<1>3. q \in RequestType
  <2> DEFINE p == IF req[r].placeholders > 0 THEN req[r].placeholders - x
                  ELSE req[r].placeholders
  <2>1. p \in Int
    BY <1>1, RequestFields
  <2>2. [w EXCEPT !.placeholders = p] \in RequestType
    BY <1>2, <2>1, RequestFieldUpdate, Zenon
  <2>3. q = [w EXCEPT !.placeholders = p]
    BY RequestFields DEF Adjusted, RequestType
  <2>4. QED BY <2>2, <2>3
<1> HIDE DEF q
<1>4. WithOutput(q, k) \in RequestType
  <2>1. q.tokens + k \in Int /\ q.outputs + k \in Int /\ q.placeholders \in Int
        /\ (IF Async THEN q.placeholders - k ELSE q.placeholders) \in Int
    BY <1>3 DEF RequestType
  <2> DEFINE a == [q EXCEPT !.tokens = q.tokens + k]
             b == [a EXCEPT !.outputs = q.outputs + k]
             c == [b EXCEPT !.placeholders = IF Async THEN q.placeholders - k
                                             ELSE q.placeholders]
  <2>2. a \in RequestType
    BY <1>3, <2>1, RequestFieldUpdate, Zenon
  <2>3. b \in RequestType
    BY <2>1, <2>2, RequestFieldUpdate, Zenon
  <2>4. c \in RequestType
    BY <2>1, <2>3, RequestFieldUpdate, Zenon
  <2>5. WithOutput(q, k) = c
    BY <1>3 DEF WithOutput, RequestType
  <2>6. QED BY <2>4, <2>5
<1>5. QED BY <1>4 DEF Answered, q, x

LEMMA AsSessionType ==
    ASSUME NEW q \in RequestType, NEW chunk \in Nat
    PROVE  AsSession(q, chunk) \in RequestType
<1> DEFINE kept == Least(q.tokens, q.computed)
           prompt == q.prompt + Most(0, kept - q.prompt) + chunk
<1>1. kept \in Int /\ q.prompt \in Int
  BY DEF RequestType, Least
<1>2. kept + chunk \in Int /\ prompt \in Int
  BY <1>1 DEF Most
<1> HIDE DEF kept, prompt
<1> DEFINE a == [q EXCEPT !.status = "WAITING"]
           b == [a EXCEPT !.tokens = kept + chunk]
           c == [b EXCEPT !.prompt = prompt]
           d == [c EXCEPT !.outputs = 0]
<1>3. a \in RequestType
  BY RequestFieldUpdate DEF Statuses
<1>4. b \in RequestType
  BY <1>2, <1>3, RequestFieldUpdate, Zenon
<1>5. c \in RequestType
  BY <1>2, <1>4, RequestFieldUpdate, Zenon
<1>6. d \in RequestType
  BY <1>5, RequestFieldUpdate, 0 \in Int, Zenon
<1>7. AsSession(q, chunk) = d
  BY DEF AsSession, RequestType, kept, prompt
<1>8. QED BY <1>6, <1>7

LEMMA AfterScheduleType ==
    ASSUME TypeOK, NEW r \in Requests
    PROVE  AfterSchedule(r) \in RequestType
<1>1. /\ req[r] \in RequestType
      /\ req[r].computed + sch.num[r] \in Int
      /\ req[r].placeholders + 1 + sch.spec[r] \in Int
      /\ NumSpecTokens \in Nat
  BY RequestFields, ScheduleFields, ConstantTypes
<1> DEFINE a == [req[r] EXCEPT !.computed = req[r].computed + sch.num[r]]
           b == [a EXCEPT !.placeholders = req[r].placeholders + 1 + sch.spec[r]]
           c == [b EXCEPT !.spec = NumSpecTokens]
<1>2. a \in RequestType
  BY <1>1, RequestFieldUpdate, Zenon
<1>3. b \in RequestType
  BY <1>1, <1>2, RequestFieldUpdate, Zenon
<1>4. c \in RequestType
  BY <1>1, <1>3, RequestFieldUpdate, Zenon
<1>5. AfterSchedule(r) = IF Async /\ Samples(r) THEN c ELSE a
  BY <1>1 DEF AfterSchedule, RequestType
<1>6. QED BY <1>2, <1>4, <1>5

--------------------------------------------------------------------------------
(* Type correctness of the actions *)

\* The request the running loop allocates for is a request.
LEMMA AllocatedType ==
    ASSUME TypeOK, LoopIndex, phase = "allocate"
    PROVE  sch.request \in Requests
BY DEF LoopIndex, TypeOK, ToSet

LEMMA RunningElements ==
    ASSUME TypeOK, NEW i \in DOMAIN running
    PROVE  running[i] \in Requests
BY DEF TypeOK

LEMMA WaitingElements ==
    ASSUME TypeOK, NEW i \in DOMAIN waiting
    PROVE  waiting[i] \in Requests
BY DEF TypeOK

\* Inside the running loop the index is one of the list.
LEMMA IndexInList ==
    ASSUME TypeOK, LoopIndex, InRunningLoop
    PROVE  sch.index \in DOMAIN running
<1>1. sch.index >= 1
  BY FS_CardinalityType, ScheduleFields DEF LoopIndex
<1>2. sch.index \in 1 .. Len(running)
  BY <1>1, ScheduleFields DEF InRunningLoop, TypeOK
<1>3. QED BY <1>2 DEF TypeOK

LEMMA RemoveFromRunningType ==
    ASSUME TypeOK, NEW i \in DOMAIN running
    PROVE  RemoveAt(running, i) \in Seq(Requests)
<1>1. running \in Seq(Requests) /\ i \in 1 .. Len(running)
  BY DEF TypeOK
<1>2. QED BY <1>1, RemoveAtIsSeq

LEMMA RemoveFromWaitingType ==
    ASSUME TypeOK, NEW i \in DOMAIN waiting
    PROVE  RemoveAt(waiting, i) \in Seq(Requests)
<1>1. waiting \in Seq(Requests) /\ i \in 1 .. Len(waiting)
  BY DEF TypeOK
<1>2. QED BY <1>1, RemoveAtIsSeq

LEMMA RemoveFromQueuesType ==
    ASSUME TypeOK, NEW r \in Requests, RemoveFromQueues(r)
    PROVE  waiting' \in Seq(Requests) /\ running' \in Seq(Requests)
<1>1. waiting \in Seq(Requests) /\ running \in Seq(Requests)
  BY DEF TypeOK
<1>2. Without(waiting, r) \in Seq(Requests) /\ Without(running, r) \in Seq(Requests)
  BY <1>1, WithoutElements
<1>3. QED BY <1>1, <1>2 DEF RemoveFromQueues

LEMMA TypeOfBeginSchedule == TypeOK /\ BeginSchedule => TypeOK'
<1> SUFFICES ASSUME TypeOK, BeginSchedule PROVE TypeOK'
  OBVIOUS
<1> DEFINE c == CeilDiv(Len(waiting) + Len(running), PipelineSize)
           a == [NoSchedule EXCEPT !.budget = MaxBatched]
<1>1. c \in Int /\ MaxBatched \in Int
  BY ConstantTypes, CeilDivType DEF TypeOK
<1> HIDE DEF c
<1>2. a \in ScheduleType
  BY <1>1, NoScheduleType, ScheduleFieldUpdate, Zenon
<1>3. [a EXCEPT !.cap = c] \in ScheduleType
  BY <1>1, <1>2, ScheduleFieldUpdate, Zenon
<1>4. sch' \in ScheduleType
  BY <1>3 DEF BeginSchedule, c
<1>5. phase' \in Phases
  BY DEF BeginSchedule, Phases
<1>6. QED
  BY <1>4, <1>5 DEF BeginSchedule, TypeOK, requestVars, cacheVars, stepVars, clientVars

LEMMA TypeOfRunningSkip == TypeOK /\ RunningSkip => TypeOK'
<1> SUFFICES ASSUME TypeOK, RunningSkip PROVE TypeOK'
  OBVIOUS
<1>1. sch' \in ScheduleType
  <2>1. sch \in ScheduleType /\ sch.index + 1 \in Int
    BY ScheduleFields
  <2>2. QED BY <2>1, ScheduleFieldUpdate, Zenon DEF RunningSkip
<1>2. QED BY <1>1 DEF RunningSkip, TypeOK, requestVars, cacheVars, stepVars, clientVars

LEMMA TypeOfRunningPick == TypeOK /\ LoopIndex /\ RunningPick => TypeOK'
<1> SUFFICES ASSUME TypeOK, LoopIndex, RunningPick PROVE TypeOK'
  OBVIOUS
<1> DEFINE r == running[sch.index]
           a == [sch EXCEPT !.request = r]
<1>1. sch.index \in DOMAIN running
  BY IndexInList DEF RunningPick
<1>2. r \in Requests
  BY <1>1, RunningElements
<1>3. NumNewTokens(r) \in Int
  BY <1>2, NumNewTokensType
<1>4. a \in ScheduleType
  BY <1>2, ScheduleFields, ScheduleFieldUpdate, Zenon
<1>5. [a EXCEPT !.new_tokens = NumNewTokens(r)] \in ScheduleType
  BY <1>3, <1>4, ScheduleFieldUpdate, Zenon
<1>6. sch' \in ScheduleType
  BY <1>5 DEF RunningPick
<1>7. phase' \in Phases
  BY DEF RunningPick, Phases
<1>8. QED
  BY <1>6, <1>7 DEF RunningPick, TypeOK, requestVars, cacheVars, stepVars, clientVars

LEMMA TypeOfRunningSchedule == TypeOK /\ LoopIndex /\ RunningSchedule => TypeOK'
<1> SUFFICES ASSUME TypeOK, LoopIndex, RunningSchedule PROVE TypeOK'
  OBVIOUS
<1> DEFINE r == sch.request
           n == sch.new_tokens
           d == ScheduledDrafts(r, n)
<1>1. r \in Requests
  BY AllocatedType DEF RunningSchedule
<1>2. /\ sch \in ScheduleType /\ n \in Int /\ sch.budget - n \in Int
      /\ sch.index + 1 \in Int /\ sch.continued \cup {r} \in SUBSET Requests
  BY <1>1, ScheduleFields
<1>3. d \in Nat
  BY <1>1, <1>2, ScheduledDraftsType
<1>4. blocks' \in [Requests -> Nat] /\ free_blocks' \in Nat
  <2>1. MissingForRunning \in Nat
    BY <1>1, <1>2, MissingType, RequestFields, ConstantTypes DEF MissingForRunning
  <2>2. QED BY <1>1, <2>1, TakeBlocksType DEF RunningSchedule
<1>5. sch' \in ScheduleType
  <2> DEFINE s1 == [sch EXCEPT !.num[r] = n]
             s2 == [s1 EXCEPT !.spec[r] = d]
             s3 == [s2 EXCEPT !.continued = sch.continued \cup {r}]
             s4 == [s3 EXCEPT !.budget = sch.budget - n]
             s5 == [s4 EXCEPT !.index = sch.index + 1]
             s6 == [s5 EXCEPT !.request = NoRequest]
             s7 == [s6 EXCEPT !.new_tokens = 0]
  <2>1. s1 \in ScheduleType
    BY <1>1, <1>2, ScheduleFieldUpdate, Zenon
  <2>2. s2 \in ScheduleType
    BY <1>1, <1>3, <2>1, ScheduleFieldUpdate, Zenon
  <2>3. s3 \in ScheduleType
    BY <1>2, <2>2, ScheduleFieldUpdate, Zenon
  <2>4. s4 \in ScheduleType
    BY <1>2, <2>3, ScheduleFieldUpdate, Zenon
  <2>5. s5 \in ScheduleType
    BY <1>2, <2>4, ScheduleFieldUpdate, Zenon
  <2>6. s6 \in ScheduleType
    BY <2>5, ScheduleFieldUpdate, NoRequest \in Requests \cup {NoRequest}, Zenon
  <2>7. s7 \in ScheduleType
    BY <2>6, ScheduleFieldUpdate, 0 \in Int, Zenon
  <2>8. sch' = s7
    BY <1>2 DEF RunningSchedule, ScheduleType
  <2>9. QED BY <2>7, <2>8
<1>6. req' \in [Requests -> RequestType]
  <2>1. [req[r] EXCEPT !.spec = 0] \in RequestType
    BY <1>1, RequestFields, RequestFieldUpdate, 0 \in Nat, Zenon
  <2>2. QED BY <1>1, <2>1, RequestUpdate DEF RunningSchedule, TypeOK
<1>7. phase' \in Phases
  BY DEF RunningSchedule, Phases
<1>8. QED
  BY <1>4, <1>5, <1>6, <1>7 DEF RunningSchedule, TypeOK, stepVars, clientVars

LEMMA TypeOfRunningPreempt == TypeOK /\ LoopIndex /\ RunningPreempt => TypeOK'
<1> SUFFICES ASSUME TypeOK, LoopIndex, RunningPreempt PROVE TypeOK'
  OBVIOUS
<1>1. PICK i \in DOMAIN running :
        LET v == running[i]
        IN  /\ running' = RemoveAt(running, i)
            /\ waiting' = Prepended(v)
            /\ req' = [req EXCEPT ![v] = Preempted(@)]
            /\ FreeBlocks(v)
            /\ IF v = sch.request
               THEN /\ phase' = "close"
                    /\ sch' = [Unschedule(v) EXCEPT !.request = NoRequest,
                                                    !.new_tokens = 0]
               ELSE /\ phase' = phase
                    /\ sch' = Unschedule(v)
  BY DEF RunningPreempt
<1> DEFINE v == running[i]
<1>2. v \in Requests
  BY RunningElements
<1> HIDE DEF v
<1>3. running' \in Seq(Requests)
  BY <1>1, RemoveFromRunningType
<1>4. waiting' \in Seq(Requests)
  BY <1>1, <1>2 DEF Prepended, TypeOK, v
<1>5. req' \in [Requests -> RequestType]
  BY <1>1, <1>2, PreemptedType, RequestFields, RequestUpdate DEF v, TypeOK
<1>6. blocks' \in [Requests -> Nat] /\ free_blocks' \in Nat
  BY <1>1, <1>2, FreeBlocksType DEF v
<1>7. sch' \in ScheduleType
  <2> DEFINE u == Unschedule(v)
             a == [u EXCEPT !.request = NoRequest]
  <2>1. u \in ScheduleType
    BY <1>2, UnscheduleType
  <2> HIDE DEF u
  <2>2. a \in ScheduleType
    BY <2>1, ScheduleFieldUpdate, NoRequest \in Requests \cup {NoRequest}, Zenon
  <2>3. [a EXCEPT !.new_tokens = 0] \in ScheduleType
    BY <2>2, ScheduleFieldUpdate, 0 \in Int, Zenon
  <2>4. sch' = u \/ sch' = [a EXCEPT !.new_tokens = 0]
    BY <1>1 DEF u, v
  <2>5. QED BY <2>1, <2>3, <2>4
<1>8. phase' \in Phases
  BY <1>1 DEF Phases, TypeOK
<1>9. QED
  BY <1>3, <1>4, <1>5, <1>6, <1>7, <1>8
  DEF RunningPreempt, TypeOK, stepVars, clientVars

LEMMA TypeOfRunningDone == TypeOK /\ RunningDone => TypeOK'
BY DEF RunningDone, TypeOK, Phases, requestVars, cacheVars, stepVars, clientVars

LEMMA TypeOfWaitingGrammar == TypeOK /\ WaitingGrammar => TypeOK'
<1> SUFFICES ASSUME TypeOK, WaitingGrammar PROVE TypeOK'
  OBVIOUS
<1>1. PICK i \in DOMAIN waiting : req' = [req EXCEPT ![waiting[i]].status = "WAITING"]
  BY DEF WaitingGrammar
<1> DEFINE r == waiting[i]
<1>2. r \in Requests
  BY WaitingElements
<1>3. [req[r] EXCEPT !.status = "WAITING"] \in RequestType
  BY <1>2, RequestFields, RequestFieldUpdate DEF Statuses
<1>4. req' \in [Requests -> RequestType]
  BY <1>1, <1>2, <1>3, RequestUpdate DEF TypeOK
<1>5. QED BY <1>4 DEF WaitingGrammar, TypeOK, cacheVars, stepVars, clientVars

LEMMA TypeOfWaitingSkip == TypeOK /\ WaitingSkip => TypeOK'
<1> SUFFICES ASSUME TypeOK, WaitingSkip PROVE TypeOK'
  OBVIOUS
<1>1. PICK i \in DOMAIN waiting :
        /\ waiting' = RemoveAt(waiting, i)
        /\ sch' = [sch EXCEPT !.skipped = Append(@, waiting[i])]
  BY DEF WaitingSkip
<1>2. waiting' \in Seq(Requests)
  BY <1>1, RemoveFromWaitingType
<1>3. sch' \in ScheduleType
  <2>1. Append(sch.skipped, waiting[i]) \in Seq(Requests)
    BY WaitingElements, ScheduleFields
  <2>2. QED BY <1>1, <2>1, ScheduleFields, ScheduleFieldUpdate, Zenon
<1>4. QED BY <1>2, <1>3 DEF WaitingSkip, TypeOK, cacheVars, stepVars, clientVars

LEMMA TypeOfWaitingAdmit == TypeOK /\ WaitingAdmit => TypeOK'
<1> SUFFICES ASSUME TypeOK, WaitingAdmit PROVE TypeOK'
  OBVIOUS
<1>1. PICK i \in DOMAIN waiting : \E computed \in CachedTokens(waiting[i]) :
        LET r == waiting[i]
            n == Least(NumPrefillTokens(r, computed), sch.budget)
        IN  /\ Admissible(r, computed)
            /\ TakeBlocks(r, MissingForWaiting(r, computed))
            /\ req' = [req EXCEPT ![r].status = "RUNNING", ![r].computed = computed]
            /\ sch' = [sch EXCEPT
                 !.new = IF req[r].status = "WAITING" THEN @ \cup {r} ELSE @,
                 !.resumed = IF req[r].status = "PREEMPTED" THEN @ \cup {r} ELSE @,
                 !.num[r] = n,
                 !.budget = @ - n]
            /\ waiting' = RemoveAt(waiting, i)
            /\ running' = Append(running, r)
  BY DEF WaitingAdmit
<1> DEFINE r == waiting[i]
<1>2. r \in Requests
  BY WaitingElements
<1> HIDE DEF r
<1>3. PICK computed \in CachedTokens(r) :
        LET n == Least(NumPrefillTokens(r, computed), sch.budget)
        IN  /\ Admissible(r, computed)
            /\ TakeBlocks(r, MissingForWaiting(r, computed))
            /\ req' = [req EXCEPT ![r].status = "RUNNING", ![r].computed = computed]
            /\ sch' = [sch EXCEPT
                 !.new = IF req[r].status = "WAITING" THEN @ \cup {r} ELSE @,
                 !.resumed = IF req[r].status = "PREEMPTED" THEN @ \cup {r} ELSE @,
                 !.num[r] = n,
                 !.budget = @ - n]
            /\ running' = Append(running, r)
  BY <1>1 DEF r
<1> DEFINE n == Least(NumPrefillTokens(r, computed), sch.budget)
<1>4. computed \in Int
  BY <1>2, CachedTokensType
<1>5. n \in Int
  BY <1>2, <1>4, NumPrefillTokensType, ScheduleFields DEF Least
<1>6. blocks' \in [Requests -> Nat] /\ free_blocks' \in Nat
  <2> DEFINE k == IF req[r].computed = 0 THEN 0 ELSE NumLookahead
  <2>1. k \in Int
    BY ConstantTypes
  <2>2. MissingForWaiting(r, computed) \in Nat
    BY <1>2, <1>4, <1>5, <2>1, MissingType DEF MissingForWaiting
  <2>3. QED BY <1>2, <1>3, <2>2, TakeBlocksType DEF Admissible
<1> HIDE DEF n
<1>7. req' \in [Requests -> RequestType]
  <2> DEFINE a == [req[r] EXCEPT !.status = "RUNNING"]
  <2>1. a \in RequestType
    BY <1>2, RequestFields, RequestFieldUpdate DEF Statuses
  <2>2. [a EXCEPT !.computed = computed] \in RequestType
    BY <1>4, <2>1, RequestFieldUpdate, Zenon
  <2>3. req' = [req EXCEPT ![r] = [a EXCEPT !.computed = computed]]
    BY <1>2, <1>3 DEF TypeOK
  <2>4. QED BY <1>2, <2>2, <2>3, RequestUpdate
<1>8. sch' \in ScheduleType
  <2> DEFINE new == IF req[r].status = "WAITING" THEN sch.new \cup {r} ELSE sch.new
             resumed == IF req[r].status = "PREEMPTED" THEN sch.resumed \cup {r}
                        ELSE sch.resumed
             s1 == [sch EXCEPT !.new = new]
             s2 == [s1 EXCEPT !.resumed = resumed]
             s3 == [s2 EXCEPT !.num[r] = n]
             s4 == [s3 EXCEPT !.budget = sch.budget - n]
  <2>1. /\ sch \in ScheduleType /\ new \in SUBSET Requests
        /\ resumed \in SUBSET Requests /\ sch.budget - n \in Int
    BY <1>2, <1>5, ScheduleFields
  <2>2. s1 \in ScheduleType
    BY <2>1, ScheduleFieldUpdate, Zenon
  <2>3. s2 \in ScheduleType
    BY <2>1, <2>2, ScheduleFieldUpdate, Zenon
  <2>4. s3 \in ScheduleType
    BY <1>2, <1>5, <2>3, ScheduleFieldUpdate, Zenon
  <2>5. s4 \in ScheduleType
    BY <2>1, <2>4, ScheduleFieldUpdate, Zenon
  <2>6. sch' = s4
    BY <1>3, <2>1 DEF ScheduleType, n
  <2>7. QED BY <2>5, <2>6
<1>9. waiting' \in Seq(Requests)
  BY <1>1, RemoveFromWaitingType
<1>10. running' \in Seq(Requests)
  BY <1>2, <1>3 DEF TypeOK
<1>11. QED
  BY <1>6, <1>7, <1>8, <1>9, <1>10 DEF WaitingAdmit, TypeOK, stepVars, clientVars

LEMMA TypeOfLeaveWaitingLoop == TypeOK /\ LeaveWaitingLoop => TypeOK'
<1> SUFFICES ASSUME TypeOK, LeaveWaitingLoop PROVE TypeOK'
  OBVIOUS
<1>1. waiting' \in Seq(Requests)
  BY ScheduleFields DEF LeaveWaitingLoop, TypeOK
<1>2. sch' \in ScheduleType
  BY ScheduleFields, ScheduleFieldUpdate, <<>> \in Seq(Requests) DEF LeaveWaitingLoop
<1>3. phase' \in Phases
  BY DEF LeaveWaitingLoop, Phases
<1>4. QED
  BY <1>1, <1>2, <1>3 DEF LeaveWaitingLoop, TypeOK, cacheVars, stepVars, clientVars

LEMMA TypeOfEndSchedule == TypeOK /\ EndSchedule => TypeOK'
<1> SUFFICES ASSUME TypeOK, EndSchedule PROVE TypeOK'
  OBVIOUS
<1>1. batch_queue' \in Seq(OutputType)
  <2>1. \A r \in Requests : req[r].tokens + req[r].placeholders \in Int
    BY RequestFields
  <2>2. StepOutput \in OutputType
    BY <2>1, ScheduleFields DEF StepOutput, OutputType
  <2>3. QED BY <2>2 DEF EndSchedule, TypeOK
<1>2. req' \in [Requests -> RequestType]
  BY AfterScheduleType DEF EndSchedule
<1>3. sch' \in ScheduleType
  BY NoScheduleType DEF EndSchedule
<1>4. phase' \in Phases /\ prev_step_scheduled_req_ids' \subseteq Requests
  BY DEF EndSchedule, Phases
<1>5. QED
  BY <1>1, <1>2, <1>3, <1>4 DEF EndSchedule, TypeOK, cacheVars, clientVars

LEMMA TypeOfBeginUpdate == TypeOK /\ BeginUpdate => TypeOK'
BY DEF BeginUpdate, TypeOK, Phases, requestVars, cacheVars, stepVars, clientVars

LEMMA TypeOfUpdateSkip ==
    ASSUME NEW r \in Requests
    PROVE  TypeOK /\ UpdateSkip(r) => TypeOK'
BY DEF UpdateSkip, Visit, TypeOK, requestVars, cacheVars, stepVars, clientVars

LEMMA TypeOfUpdateContinue ==
    ASSUME NEW r \in Requests
    PROVE  TypeOK /\ UpdatesAnOutput /\ UpdateContinue(r) => TypeOK'
<1> SUFFICES ASSUME TypeOK, UpdatesAnOutput, UpdateContinue(r) PROVE TypeOK'
  OBVIOUS
<1>1. PICK g \in Generated(r) : req' = [req EXCEPT ![r] = Answered(r, g, g)]
  BY DEF UpdateContinue
<1>2. g \in Int
  BY DEF Generated
<1>3. Answered(r, g, g) \in RequestType
  BY <1>2, HeadType, AnsweredType DEF UpdatesAnOutput, UpdateContinue, Visit
<1>4. req' \in [Requests -> RequestType]
  BY <1>1, <1>3, RequestUpdate
<1>5. QED BY <1>4 DEF UpdateContinue, Visit, TypeOK, cacheVars, stepVars, clientVars

LEMMA TypeOfFree ==
    ASSUME TypeOK, NEW r \in Requests, Free(r)
    PROVE  /\ blocks' \in [Requests -> Nat] /\ free_blocks' \in Nat
           /\ finished_req_ids' \subseteq Requests
<1>1. FreeBlocks(r)
  BY DEF Free
<1>2. blocks' \in [Requests -> Nat] /\ free_blocks' \in Nat
  BY <1>1, FreeBlocksType
<1>3. QED BY <1>2 DEF Free, TypeOK

LEMMA TypeOfUpdateFinish ==
    ASSUME NEW r \in Requests
    PROVE  TypeOK /\ UpdatesAnOutput /\ UpdateFinish(r) => TypeOK'
<1> SUFFICES ASSUME TypeOK, UpdatesAnOutput, UpdateFinish(r) PROVE TypeOK'
  OBVIOUS
<1>1. PICK g \in Generated(r) : \E k \in 1 .. g :
        req' = [req EXCEPT ![r] = [Answered(r, g, k) EXCEPT !.status = "FINISHED"]]
  BY DEF UpdateFinish
<1>2. PICK k \in 1 .. g :
        req' = [req EXCEPT ![r] = [Answered(r, g, k) EXCEPT !.status = "FINISHED"]]
  BY <1>1
<1>3. g \in Int /\ k \in Int
  BY DEF Generated
<1>4. Answered(r, g, k) \in RequestType
  BY <1>3, HeadType, AnsweredType DEF UpdatesAnOutput, UpdateFinish, Visit
<1>5. [Answered(r, g, k) EXCEPT !.status = "FINISHED"] \in RequestType
  BY <1>4, RequestFieldUpdate, "FINISHED" \in Statuses DEF Statuses
<1>6. req' \in [Requests -> RequestType]
  BY <1>2, <1>5, RequestUpdate
<1>7. /\ blocks' \in [Requests -> Nat] /\ free_blocks' \in Nat
      /\ finished_req_ids' \subseteq Requests
  BY TypeOfFree DEF UpdateFinish
<1>8. waiting' \in Seq(Requests) /\ running' \in Seq(Requests)
  BY RemoveFromQueuesType DEF UpdateFinish
<1>9. QED BY <1>6, <1>7, <1>8 DEF UpdateFinish, Visit, TypeOK, clientVars

\* A queued message of a session that does not end it is a chunk of input.
LEMMA NextChunk ==
    ASSUME NEW q \in RequestType, q.queue # <<>>, Head(q.queue) # CloseSession
    PROVE  /\ Head(q.queue) \in Nat
           /\ Tail(q.queue) \in Seq(ChunkLens \cup {CloseSession})
<1>1. q.queue \in Seq(ChunkLens \cup {CloseSession})
  BY DEF RequestType
<1>2. Head(q.queue) \in ChunkLens \cup {CloseSession}
  BY <1>1
<1>3. Tail(q.queue) \in Seq(ChunkLens \cup {CloseSession})
  BY <1>1
<1>4. QED BY <1>2, <1>3, ConstantTypes

LEMMA TypeOfUpdateSession ==
    ASSUME NEW r \in Requests
    PROVE  TypeOK /\ UpdatesAnOutput /\ UpdateSession(r) => TypeOK'
<1> SUFFICES ASSUME TypeOK, UpdatesAnOutput, UpdateSession(r) PROVE TypeOK'
  OBVIOUS
<1>1. PICK g \in Generated(r) : \E k \in 1 .. g :
        LET q == Answered(r, g, k)
        IN  IF HasInput(r)
            THEN /\ req' = [req EXCEPT ![r] =
                              [AsSession(q, Head(q.queue)) EXCEPT !.queue = Tail(@)]]
                 /\ UNCHANGED num_waiting_for_streaming_input
            ELSE /\ req' = [req EXCEPT ![r] =
                              [q EXCEPT !.status = "WAITING_FOR_STREAMING_REQ"]]
                 /\ num_waiting_for_streaming_input' =
                        num_waiting_for_streaming_input + 1
  BY DEF UpdateSession
<1>2. PICK k \in 1 .. g :
        LET q == Answered(r, g, k)
        IN  IF HasInput(r)
            THEN /\ req' = [req EXCEPT ![r] =
                              [AsSession(q, Head(q.queue)) EXCEPT !.queue = Tail(@)]]
                 /\ UNCHANGED num_waiting_for_streaming_input
            ELSE /\ req' = [req EXCEPT ![r] =
                              [q EXCEPT !.status = "WAITING_FOR_STREAMING_REQ"]]
                 /\ num_waiting_for_streaming_input' =
                        num_waiting_for_streaming_input + 1
  BY <1>1
<1> DEFINE q == Answered(r, g, k)
<1>3. g \in Int /\ k \in Int
  BY DEF Generated
<1>4. q \in RequestType /\ q.queue = req[r].queue
  <2>1. q \in RequestType
    BY <1>3, HeadType, AnsweredType DEF UpdatesAnOutput, UpdateSession, Visit
  <2>2. q.queue = req[r].queue
    BY RequestFields DEF Answered, WithOutput, Adjusted, RequestType
  <2>3. QED BY <2>1, <2>2
<1> HIDE DEF q
<1>5. req' \in [Requests -> RequestType]
  <2>1. CASE HasInput(r)
    <3> DEFINE s == AsSession(q, Head(q.queue))
    <3>1. q.queue # <<>> /\ Head(q.queue) # CloseSession
      BY <1>4, <2>1 DEF UpdateSession, SessionClosed, HasInput
    <3>2. Head(q.queue) \in Nat /\ Tail(q.queue) \in Seq(ChunkLens \cup {CloseSession})
      BY <1>4, <3>1, NextChunk
    <3>3. s \in RequestType
      BY <1>4, <3>2, AsSessionType
    <3>4. s.queue = q.queue
      BY <1>4 DEF AsSession, RequestType
    <3> HIDE DEF s
    <3>5. [s EXCEPT !.queue = Tail(q.queue)] \in RequestType
      BY <3>2, <3>3, RequestFieldUpdate, Zenon
    <3>6. req' = [req EXCEPT ![r] = [s EXCEPT !.queue = Tail(q.queue)]]
      BY <1>2, <2>1, <3>4 DEF q, s
    <3>7. QED BY <3>5, <3>6, RequestUpdate
  <2>2. CASE ~HasInput(r)
    <3>1. [q EXCEPT !.status = "WAITING_FOR_STREAMING_REQ"] \in RequestType
      BY <1>4, RequestFieldUpdate, "WAITING_FOR_STREAMING_REQ" \in Statuses DEF Statuses
    <3>2. QED BY <1>2, <2>2, <3>1, RequestUpdate DEF q
  <2>3. QED BY <2>1, <2>2
<1>6. num_waiting_for_streaming_input' \in Int
  BY <1>2 DEF TypeOK
<1>7. waiting' \in Seq(Requests) /\ running' \in Seq(Requests)
  <2>1. waiting \in Seq(Requests) /\ running \in Seq(Requests)
    BY DEF TypeOK
  <2>2. Without(waiting, r) \in Seq(Requests) /\ Without(running, r) \in Seq(Requests)
    BY <2>1, WithoutElements
  <2>3. Append(waiting, r) \in Seq(Requests)
    BY <2>1
  <2>4. QED BY <2>1, <2>2, <2>3 DEF UpdateSession, RequeueSession
<1>8. QED
  BY <1>5, <1>6, <1>7 DEF UpdateSession, Visit, TypeOK, cacheVars, stepVars, clientVars

\* Draft tokens handed over change the draft count alone.
LEMMA HandedOver ==
    ASSUME EndUpdate, NEW s \in Requests
    PROVE  \/ req'[s] = req[s]
           \/ \E n \in 0 .. NumSpecTokens : req'[s] = [req[s] EXCEPT !.spec = n]
<1>1. PICK drafts \in [Requests -> 0 .. NumSpecTokens] :
        req' = [r \in Requests |->
                  IF ~Async /\ Live(r) /\ Head(batch_queue).num[r] > 0
                  THEN [req[r] EXCEPT !.spec = drafts[r]] ELSE req[r]]
  BY DEF EndUpdate
<1>2. QED BY <1>1

LEMMA TypeOfEndUpdate == TypeOK /\ UpdatesAnOutput /\ EndUpdate => TypeOK'
<1> SUFFICES ASSUME TypeOK, UpdatesAnOutput, EndUpdate PROVE TypeOK'
  OBVIOUS
<1>1. \A r \in Requests : req'[r] \in RequestType
  <2> TAKE r \in Requests
  <2>1. req[r] \in RequestType /\ 0 .. NumSpecTokens \subseteq Nat
    BY RequestFields, ConstantTypes
  <2>2. \A n \in 0 .. NumSpecTokens : [req[r] EXCEPT !.spec = n] \in RequestType
    BY <2>1, RequestFieldUpdate, Zenon
  <2>3. QED BY <2>1, <2>2, HandedOver
<1>2. req' \in [Requests -> RequestType]
  <2>1. req' = [r \in Requests |-> req'[r]]
    BY DEF EndUpdate
  <2>2. QED BY <1>1, <2>1
<1>3. batch_queue' \in Seq(OutputType)
  BY HeadType DEF EndUpdate, UpdatesAnOutput
<1>4. QED BY <1>2, <1>3 DEF EndUpdate, TypeOK, Phases, cacheVars, clientVars

LEMMA TypeOfAddRequest ==
    ASSUME NEW r \in Requests
    PROVE  TypeOK /\ AddRequest(r) => TypeOK'
<1> SUFFICES ASSUME TypeOK, AddRequest(r) PROVE TypeOK'
  OBVIOUS
<1> DEFINE status == IF r \in Structured THEN "WAITING_FOR_FSM" ELSE "WAITING"
<1>1. [req[r] EXCEPT !.status = status] \in RequestType
  BY RequestFields, RequestFieldUpdate DEF Statuses
<1>2. req' = [req EXCEPT ![r] = [req[r] EXCEPT !.status = status]]
  BY DEF AddRequest, TypeOK
<1>3. req' \in [Requests -> RequestType]
  BY <1>1, <1>2, RequestUpdate
<1>4. waiting' \in Seq(Requests)
  BY DEF AddRequest, TypeOK
<1>5. QED BY <1>3, <1>4 DEF AddRequest, TypeOK, cacheVars, stepVars, clientVars

LEMMA TypeOfFinished ==
    ASSUME TypeOK, NEW r \in Requests, Finished(r)
    PROVE  /\ req' \in [Requests -> RequestType]
           /\ num_waiting_for_streaming_input' \in Int
           /\ waiting' \in Seq(Requests) /\ running' \in Seq(Requests)
           /\ blocks' \in [Requests -> Nat] /\ free_blocks' \in Nat
           /\ finished_req_ids' \subseteq Requests
<1>1. [req[r] EXCEPT !.status = "FINISHED"] \in RequestType
  BY RequestFields, RequestFieldUpdate DEF Statuses
<1>2. req' \in [Requests -> RequestType]
  BY <1>1, RequestUpdate DEF Finished, TypeOK
<1>3. num_waiting_for_streaming_input' \in Int
  BY DEF Finished, TypeOK
<1>4. QED BY <1>2, <1>3, TypeOfFree, RemoveFromQueuesType DEF Finished

LEMMA TypeOfFinishRequests ==
    ASSUME NEW r \in Requests
    PROVE  TypeOK /\ FinishRequests(r) => TypeOK'
BY TypeOfFinished DEF FinishRequests, TypeOK, clientVars

LEMMA TypeOfStreamingUpdate ==
    ASSUME NEW r \in Requests
    PROVE  TypeOK /\ StreamingUpdate(r) => TypeOK'
<1> SUFFICES ASSUME TypeOK, StreamingUpdate(r) PROVE TypeOK'
  OBVIOUS
<1> DEFINE Same == UNCHANGED <<waiting, running, cacheVars, finished_req_ids>>
<1>1. PICK update \in ChunkLens \cup {CloseSession} :
        /\ chunks_sent' = [chunks_sent EXCEPT
                ![r] = IF update = CloseSession THEN MaxChunks + 1 ELSE @ + 1]
        /\ \/ /\ req' = [req EXCEPT ![r].queue = Append(@, update)]
              /\ UNCHANGED <<waiting, running, num_waiting_for_streaming_input,
                             cacheVars, finished_req_ids>>
           \/ /\ update # CloseSession
              /\ req' = [req EXCEPT ![r] = AsSession(@, update)]
              /\ num_waiting_for_streaming_input' = num_waiting_for_streaming_input - 1
              /\ UNCHANGED <<waiting, running, cacheVars, finished_req_ids>>
           \/ Finished(r)
  BY DEF StreamingUpdate
<1>2. chunks_sent' \in [Requests -> Nat]
  <2>1. chunks_sent \in [Requests -> Nat] /\ MaxChunks + 1 \in Nat
    BY ConstantTypes DEF TypeOK
  <2>2. (IF update = CloseSession THEN MaxChunks + 1 ELSE chunks_sent[r] + 1) \in Nat
    BY <2>1
  <2>3. QED BY <1>1, <2>1, <2>2
<1>3. /\ req' \in [Requests -> RequestType]
      /\ num_waiting_for_streaming_input' \in Int
      /\ waiting' \in Seq(Requests) /\ running' \in Seq(Requests)
      /\ blocks' \in [Requests -> Nat] /\ free_blocks' \in Nat
      /\ finished_req_ids' \subseteq Requests
  <2>1. CASE /\ req' = [req EXCEPT ![r].queue = Append(@, update)]
             /\ UNCHANGED <<waiting, running, num_waiting_for_streaming_input,
                            cacheVars, finished_req_ids>>
    <3>1. Append(req[r].queue, update) \in Seq(ChunkLens \cup {CloseSession})
      BY RequestFields
    <3>2. [req[r] EXCEPT !.queue = Append(req[r].queue, update)] \in RequestType
      BY <3>1, RequestFields, RequestFieldUpdate, Zenon
    <3>3. req' \in [Requests -> RequestType]
      BY <2>1, <3>2, RequestUpdate DEF TypeOK
    <3>4. QED BY <2>1, <3>3 DEF TypeOK, cacheVars
  <2>2. CASE /\ update # CloseSession
             /\ req' = [req EXCEPT ![r] = AsSession(@, update)]
             /\ num_waiting_for_streaming_input' = num_waiting_for_streaming_input - 1
             /\ UNCHANGED <<waiting, running, cacheVars, finished_req_ids>>
    <3>1. update \in Nat
      BY <2>2, ConstantTypes
    <3>2. AsSession(req[r], update) \in RequestType
      BY <3>1, RequestFields, AsSessionType
    <3>3. req' \in [Requests -> RequestType]
      BY <2>2, <3>2, RequestUpdate DEF TypeOK
    <3>4. QED BY <2>2, <3>3 DEF TypeOK, cacheVars
  <2>3. CASE Finished(r)
    BY <2>3, TypeOfFinished
  <2>4. QED BY <1>1, <2>1, <2>2, <2>3
<1>4. QED BY <1>2, <1>3 DEF StreamingUpdate, TypeOK

LEMMA TypeOfGrammarReady ==
    ASSUME NEW r \in Requests
    PROVE  TypeOK /\ GrammarReady(r) => TypeOK'
BY DEF GrammarReady, TypeOK, requestVars, cacheVars, stepVars

LEMMA TypeOfBeginReset == TypeOK /\ BeginReset => TypeOK'
BY DEF BeginReset, TypeOK, Phases, requestVars, cacheVars, stepVars

LEMMA TypeOfResetPreempt == TypeOK /\ ResetPreempt => TypeOK'
<1> SUFFICES ASSUME TypeOK, ResetPreempt PROVE TypeOK'
  OBVIOUS
<1> DEFINE v == running[Len(running)]
<1>1. Len(running) \in DOMAIN running /\ v \in Requests
  BY DEF ResetPreempt, TypeOK
<1>2. running' \in Seq(Requests)
  BY <1>1, RemoveFromRunningType DEF ResetPreempt
<1>3. waiting' \in Seq(Requests)
  BY <1>1 DEF ResetPreempt, Prepended, TypeOK
<1>4. req' \in [Requests -> RequestType]
  <2> DEFINE q == Preempted(req[v])
  <2>1. q \in RequestType
    BY <1>1, RequestFields, PreemptedType
  <2> HIDE DEF q
  <2>2. [q EXCEPT !.placeholders = 0] \in RequestType
    BY <2>1, RequestFieldUpdate, 0 \in Int, Zenon
  <2>3. QED BY <1>1, <2>2, RequestUpdate DEF ResetPreempt, TypeOK, q
<1>5. blocks' \in [Requests -> Nat] /\ free_blocks' \in Nat
  BY <1>1, FreeBlocksType DEF ResetPreempt
<1>6. QED
  BY <1>2, <1>3, <1>4, <1>5 DEF ResetPreempt, TypeOK, stepVars, clientVars

LEMMA TypeOfEndReset == TypeOK /\ EndReset => TypeOK'
BY DEF EndReset, TypeOK, Phases, requestVars, cacheVars, clientVars

--------------------------------------------------------------------------------
(* The inductive invariant *)


LEMMA TypeStep == IInv /\ [Next]_vars => TypeOK'
<1> SUFFICES ASSUME IInv, [Next]_vars PROVE TypeOK'
  OBVIOUS
<1> USE DEF IInv
<1>1. CASE ScheduleStep
  <2>1. WaitingBlocked \/ WaitingDone => LeaveWaitingLoop
    BY DEF WaitingBlocked, WaitingDone
  <2>2. QED
    BY <1>1, <2>1, TypeOfBeginSchedule, TypeOfRunningSkip, TypeOfRunningPick,
       TypeOfRunningSchedule, TypeOfRunningPreempt, TypeOfRunningDone,
       TypeOfWaitingGrammar, TypeOfWaitingSkip, TypeOfWaitingAdmit,
       TypeOfLeaveWaitingLoop, TypeOfEndSchedule DEF ScheduleStep
<1>2. CASE UpdateStep
  BY <1>2, TypeOfBeginUpdate, TypeOfUpdateSkip, TypeOfUpdateContinue,
     TypeOfUpdateFinish, TypeOfUpdateSession, TypeOfEndUpdate DEF UpdateStep
<1>3. CASE ResetStep
  BY <1>3, TypeOfBeginReset, TypeOfResetPreempt, TypeOfEndReset DEF ResetStep
<1>4. CASE ClientStep
  BY <1>4, TypeOfAddRequest, TypeOfFinishRequests, TypeOfStreamingUpdate,
     TypeOfGrammarReady DEF ClientStep
<1>5. CASE UNCHANGED vars
  BY <1>5 DEF TypeOK, vars, requestVars, cacheVars, stepVars, clientVars
<1>6. QED BY <1>1, <1>2, <1>3, <1>4, <1>5 DEF Next

--------------------------------------------------------------------------------
(* The status of the requests *)

\* A step that moves no request.
KeepsStatus ==
    /\ running' = running
    /\ \A s \in Requests : req'[s].status = req[s].status

\* A step after which r is neither running nor preempted.
Leaves(r) ==
    /\ \A s \in Requests \ {r} : req'[s].status = req[s].status
    /\ req'[r].status \notin {"RUNNING", "PREEMPTED"}
    /\ running' = IF req[r].status = "RUNNING" THEN Without(running, r) ELSE running

LEMMA PreemptedFields ==
    ASSUME NEW q \in RequestType
    PROVE  Preempted(q).status = "PREEMPTED"
BY DEF Preempted, RequestType

LEMMA AfterScheduleStatus ==
    ASSUME TypeOK, NEW r \in Requests
    PROVE  AfterSchedule(r).status = req[r].status
BY RequestFields DEF AfterSchedule, RequestType

LEMMA AnsweredStatus ==
    ASSUME TypeOK, NEW r \in Requests, NEW g, NEW k
    PROVE  Answered(r, g, k).status = req[r].status
BY RequestFields DEF Answered, WithOutput, Adjusted, RequestType

LEMMA AsSessionStatus ==
    ASSUME NEW q \in RequestType, NEW chunk
    PROVE  AsSession(q, chunk).status = "WAITING"
BY DEF AsSession, RequestType

LEMMA EndScheduleKeeps == TypeOK /\ EndSchedule => KeepsStatus
BY AfterScheduleStatus DEF EndSchedule, KeepsStatus

LEMMA UpdateContinueKeeps ==
    ASSUME TypeOK, NEW r \in Requests, UpdateContinue(r)
    PROVE  KeepsStatus
<1>1. PICK g \in Generated(r) : req' = [req EXCEPT ![r] = Answered(r, g, g)]
  BY DEF UpdateContinue
<1>2. QED BY <1>1, AnsweredStatus DEF UpdateContinue, KeepsStatus, TypeOK

LEMMA EndUpdateKeeps == TypeOK /\ EndUpdate => KeepsStatus
<1> SUFFICES ASSUME TypeOK, EndUpdate PROVE KeepsStatus
  OBVIOUS
<1>1. \A r \in Requests : req'[r].status = req[r].status
  BY HandedOver, RequestFields DEF RequestType
<1>2. QED BY <1>1 DEF EndUpdate, KeepsStatus

LEMMA UpdateFinishLeaves ==
    ASSUME TypeOK, UpdatesAnOutput, NEW r \in Requests, UpdateFinish(r)
    PROVE  Leaves(r)
<1>1. PICK g \in Generated(r) : \E k \in 1 .. g :
        req' = [req EXCEPT ![r] = [Answered(r, g, k) EXCEPT !.status = "FINISHED"]]
  BY DEF UpdateFinish
<1>2. PICK k \in 1 .. g :
        req' = [req EXCEPT ![r] = [Answered(r, g, k) EXCEPT !.status = "FINISHED"]]
  BY <1>1
<1>3. Answered(r, g, k) \in RequestType
  BY HeadType, AnsweredType DEF Generated, UpdatesAnOutput, UpdateFinish, Visit
<1>4. [Answered(r, g, k) EXCEPT !.status = "FINISHED"].status = "FINISHED"
  BY <1>3 DEF RequestType
<1>5. /\ req'[r].status = "FINISHED"
      /\ \A s \in Requests \ {r} : req'[s].status = req[s].status
  BY <1>2, <1>4 DEF TypeOK
<1>6. QED BY <1>5 DEF UpdateFinish, RemoveFromQueues, Leaves

LEMMA UpdateSessionLeaves ==
    ASSUME TypeOK, UpdatesAnOutput, NEW r \in Requests, UpdateSession(r)
    PROVE  Leaves(r)
<1>1. PICK g \in Generated(r) : \E k \in 1 .. g :
        LET q == Answered(r, g, k)
        IN  \/ req' = [req EXCEPT ![r] =
                        [AsSession(q, Head(q.queue)) EXCEPT !.queue = Tail(@)]]
            \/ req' = [req EXCEPT ![r] =
                        [q EXCEPT !.status = "WAITING_FOR_STREAMING_REQ"]]
  BY DEF UpdateSession
<1>2. PICK k \in 1 .. g :
        LET q == Answered(r, g, k)
        IN  \/ req' = [req EXCEPT ![r] =
                        [AsSession(q, Head(q.queue)) EXCEPT !.queue = Tail(@)]]
            \/ req' = [req EXCEPT ![r] =
                        [q EXCEPT !.status = "WAITING_FOR_STREAMING_REQ"]]
  BY <1>1
<1> DEFINE q == Answered(r, g, k)
           a == AsSession(q, Head(q.queue))
<1>3. q \in RequestType
  BY HeadType, AnsweredType DEF Generated, UpdatesAnOutput, UpdateSession, Visit
<1> HIDE DEF q
<1>4. [a EXCEPT !.queue = Tail(@)].status = "WAITING"
  BY <1>3 DEF AsSession, RequestType
<1>5. [q EXCEPT !.status = "WAITING_FOR_STREAMING_REQ"].status
         = "WAITING_FOR_STREAMING_REQ"
  BY <1>3 DEF RequestType
<1> HIDE DEF a
<1>6. /\ req'[r].status \in {"WAITING", "WAITING_FOR_STREAMING_REQ"}
      /\ \A s \in Requests \ {r} : req'[s].status = req[s].status
  <2>1. \/ req' = [req EXCEPT ![r] = [a EXCEPT !.queue = Tail(@)]]
        \/ req' = [req EXCEPT ![r] = [q EXCEPT !.status = "WAITING_FOR_STREAMING_REQ"]]
    BY <1>2 DEF q, a
  <2>2. QED BY <2>1, <1>4, <1>5 DEF TypeOK
<1>7. QED BY <1>6 DEF UpdateSession, RequeueSession, Leaves

LEMMA FinishedLeaves ==
    ASSUME TypeOK, NEW r \in Requests, Finished(r)
    PROVE  Leaves(r)
<1>1. /\ req'[r].status = "FINISHED"
      /\ \A s \in Requests \ {r} : req'[s].status = req[s].status
  BY RequestFields DEF Finished, TypeOK, RequestType
<1>2. QED BY <1>1 DEF Finished, RemoveFromQueues, Leaves

LEMMA StreamingUpdateMoves ==
    ASSUME TypeOK, NEW r \in Requests, StreamingUpdate(r)
    PROVE  KeepsStatus \/ Leaves(r)
<1>1. PICK update \in ChunkLens \cup {CloseSession} :
        \/ /\ req' = [req EXCEPT ![r].queue = Append(@, update)]
           /\ running' = running
        \/ /\ req[r].status = "WAITING_FOR_STREAMING_REQ"
           /\ req' = [req EXCEPT ![r] = AsSession(@, update)]
           /\ running' = running
        \/ Finished(r)
  BY DEF StreamingUpdate
<1>2. CASE /\ req' = [req EXCEPT ![r].queue = Append(@, update)]
           /\ running' = running
  <2>1. [req[r] EXCEPT !.queue = Append(@, update)].status = req[r].status
    BY RequestFields DEF RequestType
  <2>2. QED BY <1>2, <2>1 DEF TypeOK, KeepsStatus
<1>3. CASE /\ req[r].status = "WAITING_FOR_STREAMING_REQ"
           /\ req' = [req EXCEPT ![r] = AsSession(@, update)]
           /\ running' = running
  <2>1. AsSession(req[r], update).status = "WAITING"
    BY RequestFields, AsSessionStatus
  <2>2. QED BY <1>3, <2>1 DEF TypeOK, Leaves
<1>4. CASE Finished(r)
  BY <1>4, FinishedLeaves
<1>5. QED BY <1>1, <1>2, <1>3, <1>4

LEMMA AddRequestLeaves ==
    ASSUME TypeOK, NEW r \in Requests, AddRequest(r)
    PROVE  Leaves(r)
BY RequestFields DEF AddRequest, TypeOK, RequestType, Leaves

LEMMA WaitingGrammarLeaves ==
    ASSUME TypeOK, WaitingGrammar
    PROVE  \E r \in Requests : req[r].status = "WAITING_FOR_FSM" /\ Leaves(r)
<1>1. PICK i \in DOMAIN waiting :
        /\ req[waiting[i]].status = "WAITING_FOR_FSM"
        /\ req' = [req EXCEPT ![waiting[i]].status = "WAITING"]
  BY DEF WaitingGrammar
<1> DEFINE r == waiting[i]
<1>2. r \in Requests
  BY WaitingElements
<1>3. Leaves(r)
  BY <1>1, <1>2, RequestFields DEF WaitingGrammar, TypeOK, RequestType, Leaves
<1>4. QED BY <1>1, <1>2, <1>3

--------------------------------------------------------------------------------
(* The running list *)

LEMMA AgreementKept ==
    ASSUME RunningAgreement, KeepsStatus
    PROVE  RunningAgreement'
BY DEF RunningAgreement, KeepsStatus

LEMMA AgreementWhenOneLeaves ==
    ASSUME TypeOK, RunningAgreement, NEW r \in Requests, Leaves(r)
    PROVE  RunningAgreement'
<1>1. running \in Seq(Requests) /\ NoDuplicates(running)
  BY DEF TypeOK, RunningAgreement
<1>2. ToSet(running') = ToSet(running) \ {r} /\ NoDuplicates(running')
  <2>1. CASE req[r].status = "RUNNING"
    BY <1>1, <2>1, WithoutElements DEF Leaves
  <2>2. CASE req[r].status # "RUNNING"
    BY <1>1, <2>2 DEF Leaves, RunningAgreement
  <2>3. QED BY <2>1, <2>2
<1>3. QED BY <1>2 DEF RunningAgreement, Leaves

\* The list loses the one request that is preempted.
LEMMA AgreementWhenOneIsPreempted ==
    ASSUME TypeOK, RunningAgreement, NEW i \in DOMAIN running,
           running' = RemoveAt(running, i),
           req'[running[i]].status = "PREEMPTED",
           \A s \in Requests \ {running[i]} : req'[s].status = req[s].status
    PROVE  /\ RunningAgreement'
           /\ ToSet(running') = ToSet(running) \ {running[i]}
<1>1. running \in Seq(Requests) /\ NoDuplicates(running) /\ i \in 1 .. Len(running)
  BY DEF TypeOK, RunningAgreement
<1>2. ToSet(running') = ToSet(running) \ {running[i]} /\ NoDuplicates(running')
  BY <1>1, RemoveAtElements
<1>3. QED BY <1>2 DEF RunningAgreement

LEMMA RunningPreemptStatus ==
    ASSUME TypeOK, NEW i \in DOMAIN running,
           req' = [req EXCEPT ![running[i]] = Preempted(@)]
    PROVE  /\ req'[running[i]].status = "PREEMPTED"
           /\ \A s \in Requests \ {running[i]} : req'[s].status = req[s].status
BY RunningElements, RequestFields, PreemptedFields DEF TypeOK

LEMMA ResetPreemptStatus ==
    ASSUME TypeOK, ResetPreempt
    PROVE  LET v == running[Len(running)]
           IN  /\ Len(running) \in DOMAIN running
               /\ req'[v].status = "PREEMPTED"
               /\ \A s \in Requests \ {v} : req'[s].status = req[s].status
<1> DEFINE v == running[Len(running)]
           q == Preempted(req[v])
<1>1. Len(running) \in DOMAIN running /\ v \in Requests
  BY DEF ResetPreempt, TypeOK
<1>2. q \in RequestType /\ q.status = "PREEMPTED"
  BY <1>1, RequestFields, PreemptedType, PreemptedFields
<1>3. req' = [req EXCEPT ![v] = [q EXCEPT !.placeholders = 0]]
  BY <1>1 DEF ResetPreempt, TypeOK
<1> HIDE DEF q
<1>4. [q EXCEPT !.placeholders = 0].status = "PREEMPTED"
  BY <1>2 DEF RequestType
<1>5. QED BY <1>1, <1>3, <1>4 DEF TypeOK

LEMMA WaitingAdmitStatus ==
    ASSUME TypeOK, WaitingAdmit
    PROVE  \E r \in Requests :
              /\ req[r].status \in {"WAITING", "PREEMPTED"}
              /\ req'[r].status = "RUNNING"
              /\ \A s \in Requests \ {r} : req'[s].status = req[s].status
              /\ running' = Append(running, r)
              /\ sch'.new = IF req[r].status = "WAITING" THEN sch.new \cup {r} ELSE sch.new
              /\ sch'.resumed = IF req[r].status = "PREEMPTED" THEN sch.resumed \cup {r}
                                ELSE sch.resumed
              /\ \A s \in Requests \ {r} : sch'.num[s] = sch.num[s]
              /\ sch'.continued = sch.continued /\ sch'.preempted = sch.preempted
              /\ sch'.index = sch.index
<1>1. PICK i \in DOMAIN waiting : \E computed \in CachedTokens(waiting[i]) :
        LET r == waiting[i]
            n == Least(NumPrefillTokens(r, computed), sch.budget)
        IN  /\ req[r].status \in {"WAITING", "PREEMPTED"}
            /\ req' = [req EXCEPT ![r].status = "RUNNING", ![r].computed = computed]
            /\ sch' = [sch EXCEPT
                 !.new = IF req[r].status = "WAITING" THEN @ \cup {r} ELSE @,
                 !.resumed = IF req[r].status = "PREEMPTED" THEN @ \cup {r} ELSE @,
                 !.num[r] = n,
                 !.budget = @ - n]
            /\ running' = Append(running, r)
  BY DEF WaitingAdmit
<1> DEFINE r == waiting[i]
<1>2. r \in Requests
  BY WaitingElements
<1> HIDE DEF r
<1>3. PICK computed \in CachedTokens(r) :
        LET n == Least(NumPrefillTokens(r, computed), sch.budget)
        IN  /\ req[r].status \in {"WAITING", "PREEMPTED"}
            /\ req' = [req EXCEPT ![r].status = "RUNNING", ![r].computed = computed]
            /\ sch' = [sch EXCEPT
                 !.new = IF req[r].status = "WAITING" THEN @ \cup {r} ELSE @,
                 !.resumed = IF req[r].status = "PREEMPTED" THEN @ \cup {r} ELSE @,
                 !.num[r] = n,
                 !.budget = @ - n]
            /\ running' = Append(running, r)
  BY <1>1 DEF r
<1> DEFINE n == Least(NumPrefillTokens(r, computed), sch.budget)
<1> HIDE DEF n
<1>4. /\ req'[r].status = "RUNNING"
      /\ \A s \in Requests \ {r} : req'[s].status = req[s].status
  BY <1>2, <1>3, RequestFields DEF TypeOK, RequestType
<1>5. /\ sch'.new = IF req[r].status = "WAITING" THEN sch.new \cup {r} ELSE sch.new
      /\ sch'.resumed = IF req[r].status = "PREEMPTED" THEN sch.resumed \cup {r}
                        ELSE sch.resumed
      /\ sch'.continued = sch.continued /\ sch'.preempted = sch.preempted
      /\ sch'.index = sch.index
  BY <1>3, ScheduleFields DEF ScheduleType
<1>6. sch'.num = [sch.num EXCEPT ![r] = n]
  BY <1>3, ScheduleFields DEF ScheduleType, n
<1>7. \A s \in Requests \ {r} : sch'.num[s] = sch.num[s]
  BY <1>6, ScheduleFields
<1>8. QED BY <1>2, <1>3, <1>4, <1>5, <1>7

LEMMA AgreementWhenOneIsAdmitted ==
    ASSUME TypeOK, RunningAgreement, NEW r \in Requests,
           req[r].status # "RUNNING", req'[r].status = "RUNNING",
           \A s \in Requests \ {r} : req'[s].status = req[s].status,
           running' = Append(running, r)
    PROVE  RunningAgreement'
<1>1. running \in Seq(Requests) /\ NoDuplicates(running) /\ r \notin ToSet(running)
  BY DEF TypeOK, RunningAgreement
<1>2. ToSet(running') = ToSet(running) \cup {r} /\ NoDuplicates(running')
  BY <1>1, AppendElements
<1>3. QED BY <1>2 DEF RunningAgreement

LEMMA RunningScheduleKeeps == TypeOK /\ LoopIndex /\ RunningSchedule => KeepsStatus
<1> SUFFICES ASSUME TypeOK, LoopIndex, RunningSchedule PROVE KeepsStatus
  OBVIOUS
<1>1. sch.request \in Requests
  BY AllocatedType DEF RunningSchedule
<1>2. QED BY <1>1, RequestFields DEF RunningSchedule, TypeOK, RequestType, KeepsStatus

LEMMA AgreementStep == IInv /\ [Next]_vars => RunningAgreement'
<1> SUFFICES ASSUME IInv, [Next]_vars PROVE RunningAgreement'
  OBVIOUS
<1> USE DEF IInv
<1>1. CASE RunningSchedule
  BY <1>1, RunningScheduleKeeps, AgreementKept
<1>2. CASE RunningPreempt
  <2>1. PICK i \in DOMAIN running : /\ running' = RemoveAt(running, i)
                                   /\ req' = [req EXCEPT ![running[i]] = Preempted(@)]
    BY <1>2 DEF RunningPreempt
  <2>2. QED BY <2>1, RunningPreemptStatus, AgreementWhenOneIsPreempted
<1>3. CASE WaitingGrammar
  BY <1>3, WaitingGrammarLeaves, AgreementWhenOneLeaves
<1>4. CASE WaitingAdmit
  BY <1>4, WaitingAdmitStatus, AgreementWhenOneIsAdmitted
<1>5. CASE EndSchedule
  BY <1>5, EndScheduleKeeps, AgreementKept
<1>6. CASE \/ BeginSchedule \/ RunningSkip \/ RunningPick \/ RunningDone \/ WaitingSkip
           \/ LeaveWaitingLoop \/ BeginUpdate \/ BeginReset \/ EndReset
           \/ \E r \in Requests : UpdateSkip(r) \/ GrammarReady(r)
           \/ UNCHANGED vars
  <2>1. UNCHANGED <<req, running>>
    BY <1>6 DEF BeginSchedule, RunningSkip, RunningPick, RunningDone, WaitingSkip,
       LeaveWaitingLoop, BeginUpdate, BeginReset, EndReset, UpdateSkip, GrammarReady,
       vars, requestVars
  <2>2. QED BY <2>1 DEF RunningAgreement
<1>7. CASE EndUpdate
  BY <1>7, EndUpdateKeeps, AgreementKept
<1>8. CASE ResetPreempt
  <2>1. running' = RemoveAt(running, Len(running))
    BY <1>8 DEF ResetPreempt
  <2>2. QED BY <1>8, <2>1, ResetPreemptStatus, AgreementWhenOneIsPreempted
<1>9. ASSUME NEW r \in Requests, UpdateContinue(r) PROVE RunningAgreement'
  BY <1>9, UpdateContinueKeeps, AgreementKept
<1>10. ASSUME NEW r \in Requests,
              \/ UpdateFinish(r) \/ UpdateSession(r) \/ AddRequest(r)
              \/ FinishRequests(r) \/ StreamingUpdate(r)
       PROVE  RunningAgreement'
  <2>1. KeepsStatus \/ Leaves(r)
    BY <1>10, UpdateFinishLeaves, UpdateSessionLeaves, AddRequestLeaves, FinishedLeaves,
       StreamingUpdateMoves DEF FinishRequests
  <2>2. QED BY <2>1, AgreementKept, AgreementWhenOneLeaves
<1>11. WaitingBlocked \/ WaitingDone => LeaveWaitingLoop
  BY DEF WaitingBlocked, WaitingDone
<1>12. QED
  BY <1>1, <1>2, <1>3, <1>4, <1>5, <1>6, <1>7, <1>8, <1>9, <1>10, <1>11
  DEF Next, ScheduleStep, UpdateStep, ResetStep, ClientStep

--------------------------------------------------------------------------------
(* One call of schedule() *)

\* The conjuncts of IInv that concern the local variables of schedule().
ScheduleInv ==
    /\ ScheduledAreRunning
    /\ ResumedNotInPrevStep
    /\ LoopIndex
    /\ ScheduleStages
    /\ PreemptedSincePrevStep

\* NoSchedule lists no request.
LEMMA NoScheduleFields ==
    /\ NoSchedule.new = {} /\ NoSchedule.resumed = {} /\ NoSchedule.continued = {}
    /\ NoSchedule.preempted = {} /\ NoSchedule.index = 1
    /\ \A r \in Requests : NoSchedule.num[r] = 0
BY DEF NoSchedule

\* A step that leaves schedule() without a request listed only has to keep the
\* preempted requests out of the previous step.
LEMMA NothingScheduled ==
    ASSUME sch'.new = {}, sch'.resumed = {}, sch'.continued = {}, sch'.preempted = {},
           sch'.index = 1, \A r \in Requests : sch'.num[r] = 0,
           phase' # "allocate", phase' \in {"engine", "update", "reset"} => sch' = NoSchedule,
           PreemptedSincePrevStep'
    PROVE  ScheduleInv'
<1>1. ScheduledAreRunning' /\ ResumedNotInPrevStep'
  BY DEF ScheduledAreRunning, ResumedNotInPrevStep, Scheduled
<1>2. LoopIndex'
  BY FS_EmptySet DEF LoopIndex
<1>3. ScheduleStages'
  BY DEF ScheduleStages
<1>4. QED BY <1>1, <1>2, <1>3 DEF ScheduleInv

LEMMA ScheduleInvOfBeginSchedule == IInv /\ BeginSchedule => ScheduleInv'
<1> SUFFICES ASSUME IInv, BeginSchedule PROVE ScheduleInv'
  OBVIOUS
<1>1. /\ sch'.new = {} /\ sch'.resumed = {} /\ sch'.continued = {}
      /\ sch'.preempted = {} /\ sch'.index = 1
      /\ \A r \in Requests : sch'.num[r] = 0
  BY DEF BeginSchedule, NoSchedule
<1>2. PreemptedSincePrevStep'
  BY NoScheduleFields
  DEF IInv, BeginSchedule, PreemptedSincePrevStep, ScheduleStages, requestVars, stepVars
<1>3. QED BY <1>1, <1>2, NothingScheduled DEF BeginSchedule

LEMMA ScheduleInvOfRunningSkip == IInv /\ RunningSkip => ScheduleInv'
<1> SUFFICES ASSUME IInv, RunningSkip PROVE ScheduleInv'
  OBVIOUS
<1>1. /\ sch'.new = sch.new /\ sch'.resumed = sch.resumed
      /\ sch'.continued = sch.continued /\ sch'.preempted = sch.preempted
      /\ sch'.num = sch.num /\ sch'.index = sch.index + 1
  BY ScheduleFields DEF IInv, RunningSkip, ScheduleType
<1>2. UNCHANGED <<req, running, phase, prev_step_scheduled_req_ids>> /\ phase = "running"
  BY DEF RunningSkip, InRunningLoop, requestVars, stepVars
<1>3. LoopIndex'
  <2>1. IsFiniteSet(sch.continued) /\ Cardinality(sch.continued) \in Nat
        /\ Cardinality(sch.continued) < sch.index /\ sch.index \in Int
    BY FS_CardinalityType, ScheduleFields DEF IInv, LoopIndex
  <2>2. Policy = "fcfs" =>
          sch.continued \subseteq {running[j] : j \in {i \in DOMAIN running : i < sch.index}}
    BY <1>2 DEF IInv, LoopIndex
  <2>3. \A i \in DOMAIN running : i < sch.index => i < sch.index + 1
    BY <2>1 DEF IInv, TypeOK
  <2>4. QED BY <1>1, <1>2, <2>1, <2>2, <2>3 DEF LoopIndex
<1>4. QED
  BY <1>1, <1>2, <1>3 DEF IInv, ScheduleInv, ScheduledAreRunning, ResumedNotInPrevStep,
     ScheduleStages, PreemptedSincePrevStep, Scheduled

LEMMA ScheduleInvOfRunningPick == IInv /\ RunningPick => ScheduleInv'
<1> SUFFICES ASSUME IInv, RunningPick PROVE ScheduleInv'
  OBVIOUS
<1>1. /\ sch'.new = sch.new /\ sch'.resumed = sch.resumed
      /\ sch'.continued = sch.continued /\ sch'.preempted = sch.preempted
      /\ sch'.num = sch.num /\ sch'.index = sch.index
      /\ sch'.request = running[sch.index]
  BY ScheduleFields DEF IInv, RunningPick, ScheduleType
<1>2. UNCHANGED <<req, running, prev_step_scheduled_req_ids>>
      /\ phase = "running" /\ phase' = "allocate"
  BY DEF RunningPick, InRunningLoop, requestVars, stepVars
<1>3. LoopIndex'
  <2>1. sch.index \in DOMAIN running
    BY IndexInList DEF IInv, RunningPick
  <2>2. QED BY <1>1, <1>2, <2>1 DEF IInv, LoopIndex, ToSet
<1>4. QED
  BY <1>1, <1>2, <1>3 DEF IInv, ScheduleInv, ScheduledAreRunning, ResumedNotInPrevStep,
     ScheduleStages, PreemptedSincePrevStep, Scheduled

LEMMA ScheduleInvOfRunningSchedule == IInv /\ RunningSchedule => ScheduleInv'
<1> SUFFICES ASSUME IInv, RunningSchedule PROVE ScheduleInv'
  OBVIOUS
<1> DEFINE r == sch.request
<1>1. r \in Requests /\ r \in ToSet(running) /\ req[r].status = "RUNNING"
  BY AllocatedType DEF IInv, RunningSchedule, LoopIndex, RunningAgreement
<1>2. /\ sch'.new = sch.new /\ sch'.resumed = sch.resumed
      /\ sch'.continued = sch.continued \cup {r} /\ sch'.preempted = sch.preempted
      /\ sch'.num = [sch.num EXCEPT ![r] = sch.new_tokens]
      /\ sch'.index = sch.index + 1
  BY ScheduleFields DEF IInv, RunningSchedule, ScheduleType
<1>3. KeepsStatus
  BY RunningScheduleKeeps DEF IInv
<1>4. UNCHANGED prev_step_scheduled_req_ids /\ phase = "allocate" /\ phase' = "running"
  BY DEF RunningSchedule, stepVars
<1>5. ScheduledAreRunning'
  <2>1. r \notin sch.preempted
    BY <1>1 DEF IInv, ScheduleStages
  <2>2. \A s \in Requests : s # r => sch'.num[s] = sch.num[s]
    BY <1>1, <1>2, ScheduleFields DEF IInv
  <2>3. QED
    BY <1>1, <1>2, <1>3, <2>1, <2>2 DEF IInv, ScheduledAreRunning, Scheduled, KeepsStatus
<1>6. LoopIndex'
  <2>1. IsFiniteSet(sch.continued) /\ Cardinality(sch.continued) \in Nat
        /\ Cardinality(sch.continued) < sch.index /\ sch.index \in Int
    BY FS_CardinalityType, ScheduleFields DEF IInv, LoopIndex
  <2>2. IsFiniteSet(sch'.continued) /\ Cardinality(sch'.continued) < sch'.index
    <3> DEFINE c == sch.continued \cup {r}
    <3>1. IsFiniteSet(c) /\ (\/ Cardinality(c) = Cardinality(sch.continued)
                             \/ Cardinality(c) = Cardinality(sch.continued) + 1)
      BY <2>1, FS_AddElement, Zenon
    <3>2. sch'.continued = c /\ sch'.index = sch.index + 1
      BY <1>2
    <3> HIDE DEF c
    <3>3. QED BY <2>1, <3>1, <3>2
  <2>3. ASSUME Policy = "fcfs"
        PROVE  sch'.continued \subseteq
                  {running[j] : j \in {i \in DOMAIN running : i < sch.index + 1}}
    <3>1. sch.continued \subseteq {running[j] : j \in {i \in DOMAIN running : i < sch.index}}
          /\ sch.index \in DOMAIN running /\ r = running[sch.index]
      BY <1>4, <2>3 DEF IInv, LoopIndex
    <3>2. \A i \in DOMAIN running : i < sch.index => i < sch.index + 1
      BY <2>1 DEF IInv, TypeOK
    <3>3. sch.index < sch.index + 1
      BY <2>1
    <3>4. QED BY <1>2, <3>1, <3>2, <3>3
  <2>4. QED BY <1>2, <1>3, <1>4, <2>2, <2>3 DEF LoopIndex, KeepsStatus
<1>7. ResumedNotInPrevStep'
  BY <1>2, <1>4 DEF IInv, ResumedNotInPrevStep
<1>8. ScheduleStages'
  <2>1. sch.preempted \subseteq Requests
    BY ScheduleFields DEF IInv
  <2>2. QED BY <1>2, <1>3, <1>4, <2>1 DEF IInv, ScheduleStages, KeepsStatus
<1>9. PreemptedSincePrevStep'
  <2>1. prev_step_scheduled_req_ids \subseteq Requests
    BY DEF IInv, TypeOK
  <2>2. QED BY <1>2, <1>3, <1>4, <2>1 DEF IInv, PreemptedSincePrevStep, KeepsStatus
<1>10. QED BY <1>5, <1>6, <1>7, <1>8, <1>9 DEF ScheduleInv

LEMMA UnscheduleFields ==
    ASSUME TypeOK, NEW v \in Requests
    PROVE  LET u == Unschedule(v)
               out == Policy = "priority" /\ v \in sch.continued
           IN  /\ u \in ScheduleType
               /\ u.new = sch.new /\ u.resumed = sch.resumed
               /\ u.preempted = sch.preempted \cup {v}
               /\ u.request = sch.request
               /\ u.continued = IF out THEN sch.continued \ {v} ELSE sch.continued
               /\ u.index = IF out THEN sch.index - 1 ELSE sch.index
               /\ u.num = IF out THEN [sch.num EXCEPT ![v] = 0] ELSE sch.num
<1>1. Unschedule(v) \in ScheduleType
  BY UnscheduleType
<1> DEFINE out == Policy = "priority" /\ v \in sch.continued
           u == Unschedule(v)
<1>2. CASE out
  <2>1. u = [sch EXCEPT !.continued = @ \ {v}, !.budget = @ + sch.num[v],
                        !.num[v] = 0, !.spec[v] = 0, !.index = @ - 1,
                        !.preempted = @ \cup {v}]
    BY <1>2 DEF Unschedule
  <2>2. /\ u.new = sch.new /\ u.resumed = sch.resumed
        /\ u.preempted = sch.preempted \cup {v} /\ u.request = sch.request
        /\ u.continued = sch.continued \ {v} /\ u.index = sch.index - 1
        /\ u.num = [sch.num EXCEPT ![v] = 0]
    BY <2>1, ScheduleFields DEF ScheduleType
  <2>3. QED BY <1>1, <1>2, <2>2
<1>3. CASE ~out
  <2>1. u = [sch EXCEPT !.preempted = @ \cup {v}]
    BY <1>3 DEF Unschedule
  <2>2. /\ u.new = sch.new /\ u.resumed = sch.resumed
        /\ u.preempted = sch.preempted \cup {v} /\ u.request = sch.request
        /\ u.continued = sch.continued /\ u.index = sch.index /\ u.num = sch.num
    BY <2>1, ScheduleFields DEF ScheduleType
  <2>3. QED BY <1>1, <1>3, <2>2
<1>4. QED BY <1>2, <1>3

LEMMA ScheduleInvOfRunningPreempt == IInv /\ RunningPreempt => ScheduleInv'
<1> SUFFICES ASSUME IInv, RunningPreempt PROVE ScheduleInv'
  OBVIOUS
<1>1. PICK i \in DOMAIN running :
        LET v == running[i]
        IN  /\ IsVictim(i)
            /\ running' = RemoveAt(running, i)
            /\ req' = [req EXCEPT ![v] = Preempted(@)]
            /\ IF v = sch.request
               THEN /\ phase' = "close"
                    /\ sch' = [Unschedule(v) EXCEPT !.request = NoRequest,
                                                    !.new_tokens = 0]
               ELSE /\ phase' = phase
                    /\ sch' = Unschedule(v)
  BY DEF RunningPreempt
<1> DEFINE v == running[i]
           out == Policy = "priority" /\ v \in sch.continued
<1>2. phase = "allocate" /\ UNCHANGED prev_step_scheduled_req_ids
  BY DEF RunningPreempt, stepVars
<1>3. v \in Requests
  BY RunningElements DEF IInv
<1>4. /\ req'[v].status = "PREEMPTED"
      /\ \A s \in Requests \ {v} : req'[s].status = req[s].status
  BY <1>1, RunningPreemptStatus DEF IInv
<1>5. ToSet(running') = ToSet(running) \ {v}
  BY <1>1, <1>4, AgreementWhenOneIsPreempted DEF IInv
<1> HIDE DEF v
<1>6. /\ sch'.new = {} /\ sch'.resumed = {}
      /\ sch'.preempted = sch.preempted \cup {v}
      /\ sch'.continued = IF out THEN sch.continued \ {v} ELSE sch.continued
      /\ sch'.index = IF out THEN sch.index - 1 ELSE sch.index
      /\ sch'.num = IF out THEN [sch.num EXCEPT ![v] = 0] ELSE sch.num
      /\ v # sch.request => sch'.request = sch.request
  <2> DEFINE u == Unschedule(v)
  <2>1. /\ u \in ScheduleType
        /\ u.new = sch.new /\ u.resumed = sch.resumed
        /\ u.preempted = sch.preempted \cup {v}
        /\ u.request = sch.request
        /\ u.continued = IF out THEN sch.continued \ {v} ELSE sch.continued
        /\ u.index = IF out THEN sch.index - 1 ELSE sch.index
        /\ u.num = IF out THEN [sch.num EXCEPT ![v] = 0] ELSE sch.num
    BY <1>3, UnscheduleFields DEF IInv
  <2> HIDE DEF u
  <2>2. /\ sch'.new = u.new /\ sch'.resumed = u.resumed /\ sch'.preempted = u.preempted
        /\ sch'.continued = u.continued /\ sch'.index = u.index /\ sch'.num = u.num
        /\ v # sch.request => sch'.request = u.request
    BY <1>1, <2>1 DEF u, v, ScheduleType
  <2>3. sch.new = {} /\ sch.resumed = {}
    BY <1>2 DEF IInv, ScheduleStages
  <2>4. QED BY <2>1, <2>2, <2>3
<1>7. \/ phase' = "close"
      \/ phase' = "allocate" /\ v # sch.request
  BY <1>1, <1>2 DEF v
\* Under FCFS the victim is the last running request, behind the index.
<1>8. ASSUME Policy = "fcfs"
      PROVE  /\ i = Len(running) /\ v \notin sch.continued
             /\ sch.index \in DOMAIN running /\ sch.request = running[sch.index]
             /\ sch.continued \subseteq
                   {running[j] : j \in {k \in DOMAIN running : k < sch.index}}
  <2>1. /\ sch.continued \subseteq
              {running[j] : j \in {k \in DOMAIN running : k < sch.index}}
        /\ sch.index \in DOMAIN running /\ sch.request = running[sch.index]
    BY <1>2, <1>8 DEF IInv, LoopIndex
  <2>2. i = Len(running)
    BY <1>1, <1>8 DEF IsVictim
  <2>3. \A j \in DOMAIN running : j < sch.index => j # i
    BY <2>1, <2>2 DEF IInv, TypeOK
  <2>4. v \notin sch.continued
    BY <2>1, <2>3 DEF IInv, RunningAgreement, NoDuplicates, v
  <2>5. QED BY <2>1, <2>2, <2>4
<1>9. v \notin sch'.continued
  BY <1>6, <1>8, ConfigAssumption
<1>10. ScheduledAreRunning'
  <2>1. \A s \in Requests : s \notin sch'.continued => sch'.num[s] = 0
    <3>1. \A s \in Requests : s \notin sch.continued => sch.num[s] = 0
      BY <1>2 DEF IInv, ScheduledAreRunning, ScheduleStages, Scheduled
    <3>2. sch.num \in [Requests -> Int]
      BY ScheduleFields DEF IInv
    <3>3. QED BY <1>3, <1>6, <3>1, <3>2
  <2>2. \A s \in sch'.continued : req'[s].status = "RUNNING" /\ s \notin sch'.preempted
    <3>1. sch'.continued \subseteq sch.continued /\ sch.continued \subseteq Requests
      BY <1>6, ScheduleFields DEF IInv
    <3>2. \A s \in sch.continued : req[s].status = "RUNNING" /\ s \notin sch.preempted
      BY <3>1 DEF IInv, ScheduledAreRunning, Scheduled
    <3>3. QED BY <1>4, <1>6, <1>9, <3>1, <3>2
  <2>3. QED BY <1>6, <2>1, <2>2 DEF ScheduledAreRunning, Scheduled
<1>11. LoopIndex'
  <2>1. IsFiniteSet(sch'.continued) /\ Cardinality(sch'.continued) < sch'.index
    <3>1. IsFiniteSet(sch.continued) /\ Cardinality(sch.continued) \in Nat
          /\ Cardinality(sch.continued) < sch.index /\ sch.index \in Int
      BY FS_CardinalityType, ScheduleFields DEF IInv, LoopIndex
    <3>2. /\ IsFiniteSet(sch.continued \ {v})
          /\ v \in sch.continued =>
                Cardinality(sch.continued \ {v}) = Cardinality(sch.continued) - 1
      BY <3>1, FS_RemoveElement
    <3>3. CASE out
      BY <1>6, <3>1, <3>2, <3>3
    <3>4. CASE ~out
      BY <1>6, <3>1, <3>4
    <3>5. QED BY <3>3, <3>4
  <2>2. phase' = "allocate" => sch'.request \in ToSet(running')
    BY <1>2, <1>5, <1>6, <1>7 DEF IInv, LoopIndex
  <2>3. ASSUME Policy = "fcfs", phase' = "allocate"
        PROVE  /\ sch'.continued \subseteq
                     {running'[j] : j \in {k \in DOMAIN running' : k < sch'.index}}
               /\ sch'.index \in DOMAIN running' /\ sch'.request = running'[sch'.index]
    <3>1. running \in Seq(Requests) /\ i \in 1 .. Len(running)
      BY DEF IInv, TypeOK
    <3>2. /\ DOMAIN running' = 1 .. Len(running) - 1
          /\ \A j \in 1 .. Len(running) - 1 : running'[j] = running[j]
      <4>1. /\ running' \in Seq(Requests) /\ Len(running') = Len(running) - 1
            /\ \A j \in 1 .. Len(running) - 1 :
                  running'[j] = IF j < i THEN running[j] ELSE running[j + 1]
        BY <1>1, <3>1, RemoveAtIsSeq
      <4>2. i = Len(running)
        BY <1>8, <2>3
      <4>3. QED BY <3>1, <4>1, <4>2
    <3>3. sch'.index = sch.index /\ sch'.continued = sch.continued
          /\ sch'.request = sch.request /\ sch.request # v
      BY <1>6, <1>7, <2>3
    <3>4. sch.index \in 1 .. Len(running) - 1
      BY <1>8, <2>3, <3>1, <3>3 DEF v
    <3>5. \A k \in DOMAIN running : k < sch.index => k \in DOMAIN running'
      BY <3>1, <3>2, <3>4
    <3>6. \A k \in DOMAIN running : k < sch.index => running[k] = running'[k]
      BY <3>2, <3>5
    <3>7. QED BY <1>8, <2>3, <3>2, <3>3, <3>4, <3>5, <3>6
  <2>4. QED BY <1>7, <2>1, <2>2, <2>3 DEF LoopIndex
<1>12. ResumedNotInPrevStep'
  BY <1>6 DEF ResumedNotInPrevStep
<1>13. ScheduleStages'
  <2>1. sch.preempted \subseteq Requests
    BY ScheduleFields DEF IInv
  <2>2. QED BY <1>4, <1>6, <1>7, <2>1 DEF IInv, ScheduleStages
<1>14. PreemptedSincePrevStep'
  <2>1. prev_step_scheduled_req_ids \subseteq Requests
    BY DEF IInv, TypeOK
  <2>2. QED BY <1>2, <1>4, <1>6, <2>1 DEF IInv, PreemptedSincePrevStep
<1>15. QED BY <1>10, <1>11, <1>12, <1>13, <1>14 DEF ScheduleInv

LEMMA ScheduleInvOfRunningDone == IInv /\ RunningDone => ScheduleInv'
<1> SUFFICES ASSUME IInv, RunningDone PROVE ScheduleInv'
  OBVIOUS
<1>1. UNCHANGED <<req, running, sch, prev_step_scheduled_req_ids>>
  BY DEF RunningDone, requestVars, stepVars
<1>2. phase = "running" /\ phase' \in {"close", "waiting"}
      /\ (phase' = "waiting" => sch.preempted = {} /\ ~SplitPD)
  BY DEF RunningDone
<1>3. QED
  BY <1>1, <1>2 DEF IInv, ScheduleInv, ScheduledAreRunning, ResumedNotInPrevStep, LoopIndex,
     ScheduleStages, PreemptedSincePrevStep, Scheduled

LEMMA ScheduleInvOfWaitingGrammar == IInv /\ WaitingGrammar => ScheduleInv'
<1> SUFFICES ASSUME IInv, WaitingGrammar PROVE ScheduleInv'
  OBVIOUS
<1>1. PICK r \in Requests : req[r].status = "WAITING_FOR_FSM" /\ Leaves(r)
  BY WaitingGrammarLeaves DEF IInv
<1>2. UNCHANGED <<sch, phase, prev_step_scheduled_req_ids>> /\ phase = "waiting"
  BY DEF WaitingGrammar, InWaitingLoop, stepVars
<1>3. \A s \in Requests :
        /\ req[s].status = "RUNNING" <=> req'[s].status = "RUNNING"
        /\ req[s].status = "PREEMPTED" <=> req'[s].status = "PREEMPTED"
  BY <1>1 DEF Leaves
<1>4. prev_step_scheduled_req_ids \subseteq Requests /\ sch.preempted = {}
  BY <1>2 DEF IInv, TypeOK, ScheduleStages
<1>5. QED
  BY <1>2, <1>3, <1>4 DEF IInv, ScheduleInv, ScheduledAreRunning, ResumedNotInPrevStep,
     LoopIndex, ScheduleStages, PreemptedSincePrevStep, Scheduled

\* The fields of sch that ScheduleInv reads, but for the request allocated for.
SameSchedule ==
    /\ sch'.new = sch.new /\ sch'.resumed = sch.resumed
    /\ sch'.continued = sch.continued /\ sch'.preempted = sch.preempted
    /\ sch'.num = sch.num /\ sch'.index = sch.index

LEMMA ScheduleInvInWaitingLoop ==
    ASSUME IInv, SameSchedule, phase = "waiting",
           \/ phase' \in {"waiting", "close"}
           \/ phase' = "running" /\ sch.new = {} /\ sch.resumed = {},
           UNCHANGED <<req, prev_step_scheduled_req_ids>>,
           Policy = "fcfs" /\ phase' = "running" => sch.continued = {}
    PROVE  ScheduleInv'
BY DEF IInv, SameSchedule, ScheduleInv, ScheduledAreRunning, ResumedNotInPrevStep,
   LoopIndex, ScheduleStages, PreemptedSincePrevStep, Scheduled

LEMMA ScheduleInvOfWaitingSkip == IInv /\ WaitingSkip => ScheduleInv'
<1> SUFFICES ASSUME IInv, WaitingSkip PROVE ScheduleInv'
  OBVIOUS
<1>1. SameSchedule
  BY ScheduleFields DEF IInv, WaitingSkip, ScheduleType, SameSchedule
<1>2. QED
  BY <1>1, ScheduleInvInWaitingLoop DEF WaitingSkip, InWaitingLoop, stepVars

LEMMA ScheduleInvOfWaitingAdmit == IInv /\ WaitingAdmit => ScheduleInv'
<1> SUFFICES ASSUME IInv, WaitingAdmit PROVE ScheduleInv'
  OBVIOUS
<1>1. PICK r \in Requests :
        /\ req[r].status \in {"WAITING", "PREEMPTED"}
        /\ req'[r].status = "RUNNING"
        /\ \A s \in Requests \ {r} : req'[s].status = req[s].status
        /\ running' = Append(running, r)
        /\ sch'.new = IF req[r].status = "WAITING" THEN sch.new \cup {r} ELSE sch.new
        /\ sch'.resumed = IF req[r].status = "PREEMPTED" THEN sch.resumed \cup {r}
                          ELSE sch.resumed
        /\ \A s \in Requests \ {r} : sch'.num[s] = sch.num[s]
        /\ sch'.continued = sch.continued /\ sch'.preempted = sch.preempted
        /\ sch'.index = sch.index
  BY WaitingAdmitStatus DEF IInv
<1>2. UNCHANGED <<phase, prev_step_scheduled_req_ids>> /\ phase = "waiting"
  BY DEF WaitingAdmit, InWaitingLoop, stepVars
<1>3. sch.preempted = {}
  BY <1>2 DEF IInv, ScheduleStages
<1>4. ScheduledAreRunning'
  <2>1. Scheduled' = Scheduled \cup {r}
    BY <1>1 DEF Scheduled
  <2>2. QED BY <1>1, <1>3, <2>1 DEF IInv, ScheduledAreRunning
\* A request of the previous step that is preempted now keeps the loop from
\* being entered.
<1>5. ResumedNotInPrevStep'
  <2>1. req[r].status = "PREEMPTED" => r \notin prev_step_scheduled_req_ids
    BY <1>2, <1>3 DEF IInv, PreemptedSincePrevStep
  <2>2. QED BY <1>1, <1>2, <2>1 DEF IInv, ResumedNotInPrevStep
<1>6. LoopIndex'
  BY <1>1, <1>2 DEF IInv, LoopIndex
<1>7. ScheduleStages'
  BY <1>1, <1>2, <1>3 DEF IInv, ScheduleStages
<1>8. PreemptedSincePrevStep'
  <2>1. prev_step_scheduled_req_ids \subseteq Requests
    BY DEF IInv, TypeOK
  <2>2. QED BY <1>1, <1>2, <2>1 DEF IInv, PreemptedSincePrevStep
<1>9. QED BY <1>4, <1>5, <1>6, <1>7, <1>8 DEF ScheduleInv

LEMMA ScheduleInvOfLeaveWaitingLoop ==
    IInv /\ phase = "waiting" /\ LeaveWaitingLoop => ScheduleInv'
<1> SUFFICES ASSUME IInv, phase = "waiting", LeaveWaitingLoop PROVE ScheduleInv'
  OBVIOUS
<1>1. SameSchedule
  BY ScheduleFields DEF IInv, LeaveWaitingLoop, ScheduleType, SameSchedule
<1>2. /\ UNCHANGED <<req, prev_step_scheduled_req_ids>>
      /\ \/ phase' = "close"
         \/ phase' = "running" /\ SplitPD /\ sch.new = {} /\ sch.resumed = {}
  BY DEF LeaveWaitingLoop, stepVars
<1>3. SplitPD => sch.continued = {}
  BY DEF IInv, ScheduleStages
<1>4. QED BY <1>1, <1>2, <1>3, ScheduleInvInWaitingLoop

\* Outside schedule() no request is preempted that the previous step scheduled,
\* unless by a reset; the step under way must not preempt one either.
LEMMA OutsideSchedule ==
    ASSUME IInv, phase \in {"engine", "update", "reset"}, sch' = sch,
           phase' \in {"engine", "update", "reset"},
           \/ phase' = "reset"
           \/ prev_step_scheduled_req_ids' = {}
           \/ /\ prev_step_scheduled_req_ids' = prev_step_scheduled_req_ids
              /\ phase # "reset"
              /\ \A r \in Requests : req'[r].status = "PREEMPTED" => req[r].status = "PREEMPTED"
    PROVE  ScheduleInv'
<1>1. sch = NoSchedule
  BY DEF IInv, ScheduleStages
<1>2. PreemptedSincePrevStep'
  BY <1>1, NoScheduleFields DEF IInv, TypeOK, PreemptedSincePrevStep
<1>3. QED BY <1>1, <1>2, NoScheduleFields, NothingScheduled

LEMMA ScheduleInvOfEndSchedule == IInv /\ EndSchedule => ScheduleInv'
<1> SUFFICES ASSUME IInv, EndSchedule PROVE ScheduleInv'
  OBVIOUS
<1>1. sch' = NoSchedule /\ phase' = "engine" /\ KeepsStatus
  BY EndScheduleKeeps DEF IInv, EndSchedule
<1>2. \A r \in prev_step_scheduled_req_ids' : r \in Requests /\ req[r].status = "RUNNING"
  BY DEF IInv, EndSchedule, ScheduledAreRunning
<1>3. PreemptedSincePrevStep'
  BY <1>1, <1>2 DEF PreemptedSincePrevStep, KeepsStatus
<1>4. QED BY <1>1, <1>3, NoScheduleFields, NothingScheduled

LEMMA ScheduleInvUnchanged ==
    ASSUME IInv, UNCHANGED <<req, running, phase, sch, prev_step_scheduled_req_ids>>
    PROVE  ScheduleInv'
BY DEF IInv, ScheduleInv, ScheduledAreRunning, ResumedNotInPrevStep, LoopIndex,
   ScheduleStages, PreemptedSincePrevStep, Scheduled

LEMMA ScheduleInvOfScheduleStep == IInv /\ ScheduleStep => ScheduleInv'
<1> SUFFICES ASSUME IInv, ScheduleStep PROVE ScheduleInv'
  OBVIOUS
<1>1. WaitingBlocked \/ WaitingDone => phase = "waiting" /\ LeaveWaitingLoop
  BY DEF WaitingBlocked, WaitingDone, InWaitingLoop
<1>2. QED
  BY <1>1, ScheduleInvOfBeginSchedule, ScheduleInvOfRunningSkip, ScheduleInvOfRunningPick,
     ScheduleInvOfRunningSchedule, ScheduleInvOfRunningPreempt, ScheduleInvOfRunningDone,
     ScheduleInvOfWaitingGrammar, ScheduleInvOfWaitingSkip, ScheduleInvOfWaitingAdmit,
     ScheduleInvOfLeaveWaitingLoop, ScheduleInvOfEndSchedule DEF ScheduleStep

LEMMA ScheduleInvStep == IInv /\ [Next]_vars => ScheduleInv'
<1> SUFFICES ASSUME IInv, [Next]_vars PROVE ScheduleInv'
  OBVIOUS
<1>1. CASE ScheduleStep
  BY <1>1, ScheduleInvOfScheduleStep
<1>2. CASE BeginUpdate \/ EndUpdate
  <2>1. \A r \in Requests : req'[r].status = req[r].status
    BY <1>2, EndUpdateKeeps DEF IInv, BeginUpdate, KeepsStatus, requestVars
  <2>2. QED
    BY <1>2, <2>1, OutsideSchedule DEF BeginUpdate, EndUpdate, stepVars
<1>3. CASE BeginReset \/ ResetPreempt \/ EndReset
  BY <1>3, OutsideSchedule DEF BeginReset, BetweenSteps, ResetPreempt, EndReset
<1>4. ASSUME NEW r \in Requests,
             UpdateSkip(r) \/ UpdateContinue(r) \/ UpdateFinish(r) \/ UpdateSession(r)
      PROVE  ScheduleInv'
  <2>1. \A s \in Requests : req'[s].status = "PREEMPTED" => req[s].status = "PREEMPTED"
    BY <1>4, UpdateContinueKeeps, UpdateFinishLeaves, UpdateSessionLeaves
    DEF IInv, UpdateSkip, KeepsStatus, Leaves, requestVars
  <2>2. /\ phase = "update" /\ phase' = phase /\ sch' = sch
        /\ prev_step_scheduled_req_ids' = prev_step_scheduled_req_ids
    BY <1>4 DEF UpdateSkip, UpdateContinue, UpdateFinish, UpdateSession, Visit, stepVars
  <2>3. QED BY <2>1, <2>2, OutsideSchedule
<1>5. ASSUME NEW r \in Requests, AddRequest(r) \/ FinishRequests(r) \/ StreamingUpdate(r)
      PROVE  ScheduleInv'
  <2>1. \A s \in Requests : req'[s].status = "PREEMPTED" => req[s].status = "PREEMPTED"
    BY <1>5, AddRequestLeaves, FinishedLeaves, StreamingUpdateMoves
    DEF IInv, FinishRequests, KeepsStatus, Leaves
  <2>2. /\ phase = "engine" /\ phase' = phase /\ sch' = sch
        /\ prev_step_scheduled_req_ids' = prev_step_scheduled_req_ids
    BY <1>5 DEF AddRequest, FinishRequests, StreamingUpdate, BetweenSteps, stepVars
  <2>3. QED BY <2>1, <2>2, OutsideSchedule
<1>6. ASSUME NEW r \in Requests, GrammarReady(r) PROVE ScheduleInv'
  BY <1>6, ScheduleInvUnchanged DEF GrammarReady, requestVars, stepVars
<1>7. CASE UNCHANGED vars
  BY <1>7, ScheduleInvUnchanged DEF vars, requestVars, stepVars
<1>8. QED
  BY <1>1, <1>2, <1>3, <1>4, <1>5, <1>6, <1>7 DEF Next, UpdateStep, ResetStep, ClientStep

LEMMA UpdatesAnOutputStep == IInv /\ [Next]_vars => UpdatesAnOutput'
<1> SUFFICES ASSUME IInv, [Next]_vars, phase' = "update" PROVE batch_queue' # <<>>
  BY DEF UpdatesAnOutput
<1>1. CASE BeginUpdate
  BY <1>1 DEF BeginUpdate, stepVars
<1>2. ASSUME phase = "update", batch_queue' = batch_queue PROVE batch_queue' # <<>>
  BY <1>2 DEF IInv, UpdatesAnOutput
<1>3. CASE ScheduleStep
  BY <1>3 DEF ScheduleStep, BeginSchedule, RunningSkip, RunningPick, RunningSchedule,
     RunningPreempt, RunningDone, WaitingGrammar, WaitingSkip, WaitingAdmit,
     WaitingBlocked, WaitingDone, LeaveWaitingLoop, EndSchedule, InRunningLoop,
     InWaitingLoop
<1>4. CASE EndUpdate \/ ResetStep
  BY <1>4 DEF EndUpdate, ResetStep, BeginReset, ResetPreempt, EndReset
<1>5. ASSUME NEW r \in Requests,
             \/ UpdateSkip(r) \/ UpdateContinue(r) \/ UpdateFinish(r) \/ UpdateSession(r)
             \/ AddRequest(r) \/ FinishRequests(r) \/ StreamingUpdate(r) \/ GrammarReady(r)
      PROVE  batch_queue' # <<>>
  <2>1. phase = "update" /\ batch_queue' = batch_queue
    BY <1>5 DEF UpdateSkip, UpdateContinue, UpdateFinish, UpdateSession, AddRequest,
       FinishRequests, StreamingUpdate, GrammarReady, BetweenSteps, stepVars
  <2>2. QED BY <1>2, <2>1
<1>6. CASE UNCHANGED vars
  BY <1>2, <1>6 DEF vars, stepVars
<1>7. QED
  BY <1>1, <1>3, <1>4, <1>5, <1>6 DEF Next, UpdateStep, ClientStep

--------------------------------------------------------------------------------
(* The theorems *)

LEMMA InitIInv == Init => IInv
<1> SUFFICES ASSUME Init PROVE IInv
  OBVIOUS
<1>1. \A r \in Requests : NewRequest(r) \in RequestType /\ NewRequest(r).status = "NONE"
  <2> TAKE r \in Requests
  <2>1. PromptLen[r] \in Int
    BY ConstantTypes
  <2>2. <<>> \in Seq(ChunkLens \cup {CloseSession})
    OBVIOUS
  <2>3. QED BY <2>1, <2>2 DEF NewRequest, RequestType, Statuses
<1>2. TypeOK
  BY <1>1, ConstantTypes, NoScheduleType DEF Init, TypeOK, Phases
<1>3. RunningAgreement
  BY <1>1 DEF Init, RunningAgreement, ToSet, NoDuplicates
<1>4. ScheduledAreRunning /\ ResumedNotInPrevStep
  BY NoScheduleFields DEF Init, ScheduledAreRunning, ResumedNotInPrevStep, Scheduled
<1>5. LoopIndex
  BY NoScheduleFields, FS_EmptySet DEF Init, LoopIndex
<1>6. ScheduleStages /\ PreemptedSincePrevStep /\ UpdatesAnOutput
  BY NoScheduleFields DEF Init, ScheduleStages, PreemptedSincePrevStep, UpdatesAnOutput
<1>7. QED BY <1>2, <1>3, <1>4, <1>5, <1>6 DEF IInv

LEMMA StepIInv == IInv /\ [Next]_vars => IInv'
BY TypeStep, AgreementStep, ScheduleInvStep, UpdatesAnOutputStep DEF IInv, ScheduleInv

\* The invariant that the handlers of the scheduler, one loop iteration at a time,
\* preserve between them.
THEOREM InductiveInvariant == Spec => []IInv
<1>1. Init => IInv
  BY InitIInv
<1>2. IInv /\ [Next]_vars => IInv'
  BY StepIInv
<1>3. QED BY <1>1, <1>2, PTL DEF Spec

\* Every variable keeps its type; in particular the cache never hands out a block
\* it does not have, whatever the sizes of the cache, the blocks and the requests.
THEOREM TypeCorrectness == Spec => []TypeOK
<1>1. IInv => TypeOK
  BY DEF IInv
<1>2. QED BY <1>1, InductiveInvariant, PTL

\* The running list holds exactly the requests whose status is RUNNING, each once,
\* through every order of preemption, stop, abort, reset and re-queueing, for both
\* policies, both schedules, and any number of steps in flight.
THEOREM RunningListAgrees == Spec => []RunningAgreement
<1>1. IInv => RunningAgreement
  BY DEF IInv
<1>2. QED BY <1>1, InductiveInvariant, PTL

\* The output of schedule() gives tokens to exactly the requests it lists, all of
\* them running and none preempted by the same call, although an eviction may hit
\* a request the call has already scheduled.
THEOREM OutputListsRunningRequests == Spec => []ScheduledAreRunning
<1>1. IInv => ScheduledAreRunning
  BY DEF IInv
<1>2. QED BY <1>1, InductiveInvariant, PTL

\* A resumed request was not in the previous step: the assertion of
\* _make_cached_request_data never fails.
THEOREM ResumedWasNotScheduled == Spec => []ResumedNotInPrevStep
<1>1. IInv => ResumedNotInPrevStep
  BY DEF IInv
<1>2. QED BY <1>1, InductiveInvariant, PTL

\* The index of the running loop stays within the list however many scheduled
\* requests are evicted behind it.
THEOREM IndexStaysInList == Spec => []LoopIndex
<1>1. IInv => LoopIndex
  BY DEF IInv
<1>2. QED BY <1>1, InductiveInvariant, PTL

--------------------------------------------------------------------------------
(* What an action makes of a request *)

LEMMA PreemptedEffect ==
    ASSUME NEW q \in RequestType
    PROVE  LET p == Preempted(q)
           IN  /\ p.status = "PREEMPTED" /\ p.computed = 0 /\ p.spec = 0
               /\ p.prompt = q.prompt /\ p.tokens = q.tokens /\ p.outputs = q.outputs
               /\ p.placeholders = q.placeholders /\ p.queue = q.queue
BY DEF Preempted, RequestType

LEMMA AdjustedEffect ==
    ASSUME NEW q \in RequestType, NEW x \in Int
    PROVE  LET a == Adjusted(q, x)
           IN  /\ a \in RequestType
               /\ a.status = q.status /\ a.prompt = q.prompt /\ a.queue = q.queue
               /\ a.tokens = q.tokens /\ a.outputs = q.outputs /\ a.spec = q.spec
               /\ a.computed = IF q.computed > 0 THEN q.computed - x ELSE q.computed
               /\ a.placeholders = IF q.placeholders > 0 THEN q.placeholders - x
                                   ELSE q.placeholders
<1> DEFINE c == IF q.computed > 0 THEN q.computed - x ELSE q.computed
           p == IF q.placeholders > 0 THEN q.placeholders - x ELSE q.placeholders
<1>1. c \in Int /\ p \in Int
  BY DEF RequestType
<1>2. Adjusted(q, x) = [q EXCEPT !.computed = c, !.placeholders = p]
  BY DEF Adjusted, RequestType
<1> HIDE DEF c, p
<1> DEFINE a == [q EXCEPT !.computed = c, !.placeholders = p]
<1>3. /\ a \in RequestType
      /\ a.status = q.status /\ a.prompt = q.prompt /\ a.queue = q.queue
      /\ a.tokens = q.tokens /\ a.outputs = q.outputs /\ a.spec = q.spec
      /\ a.computed = c /\ a.placeholders = p
  BY <1>1 DEF RequestType
<1> HIDE DEF a
<1>4. Adjusted(q, x) = a
  BY <1>2 DEF a
<1>5. QED BY <1>3, <1>4 DEF c, p

LEMMA WithOutputEffect ==
    ASSUME NEW q \in RequestType, NEW k \in Int
    PROVE  LET w == WithOutput(q, k)
           IN  /\ w \in RequestType
               /\ w.status = q.status /\ w.prompt = q.prompt /\ w.queue = q.queue
               /\ w.tokens = q.tokens + k /\ w.outputs = q.outputs + k
               /\ w.spec = q.spec /\ w.computed = q.computed
               /\ w.placeholders = IF Async THEN q.placeholders - k ELSE q.placeholders
<1> DEFINE p == IF Async THEN q.placeholders - k ELSE q.placeholders
           w == [q EXCEPT !.tokens = q.tokens + k, !.outputs = q.outputs + k,
                          !.placeholders = p]
<1>1. p \in Int /\ q.tokens + k \in Int /\ q.outputs + k \in Int
  BY DEF RequestType
<1> HIDE DEF p
<1>2. /\ w \in RequestType
      /\ w.status = q.status /\ w.prompt = q.prompt /\ w.queue = q.queue
      /\ w.tokens = q.tokens + k /\ w.outputs = q.outputs + k
      /\ w.spec = q.spec /\ w.computed = q.computed /\ w.placeholders = p
  BY <1>1 DEF RequestType
<1>3. WithOutput(q, k) = w
  BY DEF WithOutput, RequestType, p
<1> HIDE DEF w
<1>4. QED BY <1>2, <1>3 DEF p

\* The model's answer appends k tokens and takes the rejected drafts off.
LEMMA AnsweredEffect ==
    ASSUME TypeOK, NEW r \in Requests, Head(batch_queue).spec[r] \in Nat,
           NEW g \in Int, NEW k \in Int
    PROVE  LET a == Answered(r, g, k)
               x == RejectedDrafts(r, g)
               p == IF req[r].placeholders > 0 THEN req[r].placeholders - x
                    ELSE req[r].placeholders
           IN  /\ a \in RequestType
               /\ a.status = req[r].status /\ a.prompt = req[r].prompt
               /\ a.queue = req[r].queue /\ a.spec = req[r].spec
               /\ a.tokens = req[r].tokens + k /\ a.outputs = req[r].outputs + k
               /\ a.computed = IF req[r].computed > 0 THEN req[r].computed - x
                               ELSE req[r].computed
               /\ a.placeholders = IF Async THEN p - k ELSE p
<1> DEFINE x == RejectedDrafts(r, g)
           d == Adjusted(req[r], x)
<1>1. x \in Int /\ req[r] \in RequestType
  BY RequestFields DEF RejectedDrafts
<1> HIDE DEF x
<1>2. /\ d \in RequestType
      /\ d.status = req[r].status /\ d.prompt = req[r].prompt /\ d.queue = req[r].queue
      /\ d.tokens = req[r].tokens /\ d.outputs = req[r].outputs /\ d.spec = req[r].spec
      /\ d.computed = IF req[r].computed > 0 THEN req[r].computed - x ELSE req[r].computed
      /\ d.placeholders = IF req[r].placeholders > 0 THEN req[r].placeholders - x
                          ELSE req[r].placeholders
  BY <1>1, AdjustedEffect, Zenon
<1> HIDE DEF d
<1>3. Answered(r, g, k) = WithOutput(d, k)
  BY DEF Answered, d, x
<1> DEFINE w == WithOutput(d, k)
<1>4. /\ w \in RequestType
      /\ w.status = d.status /\ w.prompt = d.prompt /\ w.queue = d.queue
      /\ w.tokens = d.tokens + k /\ w.outputs = d.outputs + k
      /\ w.spec = d.spec /\ w.computed = d.computed
      /\ w.placeholders = IF Async THEN d.placeholders - k ELSE d.placeholders
  BY <1>2, WithOutputEffect, Zenon
<1> HIDE DEF w
<1>5. QED BY <1>2, <1>3, <1>4 DEF w, x

\* The end of schedule() advances what is computed and plans placeholders.
LEMMA AfterScheduleEffect ==
    ASSUME TypeOK, NEW r \in Requests
    PROVE  LET a == AfterSchedule(r)
           IN  /\ a.status = req[r].status /\ a.prompt = req[r].prompt
               /\ a.queue = req[r].queue
               /\ a.tokens = req[r].tokens /\ a.outputs = req[r].outputs
               /\ a.computed = req[r].computed + sch.num[r]
               /\ a.placeholders = IF Async /\ Samples(r)
                                   THEN req[r].placeholders + 1 + sch.spec[r]
                                   ELSE req[r].placeholders
               /\ a.spec = IF Async /\ Samples(r) THEN NumSpecTokens ELSE req[r].spec
<1>1. CASE Async /\ Samples(r)
  BY <1>1, RequestFields DEF AfterSchedule, RequestType
<1>2. CASE ~(Async /\ Samples(r))
  BY <1>2, RequestFields DEF AfterSchedule, RequestType
<1>3. QED BY <1>1, <1>2

\* The next chunk of a session replaces what was not computed.
LEMMA AsSessionEffect ==
    ASSUME NEW q \in RequestType, NEW chunk \in Nat
    PROVE  LET s == AsSession(q, chunk)
               kept == Least(q.tokens, q.computed)
           IN  /\ s \in RequestType
               /\ s.status = "WAITING" /\ s.outputs = 0 /\ s.tokens = kept + chunk
               /\ s.prompt = q.prompt + Most(0, kept - q.prompt) + chunk
               /\ s.computed = q.computed /\ s.spec = q.spec /\ s.queue = q.queue
               /\ s.placeholders = q.placeholders
<1>1. AsSession(q, chunk) \in RequestType
  BY AsSessionType
<1>2. QED BY <1>1 DEF AsSession, RequestType

--------------------------------------------------------------------------------
(* Actions that do not concern the clients *)

\* The step leaves alone what the client of s sees, and what the end of its answer
\* depends on.
KeepsAnswer(s) ==
    /\ req'[s].prompt = req[s].prompt /\ req'[s].tokens = req[s].tokens
    /\ req'[s].outputs = req[s].outputs /\ req'[s].queue = req[s].queue
    /\ ClientState(s)' = ClientState(s)
    /\ req'[s].status = "WAITING_FOR_STREAMING_REQ" =>
           req[s].status = "WAITING_FOR_STREAMING_REQ"

\* One live request changes its status, and stays live.
LEMMA StatusMoves ==
    ASSUME TypeOK, NEW r \in Requests, NEW q, req' = [req EXCEPT ![r] = q],
           q.prompt = req[r].prompt, q.tokens = req[r].tokens,
           q.outputs = req[r].outputs, q.queue = req[r].queue,
           \/ q.status = req[r].status
           \/ /\ Live(r) /\ q.status \notin {"NONE", "FINISHED"}
              /\ q.status # "WAITING_FOR_STREAMING_REQ"
    PROVE  \A s \in Requests : KeepsAnswer(s)
<1>1. req'[r] = q /\ \A s \in Requests \ {r} : req'[s] = req[s]
  BY DEF TypeOK
<1>2. ASSUME NEW s \in Requests \ {r} PROVE KeepsAnswer(s)
  BY <1>1, <1>2 DEF KeepsAnswer, ClientState
<1>3. KeepsAnswer(r)
  BY <1>1 DEF KeepsAnswer, ClientState, Live
<1>4. QED BY <1>2, <1>3

LEMMA RunningScheduleQuiet ==
    ASSUME TypeOK, LoopIndex, RunningSchedule
    PROVE  \A s \in Requests : KeepsAnswer(s)
<1> DEFINE r == sch.request
           q == [req[r] EXCEPT !.spec = 0]
<1>1. r \in Requests
  BY AllocatedType DEF RunningSchedule
<1>2. /\ q.prompt = req[r].prompt /\ q.tokens = req[r].tokens
      /\ q.outputs = req[r].outputs /\ q.queue = req[r].queue
      /\ q.status = req[r].status
  BY <1>1, RequestFields DEF RequestType
<1>3. req' = [req EXCEPT ![r] = q]
  BY DEF RunningSchedule
<1> HIDE DEF r, q
<1>4. QED BY <1>1, <1>2, <1>3, StatusMoves

LEMMA RunningPreemptQuiet ==
    ASSUME TypeOK, RunningAgreement, RunningPreempt
    PROVE  \A s \in Requests : KeepsAnswer(s)
<1>1. PICK i \in DOMAIN running : req' = [req EXCEPT ![running[i]] = Preempted(@)]
  BY DEF RunningPreempt
<1> DEFINE v == running[i]
           p == Preempted(req[v])
<1>2. v \in Requests /\ req[v] \in RequestType /\ req[v].status = "RUNNING"
  BY RunningElements, RequestFields DEF RunningAgreement, ToSet
<1>3. /\ p.status = "PREEMPTED"
      /\ p.prompt = req[v].prompt /\ p.tokens = req[v].tokens
      /\ p.outputs = req[v].outputs /\ p.queue = req[v].queue
  BY <1>2, PreemptedEffect, Zenon
<1>4. req' = [req EXCEPT ![v] = p]
  BY <1>1
<1> HIDE DEF v, p
<1>5. Live(v)
  BY <1>2 DEF Live
<1>6. QED BY <1>2, <1>3, <1>4, <1>5, StatusMoves

LEMMA ResetPreemptQuiet ==
    ASSUME TypeOK, RunningAgreement, ResetPreempt
    PROVE  \A s \in Requests : KeepsAnswer(s)
<1> DEFINE v == running[Len(running)]
           p == Preempted(req[v])
           q == [p EXCEPT !.placeholders = 0]
<1>1. Len(running) \in DOMAIN running
  BY DEF ResetPreempt, TypeOK
<1>2. v \in Requests /\ req[v] \in RequestType /\ req[v].status = "RUNNING"
  BY <1>1, RunningElements, RequestFields DEF RunningAgreement, ToSet
<1>3. /\ p \in RequestType /\ p.status = "PREEMPTED"
      /\ p.prompt = req[v].prompt /\ p.tokens = req[v].tokens
      /\ p.outputs = req[v].outputs /\ p.queue = req[v].queue
  BY <1>2, PreemptedEffect, PreemptedType, Zenon
<1>4. req' = [req EXCEPT ![v] = q]
  BY <1>2 DEF ResetPreempt, TypeOK
<1> HIDE DEF v, p
<1>5. /\ q.status = p.status /\ q.prompt = p.prompt /\ q.tokens = p.tokens
      /\ q.outputs = p.outputs /\ q.queue = p.queue
  BY <1>3 DEF RequestType
<1> HIDE DEF q
<1>6. Live(v)
  BY <1>2 DEF Live
<1>7. QED BY <1>2, <1>3, <1>4, <1>5, <1>6, StatusMoves

LEMMA WaitingGrammarQuiet ==
    ASSUME TypeOK, WaitingGrammar
    PROVE  \A s \in Requests : KeepsAnswer(s)
<1>1. PICK i \in DOMAIN waiting :
        /\ req[waiting[i]].status = "WAITING_FOR_FSM"
        /\ req' = [req EXCEPT ![waiting[i]].status = "WAITING"]
  BY DEF WaitingGrammar
<1> DEFINE r == waiting[i]
           q == [req[r] EXCEPT !.status = "WAITING"]
<1>2. r \in Requests
  BY WaitingElements
<1>3. /\ q.prompt = req[r].prompt /\ q.tokens = req[r].tokens
      /\ q.outputs = req[r].outputs /\ q.queue = req[r].queue
      /\ q.status = "WAITING" /\ Live(r)
  BY <1>1, <1>2, RequestFields DEF RequestType, Live
<1>4. req' = [req EXCEPT ![r] = q]
  BY <1>1
<1> HIDE DEF r, q
<1>5. QED BY <1>2, <1>3, <1>4, StatusMoves

LEMMA WaitingAdmitQuiet ==
    ASSUME TypeOK, WaitingAdmit
    PROVE  \A s \in Requests : KeepsAnswer(s)
<1>1. PICK i \in DOMAIN waiting : \E computed \in CachedTokens(waiting[i]) :
        /\ req[waiting[i]].status \in {"WAITING", "PREEMPTED"}
        /\ req' = [req EXCEPT ![waiting[i]].status = "RUNNING",
                               ![waiting[i]].computed = computed]
  BY DEF WaitingAdmit
<1> DEFINE r == waiting[i]
<1>2. r \in Requests
  BY WaitingElements
<1>3. PICK computed \in CachedTokens(r) :
        req' = [req EXCEPT ![r].status = "RUNNING", ![r].computed = computed]
  BY <1>1
<1> DEFINE q == [req[r] EXCEPT !.status = "RUNNING", !.computed = computed]
<1>4. /\ q.prompt = req[r].prompt /\ q.tokens = req[r].tokens
      /\ q.outputs = req[r].outputs /\ q.queue = req[r].queue
      /\ q.status = "RUNNING" /\ Live(r)
  BY <1>1, <1>2, RequestFields DEF RequestType, Live
<1>5. req' = [req EXCEPT ![r] = q]
  BY <1>2, <1>3, RequestFields DEF TypeOK, RequestType
<1> HIDE DEF r, q
<1>6. QED BY <1>2, <1>4, <1>5, StatusMoves

LEMMA EndScheduleQuiet ==
    ASSUME TypeOK, EndSchedule
    PROVE  \A s \in Requests : KeepsAnswer(s)
<1> TAKE s \in Requests
<1>1. req'[s] = AfterSchedule(s)
  BY DEF EndSchedule
<1> DEFINE a == AfterSchedule(s)
<1>2. /\ a.status = req[s].status /\ a.prompt = req[s].prompt /\ a.queue = req[s].queue
      /\ a.tokens = req[s].tokens /\ a.outputs = req[s].outputs
  BY AfterScheduleEffect
<1> HIDE DEF a
<1>3. QED BY <1>1, <1>2 DEF KeepsAnswer, ClientState, a

LEMMA EndUpdateQuiet ==
    ASSUME TypeOK, EndUpdate
    PROVE  \A s \in Requests : KeepsAnswer(s)
<1> TAKE s \in Requests
<1> DEFINE q == req'[s]
<1>1. /\ q.status = req[s].status /\ q.prompt = req[s].prompt /\ q.queue = req[s].queue
      /\ q.tokens = req[s].tokens /\ q.outputs = req[s].outputs
  BY HandedOver, RequestFields DEF RequestType
<1>2. QED BY <1>1 DEF KeepsAnswer, ClientState

\* The engine thread's work that no client notices.
Quiet ==
    \/ ScheduleStep \/ ResetStep \/ BeginUpdate \/ EndUpdate
    \/ \E r \in Requests : UpdateSkip(r) \/ GrammarReady(r)
    \/ UNCHANGED vars

LEMMA QuietKeepsAnswers ==
    ASSUME IInv, Quiet
    PROVE  \A s \in Requests : KeepsAnswer(s)
<1> USE DEF IInv
<1>1. CASE \/ BeginSchedule \/ RunningSkip \/ RunningPick \/ RunningDone \/ WaitingSkip
           \/ WaitingBlocked \/ WaitingDone \/ BeginUpdate \/ BeginReset \/ EndReset
           \/ \E r \in Requests : UpdateSkip(r) \/ GrammarReady(r)
           \/ UNCHANGED vars
  <2>1. req' = req
    BY <1>1 DEF BeginSchedule, RunningSkip, RunningPick, RunningDone, WaitingSkip,
       WaitingBlocked, WaitingDone, LeaveWaitingLoop, BeginUpdate, BeginReset, EndReset,
       UpdateSkip, GrammarReady, vars, requestVars
  <2>2. QED BY <2>1 DEF KeepsAnswer, ClientState
<1>2. QED
  BY <1>1, RunningScheduleQuiet, RunningPreemptQuiet, WaitingGrammarQuiet,
     WaitingAdmitQuiet, EndScheduleQuiet, EndUpdateQuiet, ResetPreemptQuiet
  DEF Quiet, ScheduleStep, ResetStep

--------------------------------------------------------------------------------
(* What the steps of schedule() do to a request and to its local variables *)

Others(r) == \A s \in Requests \ {r} : req'[s] = req[s]

\* q is p with another status, other computed tokens and drafts.
SameTokens(q, p) ==
    /\ q.prompt = p.prompt /\ q.tokens = p.tokens /\ q.outputs = p.outputs
    /\ q.queue = p.queue

\* RunningSchedule gives the request it allocates for its tokens and blocks.
LEMMA RunningScheduleEffect ==
    ASSUME IInv, RunningSchedule
    PROVE  LET r == sch.request
               n == sch.new_tokens
           IN  /\ r \in Requests /\ req[r].status = "RUNNING" /\ n \in Int
               /\ Others(r) /\ SameTokens(req'[r], req[r])
               /\ req'[r].status = "RUNNING" /\ req'[r].computed = req[r].computed
               /\ req'[r].spec = 0 /\ req'[r].placeholders = req[r].placeholders
               /\ MissingForRunning \in Nat /\ MissingForRunning <= free_blocks
               /\ TakeBlocks(r, MissingForRunning)
               /\ sch'.num = [sch.num EXCEPT ![r] = n]
               /\ sch'.spec = [sch.spec EXCEPT ![r] = ScheduledDrafts(r, n)]
               /\ sch'.budget = sch.budget - n
               /\ sch'.continued = sch.continued \cup {r}
               /\ sch'.new = sch.new /\ sch'.resumed = sch.resumed
               /\ sch'.skipped = sch.skipped /\ sch'.new_tokens = 0
<1> DEFINE r == sch.request
<1>1. TypeOK /\ LoopIndex /\ RunningAgreement
  BY DEF IInv
<1>2. r \in Requests /\ sch.new_tokens \in Int /\ phase = "allocate"
  BY <1>1, AllocatedType, ScheduleFields DEF RunningSchedule
<1>3. req[r].status = "RUNNING"
  BY <1>1, <1>2 DEF LoopIndex, RunningAgreement
<1>4. MissingForRunning \in Nat
  BY <1>1, <1>2, MissingType, RequestFields, ConstantTypes DEF MissingForRunning
<1>5. req' = [req EXCEPT ![r] = [req[r] EXCEPT !.spec = 0]]
  BY DEF RunningSchedule
<1>6. Others(r)
  BY <1>1, <1>5 DEF TypeOK, Others
<1>7. /\ SameTokens(req'[r], req[r])
      /\ req'[r].status = "RUNNING" /\ req'[r].computed = req[r].computed
      /\ req'[r].spec = 0 /\ req'[r].placeholders = req[r].placeholders
  <2>1. req'[r] = [req[r] EXCEPT !.spec = 0]
    BY <1>1, <1>2, <1>5 DEF TypeOK
  <2>2. QED BY <1>1, <1>2, <1>3, <2>1, RequestFields DEF RequestType, SameTokens
<1>8. /\ sch'.num = [sch.num EXCEPT ![r] = sch.new_tokens]
      /\ sch'.spec = [sch.spec EXCEPT ![r] = ScheduledDrafts(r, sch.new_tokens)]
      /\ sch'.budget = sch.budget - sch.new_tokens
      /\ sch'.continued = sch.continued \cup {r}
      /\ sch'.new = sch.new /\ sch'.resumed = sch.resumed
      /\ sch'.skipped = sch.skipped /\ sch'.new_tokens = 0
  BY <1>1, ScheduleFields DEF RunningSchedule, ScheduleType
<1>9. QED
  BY <1>2, <1>3, <1>4, <1>6, <1>7, <1>8 DEF RunningSchedule

\* RunningPreempt takes a request out of the running list and out of the step.
LEMMA RunningPreemptEffect ==
    ASSUME IInv, RunningPreempt
    PROVE  \E v \in Requests :
             LET out == Policy = "priority" /\ v \in sch.continued
             IN  /\ req[v].status = "RUNNING"
                 /\ Others(v) /\ SameTokens(req'[v], req[v])
                 /\ req'[v].status = "PREEMPTED" /\ req'[v].computed = 0
                 /\ req'[v].spec = 0 /\ req'[v].placeholders = req[v].placeholders
                 /\ waiting' = Prepended(v) /\ FreeBlocks(v)
                 /\ sch.num[v] # 0 => out
                 /\ sch'.num = [sch.num EXCEPT ![v] = 0]
                 /\ sch'.spec = IF out THEN [sch.spec EXCEPT ![v] = 0] ELSE sch.spec
                 /\ sch'.budget = sch.budget + sch.num[v]
                 /\ sch'.new = sch.new /\ sch'.resumed = sch.resumed
                 /\ sch'.continued = sch.continued \ {v}
                 /\ sch'.skipped = sch.skipped
                 /\ phase' \in {"allocate", "close"}
                 /\ phase' = "allocate" =>
                       /\ v # sch.request
                       /\ sch'.request = sch.request /\ sch'.new_tokens = sch.new_tokens
<1> USE DEF IInv
<1>1. PICK i \in DOMAIN running :
        LET v == running[i]
        IN  /\ IsVictim(i)
            /\ running' = RemoveAt(running, i)
            /\ waiting' = Prepended(v)
            /\ req' = [req EXCEPT ![v] = Preempted(@)]
            /\ FreeBlocks(v)
            /\ IF v = sch.request
               THEN /\ phase' = "close"
                    /\ sch' = [Unschedule(v) EXCEPT !.request = NoRequest,
                                                    !.new_tokens = 0]
               ELSE /\ phase' = phase
                    /\ sch' = Unschedule(v)
  BY DEF RunningPreempt
<1> DEFINE v == running[i]
           out == Policy = "priority" /\ v \in sch.continued
           u == Unschedule(v)
           p == Preempted(req[v])
<1>2. phase = "allocate"
  BY DEF RunningPreempt
<1>3. v \in Requests /\ req[v] \in RequestType /\ req[v].status = "RUNNING"
  BY RunningElements, RequestFields DEF RunningAgreement, ToSet
<1>4. /\ p.status = "PREEMPTED" /\ p.computed = 0 /\ p.spec = 0
      /\ SameTokens(p, req[v]) /\ p.placeholders = req[v].placeholders
  BY <1>3, PreemptedEffect DEF SameTokens
<1>5. req'[v] = p /\ Others(v)
  BY <1>1, <1>3 DEF TypeOK, Others
<1>6. v \in sch.continued => out
  <2>1. SUFFICES ASSUME Policy = "fcfs", v \in sch.continued PROVE FALSE
    BY ConfigAssumption
  <2>2. PICK j \in DOMAIN running : j < sch.index /\ running[j] = v
    BY <1>2, <2>1 DEF LoopIndex
  <2>3. sch.index \in DOMAIN running /\ i = Len(running)
    BY <1>1, <1>2, <2>1 DEF LoopIndex, IsVictim
  <2>4. i = j
    BY <2>2 DEF RunningAgreement, NoDuplicates
  <2>5. DOMAIN running = 1 .. Len(running) /\ Len(running) \in Nat
    BY DEF TypeOK
  <2>6. QED BY <2>2, <2>3, <2>4, <2>5
<1>7. v \notin sch.continued => sch.num[v] = 0
  BY <1>2, <1>3 DEF ScheduledAreRunning, Scheduled, ScheduleStages
<1>8. /\ u.num = [sch.num EXCEPT ![v] = 0]
      /\ u.spec = IF out THEN [sch.spec EXCEPT ![v] = 0] ELSE sch.spec
      /\ u.budget = sch.budget + sch.num[v]
      /\ u.new = sch.new /\ u.resumed = sch.resumed
      /\ u.continued = sch.continued \ {v}
      /\ u.skipped = sch.skipped /\ u.request = sch.request
      /\ u.new_tokens = sch.new_tokens /\ u \in ScheduleType
  <2>1. CASE out
    <3>1. u = [sch EXCEPT !.continued = @ \ {v}, !.budget = @ + sch.num[v],
                          !.num[v] = 0, !.spec[v] = 0, !.index = @ - 1,
                          !.preempted = @ \cup {v}]
      BY <2>1 DEF Unschedule
    <3>2. QED BY <1>3, <2>1, <3>1, UnscheduleType, ScheduleFields DEF ScheduleType
  <2>2. CASE ~out
    <3>1. u = [sch EXCEPT !.preempted = @ \cup {v}]
      BY <2>2 DEF Unschedule
    <3>2. sch.num[v] = 0 /\ v \notin sch.continued
      BY <1>6, <1>7, <2>2
    <3>3. sch.num = [sch.num EXCEPT ![v] = 0] /\ sch.budget = sch.budget + sch.num[v]
      <4>1. sch.num \in [Requests -> Int] /\ sch.budget \in Int
        BY ScheduleFields
      <4>2. QED BY <1>3, <3>2, <4>1
    <3>4. /\ u.num = sch.num /\ u.spec = sch.spec /\ u.budget = sch.budget
          /\ u.new = sch.new /\ u.resumed = sch.resumed /\ u.continued = sch.continued
          /\ u.skipped = sch.skipped /\ u.request = sch.request
          /\ u.new_tokens = sch.new_tokens /\ u \in ScheduleType
      BY <1>3, <3>1, UnscheduleType, ScheduleFields DEF ScheduleType
    <3>5. QED BY <2>2, <3>2, <3>3, <3>4
  <2>3. QED BY <2>1, <2>2
<1> HIDE DEF u
<1>9. /\ sch'.num = u.num /\ sch'.spec = u.spec /\ sch'.budget = u.budget
      /\ sch'.new = u.new /\ sch'.resumed = u.resumed /\ sch'.continued = u.continued
      /\ sch'.skipped = u.skipped
      /\ phase' \in {"allocate", "close"}
      /\ phase' = "allocate" => /\ v # sch.request
                                /\ sch'.request = u.request
                                /\ sch'.new_tokens = u.new_tokens
  <2>1. CASE v = sch.request
    <3>1. sch' = [u EXCEPT !.request = NoRequest, !.new_tokens = 0] /\ phase' = "close"
      BY <1>1, <2>1 DEF u
    <3>2. QED BY <1>8, <3>1 DEF ScheduleType
  <2>2. CASE v # sch.request
    BY <1>1, <1>2, <2>2 DEF u
  <2>3. QED BY <2>1, <2>2
<1>10. sch.num[v] # 0 => out
  BY <1>6, <1>7
<1> HIDE DEF p
<1>11. /\ SameTokens(req'[v], req[v])
       /\ req'[v].status = "PREEMPTED" /\ req'[v].computed = 0
       /\ req'[v].spec = 0 /\ req'[v].placeholders = req[v].placeholders
  BY <1>4, <1>5
<1>12. waiting' = Prepended(v) /\ FreeBlocks(v)
  BY <1>1
<1> HIDE DEF v
<1>13. QED BY <1>3, <1>5, <1>8, <1>9, <1>10, <1>11, <1>12

\* WaitingAdmit moves one request from the waiting queue to the running list.
LEMMA WaitingAdmitEffect ==
    ASSUME IInv, WaitingAdmit
    PROVE  \E i \in DOMAIN waiting :
             LET r == waiting[i]
             IN  \E computed \in CachedTokens(r) :
                   LET n == Least(NumPrefillTokens(r, computed), sch.budget)
                       m == MissingForWaiting(r, computed)
                   IN  /\ r \in Requests /\ computed \in Int /\ n \in Int /\ m \in Nat
                       /\ IsHead(i) /\ req[r].status \in {"WAITING", "PREEMPTED"}
                       /\ Others(r) /\ SameTokens(req'[r], req[r])
                       /\ req'[r].status = "RUNNING" /\ req'[r].computed = computed
                       /\ req'[r].spec = req[r].spec
                       /\ req'[r].placeholders = req[r].placeholders
                       /\ m <= free_blocks /\ TakeBlocks(r, m)
                       /\ sch'.num = [sch.num EXCEPT ![r] = n]
                       /\ sch'.spec = sch.spec /\ sch'.budget = sch.budget - n
                       /\ sch'.continued = sch.continued
                       /\ sch'.new \cup sch'.resumed = sch.new \cup sch.resumed \cup {r}
                       /\ sch'.skipped = sch.skipped /\ sch'.new_tokens = sch.new_tokens
                       /\ waiting' = RemoveAt(waiting, i) /\ running' = Append(running, r)
<1> USE DEF IInv
<1>1. PICK i \in DOMAIN waiting : \E computed \in CachedTokens(waiting[i]) :
        LET r == waiting[i]
            n == Least(NumPrefillTokens(r, computed), sch.budget)
        IN  /\ IsHead(i)
            /\ req[r].status \in {"WAITING", "PREEMPTED"}
            /\ Admissible(r, computed)
            /\ TakeBlocks(r, MissingForWaiting(r, computed))
            /\ req' = [req EXCEPT ![r].status = "RUNNING", ![r].computed = computed]
            /\ sch' = [sch EXCEPT
                 !.new = IF req[r].status = "WAITING" THEN @ \cup {r} ELSE @,
                 !.resumed = IF req[r].status = "PREEMPTED" THEN @ \cup {r} ELSE @,
                 !.num[r] = n,
                 !.budget = @ - n]
            /\ waiting' = RemoveAt(waiting, i)
            /\ running' = Append(running, r)
  BY DEF WaitingAdmit
<1> DEFINE r == waiting[i]
<1>2. r \in Requests
  BY WaitingElements
<1>3. PICK computed \in CachedTokens(r) :
        LET n == Least(NumPrefillTokens(r, computed), sch.budget)
        IN  /\ IsHead(i)
            /\ req[r].status \in {"WAITING", "PREEMPTED"}
            /\ Admissible(r, computed)
            /\ TakeBlocks(r, MissingForWaiting(r, computed))
            /\ req' = [req EXCEPT ![r].status = "RUNNING", ![r].computed = computed]
            /\ sch' = [sch EXCEPT
                 !.new = IF req[r].status = "WAITING" THEN @ \cup {r} ELSE @,
                 !.resumed = IF req[r].status = "PREEMPTED" THEN @ \cup {r} ELSE @,
                 !.num[r] = n,
                 !.budget = @ - n]
            /\ waiting' = RemoveAt(waiting, i)
            /\ running' = Append(running, r)
  BY <1>1
<1> HIDE DEF r
<1> DEFINE n == Least(NumPrefillTokens(r, computed), sch.budget)
           m == MissingForWaiting(r, computed)
<1>4. computed \in Int /\ n \in Int /\ m \in Nat
  <2>1. computed \in Int /\ NumPrefillTokens(r, computed) \in Int /\ sch.budget \in Int
    BY <1>2, CachedTokensType, NumPrefillTokensType, ScheduleFields
  <2>2. n \in Int
    BY <2>1 DEF Least
  <2> HIDE DEF n
  <2>3. (IF req[r].computed = 0 THEN 0 ELSE NumLookahead) \in Int
    BY ConstantTypes
  <2>4. MissingForWaiting(r, computed)
          = Missing(r, computed, n, IF req[r].computed = 0 THEN 0 ELSE NumLookahead)
    BY DEF MissingForWaiting, n
  <2>5. QED BY <1>2, <2>1, <2>2, <2>3, <2>4, MissingType
<1>5. m <= free_blocks
  BY <1>3 DEF Admissible
<1>6. Others(r)
  BY <1>3 DEF TypeOK, Others
<1>7. /\ SameTokens(req'[r], req[r]) /\ req'[r].status = "RUNNING"
      /\ req'[r].computed = computed /\ req'[r].spec = req[r].spec
      /\ req'[r].placeholders = req[r].placeholders
  <2>1. req'[r] = [req[r] EXCEPT !.status = "RUNNING", !.computed = computed]
    BY <1>2, <1>3, RequestFields DEF TypeOK, RequestType
  <2>2. QED BY <1>2, <2>1, RequestFields DEF RequestType, SameTokens
<1> HIDE DEF n, m
<1>8. /\ sch'.num = [sch.num EXCEPT ![r] = n]
      /\ sch'.spec = sch.spec /\ sch'.budget = sch.budget - n
      /\ sch'.continued = sch.continued
      /\ sch'.new \cup sch'.resumed = sch.new \cup sch.resumed \cup {r}
      /\ sch'.skipped = sch.skipped /\ sch'.new_tokens = sch.new_tokens
  <2>1. sch' = [sch EXCEPT
                 !.new = IF req[r].status = "WAITING" THEN @ \cup {r} ELSE @,
                 !.resumed = IF req[r].status = "PREEMPTED" THEN @ \cup {r} ELSE @,
                 !.num[r] = n,
                 !.budget = @ - n]
    BY <1>3 DEF n
  <2>2. CASE req[r].status = "WAITING"
    BY <2>1, <2>2, ScheduleFields DEF ScheduleType
  <2>3. CASE req[r].status = "PREEMPTED"
    BY <2>1, <2>3, ScheduleFields DEF ScheduleType
  <2>4. QED BY <1>3, <2>2, <2>3
<1>9. TakeBlocks(r, m)
  BY <1>3 DEF m
<1>10. QED BY <1>2, <1>3, <1>4, <1>5, <1>6, <1>7, <1>8, <1>9 DEF n, m, r

\* ResetPreempt preempts the last running request and forgets its placeholders.
LEMMA ResetPreemptEffect ==
    ASSUME IInv, ResetPreempt
    PROVE  \E v \in Requests :
             /\ req[v].status = "RUNNING"
             /\ Others(v) /\ SameTokens(req'[v], req[v])
             /\ req'[v].status = "PREEMPTED" /\ req'[v].computed = 0
             /\ req'[v].spec = 0 /\ req'[v].placeholders = 0
             /\ waiting' = Prepended(v) /\ FreeBlocks(v)
<1> USE DEF IInv
<1> DEFINE v == running[Len(running)]
           p == Preempted(req[v])
           q == [p EXCEPT !.placeholders = 0]
<1>1. Len(running) \in DOMAIN running
  BY DEF ResetPreempt, TypeOK
<1>2. v \in Requests /\ req[v] \in RequestType /\ req[v].status = "RUNNING"
  BY <1>1, RunningElements, RequestFields DEF RunningAgreement, ToSet
<1>3. /\ p \in RequestType /\ p.status = "PREEMPTED" /\ p.computed = 0 /\ p.spec = 0
      /\ SameTokens(p, req[v])
  BY <1>2, PreemptedEffect, PreemptedType DEF SameTokens
<1>4. req' = [req EXCEPT ![v] = q] /\ waiting' = Prepended(v) /\ FreeBlocks(v)
  BY <1>2 DEF ResetPreempt, TypeOK
<1>5. req'[v] = q /\ Others(v)
  BY <1>2, <1>4 DEF TypeOK, Others
<1> HIDE DEF v, p
<1>6. /\ q.status = "PREEMPTED" /\ q.computed = 0 /\ q.spec = 0 /\ q.placeholders = 0
      /\ SameTokens(q, req[v])
  BY <1>3 DEF RequestType, SameTokens
<1> HIDE DEF q
<1>7. QED BY <1>2, <1>4, <1>5, <1>6

--------------------------------------------------------------------------------
(* What the model's answer does *)

\* The head of the batch queue is being answered.
LEMMA AnswerInProgress ==
    ASSUME IInv, NEW r \in Requests, Visit(r)
    PROVE  /\ batch_queue # <<>> /\ Head(batch_queue) = batch_queue[1]
           /\ 1 \in DOMAIN batch_queue /\ Head(batch_queue).spec[r] \in Nat
BY HeadType DEF IInv, TypeOK, Visit, UpdatesAnOutput

\* What is left until a limit, at least one token.
LEMMA UntilLimitType ==
    ASSUME TypeOK, NEW r \in Requests
    PROVE  UntilLimit(r) \in Nat \ {0}
BY RequestFields, ConstantTypes DEF UntilLimit, Most, Least

LEMMA UpdateContinueEffect ==
    ASSUME IInv, NEW r \in Requests, UpdateContinue(r)
    PROVE  \E g \in 1 .. 1 + Head(batch_queue).spec[r] :
             /\ g < UntilLimit(r)
             /\ req'[r] = Answered(r, g, g) /\ Others(r)
<1>1. PICK g \in Generated(r) :
        g < UntilLimit(r) /\ req' = [req EXCEPT ![r] = Answered(r, g, g)]
  BY DEF UpdateContinue
<1>2. req'[r] = Answered(r, g, g) /\ Others(r)
  BY <1>1 DEF IInv, TypeOK, Others
<1>3. QED BY <1>1, <1>2 DEF Generated

LEMMA UpdateFinishEffect ==
    ASSUME IInv, NEW r \in Requests, UpdateFinish(r)
    PROVE  \E g \in 1 .. 1 + Head(batch_queue).spec[r] : \E k \in 1 .. g :
             LET a == Answered(r, g, k)
             IN  /\ StopsAt(r, k)
                 /\ SameTokens(req'[r], a) /\ req'[r].status = "FINISHED"
                 /\ req'[r].spec = a.spec /\ req'[r].computed = a.computed
                 /\ req'[r].placeholders = a.placeholders
                 /\ Others(r)
<1>1. PICK g \in Generated(r) : \E k \in 1 .. g :
        /\ StopsAt(r, k)
        /\ req' = [req EXCEPT ![r] = [Answered(r, g, k) EXCEPT !.status = "FINISHED"]]
  BY DEF UpdateFinish
<1>2. PICK k \in 1 .. g :
        /\ StopsAt(r, k)
        /\ req' = [req EXCEPT ![r] = [Answered(r, g, k) EXCEPT !.status = "FINISHED"]]
  BY <1>1
<1> DEFINE a == Answered(r, g, k)
           q == [a EXCEPT !.status = "FINISHED"]
<1>3. a \in RequestType
  BY AnswerInProgress, AnsweredType DEF Generated, IInv, UpdateFinish
<1>4. req'[r] = q /\ Others(r)
  BY <1>2 DEF IInv, TypeOK, Others
<1> HIDE DEF a
<1>5. /\ SameTokens(q, a) /\ q.status = "FINISHED" /\ q.spec = a.spec
      /\ q.computed = a.computed /\ q.placeholders = a.placeholders
  BY <1>3 DEF RequestType, SameTokens
<1> HIDE DEF q
<1>6. QED BY <1>1, <1>2, <1>4, <1>5 DEF Generated, a

\* A session that stops takes its next chunk, or waits for one.
LEMMA UpdateSessionEffect ==
    ASSUME IInv, NEW r \in Requests, UpdateSession(r)
    PROVE  \E g \in 1 .. 1 + Head(batch_queue).spec[r] : \E k \in 1 .. g :
             LET a == Answered(r, g, k)
             IN  /\ StopsAt(r, k) /\ Others(r)
                 /\ req'[r].spec = a.spec /\ req'[r].computed = a.computed
                 /\ req'[r].placeholders = a.placeholders
                 /\ IF HasInput(r)
                    THEN \E chunk \in Nat :
                           LET s == AsSession(a, chunk)
                           IN  /\ req'[r].status = "WAITING" /\ req'[r].outputs = 0
                               /\ req'[r].prompt = s.prompt /\ req'[r].tokens = s.tokens
                               /\ num_waiting_for_streaming_input'
                                      = num_waiting_for_streaming_input
                    ELSE /\ SameTokens(req'[r], a)
                         /\ req'[r].status = "WAITING_FOR_STREAMING_REQ"
                         /\ num_waiting_for_streaming_input'
                                = num_waiting_for_streaming_input + 1
<1> USE DEF IInv
<1>1. PICK g \in Generated(r) : \E k \in 1 .. g :
        LET q == Answered(r, g, k)
        IN  /\ StopsAt(r, k)
            /\ IF HasInput(r)
               THEN /\ req' = [req EXCEPT ![r] =
                                 [AsSession(q, Head(q.queue)) EXCEPT !.queue = Tail(@)]]
                    /\ UNCHANGED num_waiting_for_streaming_input
               ELSE /\ req' = [req EXCEPT ![r] =
                                 [q EXCEPT !.status = "WAITING_FOR_STREAMING_REQ"]]
                    /\ num_waiting_for_streaming_input' =
                           num_waiting_for_streaming_input + 1
  BY DEF UpdateSession
<1>2. PICK k \in 1 .. g :
        LET q == Answered(r, g, k)
        IN  /\ StopsAt(r, k)
            /\ IF HasInput(r)
               THEN /\ req' = [req EXCEPT ![r] =
                                 [AsSession(q, Head(q.queue)) EXCEPT !.queue = Tail(@)]]
                    /\ UNCHANGED num_waiting_for_streaming_input
               ELSE /\ req' = [req EXCEPT ![r] =
                                 [q EXCEPT !.status = "WAITING_FOR_STREAMING_REQ"]]
                    /\ num_waiting_for_streaming_input' =
                           num_waiting_for_streaming_input + 1
  BY <1>1
<1> DEFINE a == Answered(r, g, k)
<1>3. g \in Int /\ k \in Int /\ Head(batch_queue).spec[r] \in Nat
  BY AnswerInProgress DEF Generated, UpdateSession
<1>4. a \in RequestType /\ a.queue = req[r].queue
  BY <1>3, AnsweredEffect
<1> HIDE DEF a
<1>5. Others(r)
  BY <1>2 DEF TypeOK, Others
<1>6. CASE HasInput(r)
  <2>1. a.queue # <<>> /\ Head(a.queue) # CloseSession
    BY <1>4, <1>6 DEF UpdateSession, SessionClosed, HasInput
  <2> DEFINE chunk == Head(a.queue)
             s == AsSession(a, chunk)
             q == [s EXCEPT !.queue = Tail(s.queue)]
  <2>2. chunk \in Nat
    BY <1>4, <2>1, NextChunk
  <2> HIDE DEF chunk
  <2>3. /\ s \in RequestType /\ s.status = "WAITING" /\ s.outputs = 0
        /\ s.computed = a.computed /\ s.spec = a.spec /\ s.placeholders = a.placeholders
    BY <1>4, <2>2, AsSessionEffect
  <2>4. req' = [req EXCEPT ![r] = [AsSession(a, chunk) EXCEPT !.queue = Tail(@)]]
    BY <1>2, <1>6 DEF a, chunk
  <2> HIDE DEF s
  <2>5. req'[r] = q
    BY <2>3, <2>4 DEF TypeOK, s, RequestType
  <2>6. /\ q.status = s.status /\ q.outputs = s.outputs /\ q.prompt = s.prompt
        /\ q.tokens = s.tokens /\ q.computed = s.computed /\ q.spec = s.spec
        /\ q.placeholders = s.placeholders
    BY <2>3 DEF RequestType
  <2> HIDE DEF q
  <2>7. num_waiting_for_streaming_input' = num_waiting_for_streaming_input
    BY <1>2, <1>6
  <2>8. QED BY <1>1, <1>2, <1>5, <1>6, <2>2, <2>3, <2>5, <2>6, <2>7 DEF Generated, a, s
<1>7. CASE ~HasInput(r)
  <2> DEFINE q == [a EXCEPT !.status = "WAITING_FOR_STREAMING_REQ"]
  <2>1. req'[r] = q
    BY <1>2, <1>7 DEF TypeOK, a
  <2>2. /\ q.status = "WAITING_FOR_STREAMING_REQ" /\ SameTokens(q, a)
        /\ q.computed = a.computed /\ q.spec = a.spec /\ q.placeholders = a.placeholders
    BY <1>4 DEF RequestType, SameTokens
  <2> HIDE DEF q
  <2>3. num_waiting_for_streaming_input' = num_waiting_for_streaming_input + 1
    BY <1>2, <1>7
  <2>4. QED BY <1>1, <1>2, <1>5, <1>7, <2>1, <2>2, <2>3 DEF Generated, a
<1>8. QED BY <1>6, <1>7

--------------------------------------------------------------------------------
(* What the clients do to a request *)

LEMMA FinishedEffect ==
    ASSUME TypeOK, NEW r \in Requests, Finished(r)
    PROVE  /\ Others(r) /\ SameTokens(req'[r], req[r]) /\ req'[r].status = "FINISHED"
           /\ req'[r].spec = req[r].spec /\ req'[r].computed = req[r].computed
           /\ req'[r].placeholders = req[r].placeholders
<1> DEFINE q == [req[r] EXCEPT !.status = "FINISHED"]
<1>1. req'[r] = q /\ Others(r)
  BY DEF Finished, TypeOK, Others
<1>2. /\ SameTokens(q, req[r]) /\ q.status = "FINISHED" /\ q.spec = req[r].spec
      /\ q.computed = req[r].computed /\ q.placeholders = req[r].placeholders
  BY RequestFields DEF RequestType, SameTokens
<1> HIDE DEF q
<1>3. QED BY <1>1, <1>2

LEMMA AddRequestEffect ==
    ASSUME TypeOK, NEW r \in Requests, AddRequest(r)
    PROVE  /\ Others(r) /\ SameTokens(req'[r], req[r])
           /\ req'[r].status \in {"WAITING", "WAITING_FOR_FSM"}
           /\ req'[r].spec = req[r].spec /\ req'[r].computed = req[r].computed
           /\ req'[r].placeholders = req[r].placeholders
<1> DEFINE status == IF r \in Structured THEN "WAITING_FOR_FSM" ELSE "WAITING"
           q == [req[r] EXCEPT !.status = status]
<1>1. req'[r] = q /\ Others(r)
  BY DEF AddRequest, TypeOK, Others
<1>2. /\ SameTokens(q, req[r]) /\ q.status = status /\ q.spec = req[r].spec
      /\ q.computed = req[r].computed /\ q.placeholders = req[r].placeholders
  BY RequestFields DEF RequestType, SameTokens
<1>3. status \in {"WAITING", "WAITING_FOR_FSM"}
  OBVIOUS
<1> HIDE DEF q, status
<1>4. QED BY <1>1, <1>2, <1>3

\* A message to a session is queued, or taken at once, or ends the session.
LEMMA StreamingUpdateEffect ==
    ASSUME TypeOK, NEW r \in Requests, StreamingUpdate(r)
    PROVE  /\ r \in Resumable /\ Live(r) /\ Others(r)
           /\ req'[r].spec = req[r].spec /\ req'[r].computed = req[r].computed
           /\ req'[r].placeholders = req[r].placeholders
           /\ \/ /\ req'[r].status = req[r].status
                 /\ req[r].status # "WAITING_FOR_STREAMING_REQ"
                 /\ req'[r].prompt = req[r].prompt /\ req'[r].tokens = req[r].tokens
                 /\ req'[r].outputs = req[r].outputs
                 /\ UNCHANGED <<waiting, running, num_waiting_for_streaming_input,
                                cacheVars, finished_req_ids>>
              \/ /\ req[r].status = "WAITING_FOR_STREAMING_REQ"
                 /\ req'[r].status = "WAITING" /\ req'[r].outputs = 0
                 /\ \E chunk \in Nat :
                      /\ req'[r].prompt = AsSession(req[r], chunk).prompt
                      /\ req'[r].tokens = AsSession(req[r], chunk).tokens
                 /\ num_waiting_for_streaming_input' = num_waiting_for_streaming_input - 1
                 /\ UNCHANGED <<waiting, running, cacheVars, finished_req_ids>>
              \/ /\ req[r].status = "WAITING_FOR_STREAMING_REQ"
                 /\ Finished(r)
<1>1. PICK update \in ChunkLens \cup {CloseSession} :
        \/ /\ req[r].status # "WAITING_FOR_STREAMING_REQ"
           /\ req' = [req EXCEPT ![r].queue = Append(@, update)]
           /\ UNCHANGED <<waiting, running, num_waiting_for_streaming_input,
                          cacheVars, finished_req_ids>>
        \/ /\ req[r].status = "WAITING_FOR_STREAMING_REQ" /\ update # CloseSession
           /\ req' = [req EXCEPT ![r] = AsSession(@, update)]
           /\ num_waiting_for_streaming_input' = num_waiting_for_streaming_input - 1
           /\ UNCHANGED <<waiting, running, cacheVars, finished_req_ids>>
        \/ /\ req[r].status = "WAITING_FOR_STREAMING_REQ" /\ update = CloseSession
           /\ Finished(r)
  BY DEF StreamingUpdate
<1>2. r \in Resumable /\ Live(r)
  BY DEF StreamingUpdate
<1>3. CASE /\ req[r].status # "WAITING_FOR_STREAMING_REQ"
           /\ req' = [req EXCEPT ![r].queue = Append(@, update)]
           /\ UNCHANGED <<waiting, running, num_waiting_for_streaming_input,
                          cacheVars, finished_req_ids>>
  <2> DEFINE queue == Append(req[r].queue, update)
             q == [req[r] EXCEPT !.queue = queue]
  <2>1. req'[r] = q /\ Others(r)
    BY <1>3 DEF TypeOK, Others
  <2> HIDE DEF queue
  <2>2. /\ q.status = req[r].status /\ q.prompt = req[r].prompt
        /\ q.tokens = req[r].tokens /\ q.outputs = req[r].outputs
        /\ q.spec = req[r].spec /\ q.computed = req[r].computed
        /\ q.placeholders = req[r].placeholders
    BY RequestFields DEF RequestType
  <2> HIDE DEF q
  <2>3. QED BY <1>2, <1>3, <2>1, <2>2
<1>4. CASE /\ req[r].status = "WAITING_FOR_STREAMING_REQ" /\ update # CloseSession
           /\ req' = [req EXCEPT ![r] = AsSession(@, update)]
           /\ num_waiting_for_streaming_input' = num_waiting_for_streaming_input - 1
           /\ UNCHANGED <<waiting, running, cacheVars, finished_req_ids>>
  <2> DEFINE s == AsSession(req[r], update)
  <2>1. update \in Nat
    BY <1>4, ConstantTypes
  <2>2. req'[r] = s /\ Others(r)
    BY <1>4 DEF TypeOK, Others
  <2>3. /\ s.status = "WAITING" /\ s.outputs = 0 /\ s.computed = req[r].computed
        /\ s.spec = req[r].spec /\ s.placeholders = req[r].placeholders
    BY <2>1, RequestFields, AsSessionEffect
  <2>4. QED BY <1>2, <1>4, <2>1, <2>2, <2>3
<1>5. CASE /\ req[r].status = "WAITING_FOR_STREAMING_REQ" /\ update = CloseSession
           /\ Finished(r)
  BY <1>2, <1>5, FinishedEffect
<1>6. QED BY <1>1, <1>3, <1>4, <1>5

--------------------------------------------------------------------------------
(* Drafts *)

LEMMA ScheduledDraftsBound ==
    ASSUME TypeOK, DraftsBounded, NEW r \in Requests, NEW n \in Int
    PROVE  ScheduledDrafts(r, n) <= NumSpecTokens
BY RequestFields, ConstantTypes DEF ScheduledDrafts, Most, Least, DraftsBounded

\* Only schedule(), and the drafts handed over after an answer, set a draft count.
LEMMA DraftsStay ==
    ASSUME TypeOK, DraftsBounded,
           \A s \in Requests : req'[s].spec \in {req[s].spec} \cup 0 .. NumSpecTokens,
           \A s \in Requests : sch'.spec[s] <= NumSpecTokens,
           \/ batch_queue' = batch_queue
           \/ batch_queue # <<>> /\ batch_queue' = Tail(batch_queue)
    PROVE  DraftsBounded'
<1>1. \A s \in Requests : req'[s].spec <= NumSpecTokens
  BY ConstantTypes DEF DraftsBounded
<1>2. \A i \in DOMAIN batch_queue' : \A s \in Requests :
         batch_queue'[i].spec[s] <= NumSpecTokens
  <2>1. CASE batch_queue' = batch_queue
    BY <2>1 DEF DraftsBounded
  <2>2. CASE batch_queue # <<>> /\ batch_queue' = Tail(batch_queue)
    <3>1. batch_queue \in Seq(OutputType)
      BY DEF TypeOK
    <3>2. \A i \in DOMAIN batch_queue' :
             i + 1 \in DOMAIN batch_queue /\ batch_queue'[i] = batch_queue[i + 1]
      BY <2>2, <3>1
    <3>3. QED BY <3>2 DEF DraftsBounded
  <2>3. QED BY <2>1, <2>2
<1>3. QED BY <1>1, <1>2 DEF DraftsBounded

LEMMA DraftsOfRunningSchedule ==
    ASSUME IInv, DraftsBounded, RunningSchedule
    PROVE  DraftsBounded'
<1> USE DEF IInv
<1> DEFINE r == sch.request
           n == sch.new_tokens
<1>1. /\ r \in Requests /\ n \in Int /\ Others(r) /\ req'[r].spec = 0
      /\ sch'.spec = [sch.spec EXCEPT ![r] = ScheduledDrafts(r, n)]
  BY RunningScheduleEffect
<1> HIDE DEF r, n
<1>2. ScheduledDrafts(r, n) <= NumSpecTokens
  BY <1>1, ScheduledDraftsBound
<1>3. \A s \in Requests : sch'.spec[s] <= NumSpecTokens
  BY <1>1, <1>2, ScheduleFields DEF DraftsBounded
<1>4. \A s \in Requests : req'[s].spec \in {req[s].spec} \cup 0 .. NumSpecTokens
  BY <1>1, ConstantTypes DEF Others
<1>5. QED BY <1>3, <1>4, DraftsStay DEF RunningSchedule, stepVars

LEMMA DraftsOfPreempt ==
    ASSUME IInv, DraftsBounded, RunningPreempt \/ ResetPreempt
    PROVE  DraftsBounded'
<1> USE DEF IInv
<1>1. CASE RunningPreempt
  <2>1. PICK v \in Requests :
          /\ Others(v) /\ req'[v].spec = 0
          /\ \/ sch'.spec = sch.spec
             \/ sch'.spec = [sch.spec EXCEPT ![v] = 0]
    BY <1>1, RunningPreemptEffect
  <2>2. \A s \in Requests : sch'.spec[s] <= NumSpecTokens
    <3>1. sch.spec \in [Requests -> Nat] /\ 0 <= NumSpecTokens
      BY ScheduleFields, ConstantTypes
    <3>2. \A s \in Requests : sch.spec[s] <= NumSpecTokens
      BY DEF DraftsBounded
    <3>3. QED BY <2>1, <3>1, <3>2
  <2>3. \A s \in Requests : req'[s].spec \in {req[s].spec} \cup 0 .. NumSpecTokens
    BY <2>1, ConstantTypes DEF Others
  <2>4. QED BY <1>1, <2>2, <2>3, DraftsStay DEF RunningPreempt, stepVars
<1>2. CASE ResetPreempt
  <2>1. PICK v \in Requests : Others(v) /\ req'[v].spec = 0
    BY <1>2, ResetPreemptEffect
  <2>2. \A s \in Requests : req'[s].spec \in {req[s].spec} \cup 0 .. NumSpecTokens
    BY <2>1, ConstantTypes DEF Others
  <2>3. QED BY <1>2, <2>2, DraftsStay DEF ResetPreempt, stepVars, DraftsBounded
<1>3. QED BY <1>1, <1>2

LEMMA DraftsOfWaitingAdmit ==
    ASSUME IInv, DraftsBounded, WaitingAdmit
    PROVE  DraftsBounded'
<1> USE DEF IInv
<1>1. PICK i \in DOMAIN waiting :
        LET r == waiting[i]
        IN  Others(r) /\ req'[r].spec = req[r].spec /\ sch'.spec = sch.spec
  BY WaitingAdmitEffect
<1>2. \A s \in Requests : req'[s].spec \in {req[s].spec} \cup 0 .. NumSpecTokens
  BY <1>1 DEF Others
<1>3. QED BY <1>1, <1>2, DraftsStay DEF WaitingAdmit, stepVars, DraftsBounded

LEMMA DraftsOfEndSchedule ==
    ASSUME IInv, DraftsBounded, EndSchedule
    PROVE  DraftsBounded'
<1> USE DEF IInv
<1>1. \A s \in Requests : req'[s].spec <= NumSpecTokens
  <2>1. ASSUME NEW s \in Requests PROVE req'[s].spec <= NumSpecTokens
    <3>1. req'[s] = AfterSchedule(s)
      BY DEF EndSchedule
    <3>2. AfterSchedule(s).spec \in {req[s].spec, NumSpecTokens}
      BY AfterScheduleEffect
    <3>3. QED BY <3>1, <3>2, ConstantTypes DEF DraftsBounded
  <2>2. QED BY <2>1
<1>2. \A s \in Requests : sch'.spec[s] <= NumSpecTokens
  BY ConstantTypes DEF EndSchedule, NoSchedule
<1>3. \A i \in DOMAIN batch_queue' : \A s \in Requests :
         batch_queue'[i].spec[s] <= NumSpecTokens
  <2>1. batch_queue \in Seq(OutputType) /\ batch_queue' = Append(batch_queue, StepOutput)
    BY DEF EndSchedule, TypeOK
  <2>2. StepOutput.spec = sch.spec
    BY DEF StepOutput
  <2>3. \A i \in DOMAIN batch_queue' :
           \/ i \in DOMAIN batch_queue /\ batch_queue'[i] = batch_queue[i]
           \/ batch_queue'[i] = StepOutput
    BY <2>1
  <2>4. QED BY <2>2, <2>3 DEF DraftsBounded
<1>4. QED BY <1>1, <1>2, <1>3 DEF DraftsBounded

LEMMA DraftsOfEndUpdate ==
    ASSUME IInv, DraftsBounded, EndUpdate
    PROVE  DraftsBounded'
<1> USE DEF IInv
<1>1. \A s \in Requests : req'[s].spec \in {req[s].spec} \cup 0 .. NumSpecTokens
  BY HandedOver, RequestFields DEF RequestType
<1>2. batch_queue # <<>> /\ batch_queue' = Tail(batch_queue) /\ sch' = sch
  BY DEF EndUpdate, UpdatesAnOutput
<1>3. QED BY <1>1, <1>2, DraftsStay DEF DraftsBounded

\* An answer and the clients leave the draft counts alone.
LEMMA DraftsOfOneRequest ==
    ASSUME IInv, DraftsBounded, NEW r \in Requests,
           \/ UpdateContinue(r) \/ UpdateFinish(r) \/ UpdateSession(r)
           \/ AddRequest(r) \/ FinishRequests(r) \/ StreamingUpdate(r)
    PROVE  DraftsBounded'
<1> USE DEF IInv
<1>1. Others(r) /\ req'[r].spec = req[r].spec
  <2>1. ASSUME UpdateContinue(r) \/ UpdateFinish(r) \/ UpdateSession(r)
        PROVE  Others(r) /\ req'[r].spec = req[r].spec
    <3>1. Head(batch_queue).spec[r] \in Nat
      BY <2>1, AnswerInProgress DEF UpdateContinue, UpdateFinish, UpdateSession
    <3>2. \E g \in 1 .. 1 + Head(batch_queue).spec[r] : \E k \in 1 .. g :
            req'[r].spec = Answered(r, g, k).spec /\ Others(r)
      <4>1. CASE UpdateContinue(r)
        <5>1. PICK g \in 1 .. 1 + Head(batch_queue).spec[r] :
                req'[r] = Answered(r, g, g) /\ Others(r)
          BY <4>1, UpdateContinueEffect
        <5>2. g \in 1 .. g
          BY <3>1
        <5>3. QED BY <5>1, <5>2
      <4>2. CASE UpdateFinish(r)
        BY <4>2, UpdateFinishEffect
      <4>3. CASE UpdateSession(r)
        BY <4>3, UpdateSessionEffect
      <4>4. QED BY <2>1, <4>1, <4>2, <4>3
    <3>3. QED BY <3>1, <3>2, AnsweredEffect
  <2>2. QED
    BY <2>1, AddRequestEffect, FinishedEffect, StreamingUpdateEffect DEF FinishRequests
<1>2. \A s \in Requests : req'[s].spec \in {req[s].spec} \cup 0 .. NumSpecTokens
  BY <1>1 DEF Others
<1>3. sch' = sch /\ batch_queue' = batch_queue
  BY DEF UpdateContinue, UpdateFinish, UpdateSession, AddRequest, FinishRequests,
     StreamingUpdate, stepVars
<1>4. QED BY <1>2, <1>3, DraftsStay DEF DraftsBounded

LEMMA DraftsStep ==
    ASSUME IInv, DraftsBounded, [Next]_vars
    PROVE  DraftsBounded'
<1> USE DEF IInv
<1>1. CASE \/ BeginSchedule \/ RunningSkip \/ RunningPick \/ RunningDone
           \/ WaitingGrammar \/ WaitingSkip \/ LeaveWaitingLoop
           \/ BeginUpdate \/ BeginReset \/ EndReset
           \/ \E r \in Requests : UpdateSkip(r) \/ GrammarReady(r)
           \/ UNCHANGED vars
  <2>1. batch_queue' = batch_queue
    BY <1>1 DEF BeginSchedule, RunningSkip, RunningPick, RunningDone, WaitingGrammar,
       WaitingSkip, LeaveWaitingLoop, BeginUpdate, BeginReset, EndReset, UpdateSkip,
       GrammarReady, vars, stepVars
  <2>2. \A s \in Requests : req'[s].spec = req[s].spec
    <3>1. CASE WaitingGrammar
      <4>1. PICK r \in Requests : req' = [req EXCEPT ![r].status = "WAITING"]
        BY <3>1, WaitingElements DEF WaitingGrammar
      <4>2. [req[r] EXCEPT !.status = "WAITING"].spec = req[r].spec
        BY RequestFields DEF RequestType
      <4>3. req' = [req EXCEPT ![r] = [req[r] EXCEPT !.status = "WAITING"]]
        BY <4>1
      <4>4. QED BY <4>2, <4>3 DEF TypeOK
    <3>2. CASE ~WaitingGrammar
      <4>1. req' = req
        BY <1>1, <3>2 DEF BeginSchedule, RunningSkip, RunningPick, RunningDone,
           WaitingSkip, LeaveWaitingLoop, BeginUpdate, BeginReset, EndReset, UpdateSkip,
           GrammarReady, vars, requestVars
      <4>2. QED BY <4>1
    <3>3. QED BY <3>1, <3>2
  <2>3. \A s \in Requests : sch'.spec[s] <= NumSpecTokens
    <3>1. CASE BeginSchedule
      BY <3>1, ConstantTypes DEF BeginSchedule, NoSchedule
    <3>2. CASE ~BeginSchedule
      <4>1. sch'.spec = sch.spec
        BY <1>1, <3>2, ScheduleFields DEF RunningSkip, RunningPick, RunningDone,
           WaitingGrammar, WaitingSkip, LeaveWaitingLoop, BeginUpdate, BeginReset,
           EndReset, UpdateSkip, GrammarReady, vars, ScheduleType
      <4>2. QED BY <4>1 DEF DraftsBounded
    <3>3. QED BY <3>1, <3>2
  <2>4. QED BY <2>1, <2>2, <2>3, DraftsStay
<1>2. WaitingBlocked \/ WaitingDone => LeaveWaitingLoop
  BY DEF WaitingBlocked, WaitingDone
<1>3. QED
  BY <1>1, <1>2, DraftsOfRunningSchedule, DraftsOfPreempt, DraftsOfWaitingAdmit,
     DraftsOfEndSchedule, DraftsOfEndUpdate, DraftsOfOneRequest
  DEF Next, ScheduleStep, UpdateStep, ResetStep, ClientStep

--------------------------------------------------------------------------------
(* The answers of the ordinary requests *)

\* What OrdinaryAnswers says of one request.
AnswerOf(s) ==
    /\ req[s].prompt = PromptLen[s] /\ req[s].tokens = PromptLen[s] + req[s].outputs
    /\ req[s].outputs >= 0 /\ req[s].queue = <<>>
    /\ req[s].status = "NONE" => req[s].outputs = 0
    /\ Live(s) => req[s].outputs < AnswerLimit[s]
    /\ req[s].status # "WAITING_FOR_STREAMING_REQ"

LEMMA AnswerLimitType ==
    ASSUME NEW r \in Ordinary
    PROVE  /\ AnswerLimit[r] \in Nat \ {0}
           /\ AnswerLimit[r] = Least(MaxTokens[r], MaxModelLen - PromptLen[r])
<1>1. MaxTokens[r] \in Nat \ {0} /\ PromptLen[r] \in Nat \ {0}
  BY RequestsAssumption DEF PositiveNat, Ordinary
<1>2. MaxModelLen \in Nat /\ PromptLen[r] < MaxModelLen
  BY ConstantTypes, AdmissionAssumption DEF Ordinary
<1>3. AnswerLimit[r] = Least(MaxTokens[r], MaxModelLen - PromptLen[r])
  BY DEF AnswerLimit
<1>4. QED BY <1>1, <1>2, <1>3 DEF Least

\* What the scheduler may still append is what is missing of the longest answer.
LEMMA UntilLimitOfAnswer ==
    ASSUME TypeOK, OrdinaryAnswers, NEW r \in Ordinary, Live(r)
    PROVE  UntilLimit(r) = AnswerLimit[r] - req[r].outputs
<1>1. /\ req[r].tokens = PromptLen[r] + req[r].outputs
      /\ req[r].outputs < AnswerLimit[r]
  BY DEF OrdinaryAnswers
<1>2. /\ MaxTokens[r] \in Int /\ MaxModelLen \in Int /\ PromptLen[r] \in Int
      /\ req[r].outputs \in Int
  BY ConstantTypes, RequestFields DEF Ordinary
<1>3. AnswerLimit[r] = Least(MaxTokens[r], MaxModelLen - PromptLen[r])
  BY AnswerLimitType
<1>4. QED BY <1>1, <1>2, <1>3 DEF UntilLimit, Most, Least

LEMMA ClientStateCases ==
    ASSUME NEW s
    PROVE  /\ ClientState(s) = "idle" <=> req[s].status = "NONE"
           /\ ClientState(s) = "closed" <=> req[s].status = "FINISHED"
           /\ ClientState(s) = "open" <=> Live(s)
BY DEF ClientState, Live

\* All other requests keep what their clients see.
LEMMA OthersKeepAnswers ==
    ASSUME NEW r, Others(r), NEW s \in Requests \ {r}
    PROVE  KeepsAnswer(s)
BY DEF Others, KeepsAnswer, ClientState

LEMMA AnswerKept ==
    ASSUME NEW s \in Requests, AnswerOf(s), KeepsAnswer(s)
    PROVE  AnswerOf(s)'
<1>1. /\ req'[s].status = "NONE" <=> req[s].status = "NONE"
      /\ Live(s)' <=> Live(s)
  BY DEF KeepsAnswer, ClientState, Live
<1>2. QED BY <1>1 DEF AnswerOf, KeepsAnswer

\* An answer that goes on stays short of the limit, one that ends does not matter.
LEMMA AnswerOfUpdate ==
    ASSUME IInv, OrdinaryAnswers, NEW r \in Ordinary,
           UpdateContinue(r) \/ UpdateFinish(r)
    PROVE  AnswerOf(r)'
<1> USE DEF IInv
<1>1. /\ r \in Requests /\ Live(r) /\ Head(batch_queue).spec[r] \in Nat
      /\ req[r].outputs \in Int /\ PromptLen[r] \in Int
  BY AnswerInProgress, RequestFields, ConstantTypes
  DEF Ordinary, UpdateContinue, UpdateFinish
<1>2. AnswerOf(r)
  BY DEF OrdinaryAnswers, AnswerOf
<1>3. CASE UpdateContinue(r)
  <2>1. PICK g \in 1 .. 1 + Head(batch_queue).spec[r] :
          g < UntilLimit(r) /\ req'[r] = Answered(r, g, g)
    BY <1>1, <1>3, UpdateContinueEffect
  <2>2. g < AnswerLimit[r] - req[r].outputs
    BY <1>1, <2>1, UntilLimitOfAnswer
  <2>3. /\ req'[r].status = req[r].status /\ req'[r].prompt = req[r].prompt
        /\ req'[r].queue = req[r].queue /\ req'[r].tokens = req[r].tokens + g
        /\ req'[r].outputs = req[r].outputs + g
    BY <1>1, <2>1, AnsweredEffect
  <2>4. AnswerLimit[r] \in Int
    BY AnswerLimitType
  <2>5. req'[r].outputs < AnswerLimit[r] /\ req'[r].outputs >= 0
    BY <1>1, <1>2, <2>2, <2>3, <2>4 DEF AnswerOf
  <2>6. QED BY <1>1, <1>2, <2>3, <2>5 DEF AnswerOf, Live
<1>4. CASE UpdateFinish(r)
  <2>1. PICK g \in 1 .. 1 + Head(batch_queue).spec[r] : \E k \in 1 .. g :
          SameTokens(req'[r], Answered(r, g, k)) /\ req'[r].status = "FINISHED"
    BY <1>1, <1>4, UpdateFinishEffect
  <2>2. PICK k \in 1 .. g :
          SameTokens(req'[r], Answered(r, g, k)) /\ req'[r].status = "FINISHED"
    BY <2>1
  <2>3. /\ req'[r].prompt = req[r].prompt
        /\ req'[r].queue = req[r].queue /\ req'[r].tokens = req[r].tokens + k
        /\ req'[r].outputs = req[r].outputs + k
    BY <1>1, <2>2, AnsweredEffect DEF SameTokens
  <2>4. QED BY <1>1, <1>2, <2>2, <2>3 DEF AnswerOf, Live
<1>5. QED BY <1>3, <1>4

LEMMA AnswersStep ==
    ASSUME IInv, OrdinaryAnswers, [Next]_vars
    PROVE  OrdinaryAnswers'
<1> USE DEF IInv
<1> SUFFICES ASSUME NEW s \in Ordinary PROVE AnswerOf(s)'
  BY DEF OrdinaryAnswers, AnswerOf
<1>1. s \in Requests /\ s \notin Resumable /\ AnswerOf(s)
  BY DEF OrdinaryAnswers, AnswerOf, Ordinary
<1>2. CASE Quiet
  BY <1>1, <1>2, QuietKeepsAnswers, AnswerKept
<1>3. ASSUME NEW r \in Requests,
             \/ UpdateContinue(r) \/ UpdateFinish(r) \/ UpdateSession(r)
             \/ AddRequest(r) \/ FinishRequests(r) \/ StreamingUpdate(r)
      PROVE  AnswerOf(s)'
  <2>1. Others(r)
    BY <1>3, UpdateContinueEffect, UpdateFinishEffect, UpdateSessionEffect,
       AddRequestEffect, FinishedEffect, StreamingUpdateEffect DEF FinishRequests
  <2>2. CASE r # s
    BY <1>1, <2>1, <2>2, OthersKeepAnswers, AnswerKept
  <2>3. CASE r = s
    <3>1. ~UpdateSession(r) /\ ~StreamingUpdate(r)
      BY <1>1, <2>3 DEF UpdateSession, StreamingUpdate
    <3>2. CASE UpdateContinue(r) \/ UpdateFinish(r)
      BY <2>3, <3>2, AnswerOfUpdate
    <3>3. CASE AddRequest(r)
      <4>1. req[r].status = "NONE" /\ req[r].outputs = 0 /\ 0 < AnswerLimit[r]
        BY <1>1, <2>3, <3>3, AnswerLimitType DEF AddRequest, AnswerOf
      <4>2. SameTokens(req'[r], req[r]) /\ req'[r].status \in {"WAITING", "WAITING_FOR_FSM"}
        BY <3>3, AddRequestEffect
      <4>3. QED BY <1>1, <2>3, <4>1, <4>2 DEF AnswerOf, SameTokens, Live
    <3>4. CASE FinishRequests(r)
      <4>1. SameTokens(req'[r], req[r]) /\ req'[r].status = "FINISHED"
        BY <3>4, FinishedEffect DEF FinishRequests
      <4>2. QED BY <1>1, <2>3, <4>1 DEF AnswerOf, SameTokens, Live
    <3>5. QED BY <1>3, <3>1, <3>2, <3>3, <3>4
  <2>4. QED BY <2>2, <2>3
<1>4. QED BY <1>2, <1>3 DEF Quiet, Next, UpdateStep, ClientStep

--------------------------------------------------------------------------------
(* The refinement *)

LEMMA InitServiceInv == Init => ServiceInv
<1> SUFFICES ASSUME Init PROVE ServiceInv
  OBVIOUS
<1>1. DraftsBounded
  BY ConstantTypes DEF Init, DraftsBounded, NewRequest, NoSchedule
<1>2. OrdinaryAnswers
  BY ConstantTypes DEF Init, OrdinaryAnswers, NewRequest, Live, Ordinary
<1>3. QED BY <1>1, <1>2, InitIInv DEF ServiceInv

LEMMA StepServiceInv == ServiceInv /\ [Next]_vars => ServiceInv'
BY StepIInv, DraftsStep, AnswersStep DEF ServiceInv

\* A step that keeps what every client sees is a stutter of the service.
LEMMA KeptIsStutter ==
    ASSUME \A s \in Ordinary : KeepsAnswer(s)
    PROVE  UNCHANGED Service!vars
BY DEF KeepsAnswer, Service!vars

LEMMA InitRefines == Init => Service!Init
BY DEF Init, NewRequest, ClientState, Service!Init, Ordinary

LEMMA UpdateContinueDelivers ==
    ASSUME ServiceInv, NEW r \in Ordinary, UpdateContinue(r)
    PROVE  Service!Deliver(r)
<1> USE DEF ServiceInv, IInv
<1>1. /\ r \in Requests /\ Live(r) /\ Head(batch_queue).spec[r] \in Nat
      /\ req[r].outputs \in Int
  BY AnswerInProgress, RequestFields DEF Ordinary, UpdateContinue
<1>2. PICK g \in 1 .. 1 + Head(batch_queue).spec[r] :
        g < UntilLimit(r) /\ req'[r] = Answered(r, g, g) /\ Others(r)
  BY <1>1, UpdateContinueEffect
<1>3. req'[r].status = req[r].status /\ req'[r].outputs = req[r].outputs + g
  BY <1>1, <1>2, AnsweredEffect
<1>4. g \in 1 .. NumSpecTokens + 1
  <2>1. Head(batch_queue).spec[r] <= NumSpecTokens
    BY <1>1, AnswerInProgress DEF DraftsBounded, UpdateContinue
  <2>2. QED BY <1>1, <1>2, <2>1, ConstantTypes
<1>5. req[r].outputs + g < AnswerLimit[r]
  <2>1. g < AnswerLimit[r] - req[r].outputs /\ AnswerLimit[r] \in Int
    BY <1>1, <1>2, UntilLimitOfAnswer, AnswerLimitType
  <2>2. QED BY <1>1, <1>4, <2>1
<1>6. \A s \in Ordinary : ClientState(s)' = ClientState(s)
  BY <1>2, <1>3 DEF Others, ClientState, Ordinary
<1>7. [s \in Ordinary |-> req'[s].outputs]
         = [[s \in Ordinary |-> req[s].outputs] EXCEPT ![r] = @ + g]
  BY <1>2, <1>3 DEF Others, Ordinary
<1>8. ClientState(r) = "open"
  BY <1>1, ClientStateCases
<1>9. QED BY <1>4, <1>5, <1>6, <1>7, <1>8 DEF Service!Deliver

LEMMA UpdateFinishCompletes ==
    ASSUME ServiceInv, NEW r \in Ordinary, UpdateFinish(r)
    PROVE  Service!Complete(r)
<1> USE DEF ServiceInv, IInv
<1>1. /\ r \in Requests /\ Live(r) /\ Head(batch_queue).spec[r] \in Nat
      /\ req[r].outputs \in Int
  BY AnswerInProgress, RequestFields DEF Ordinary, UpdateFinish
<1>2. PICK g \in 1 .. 1 + Head(batch_queue).spec[r] : \E k \in 1 .. g :
        /\ StopsAt(r, k) /\ SameTokens(req'[r], Answered(r, g, k))
        /\ req'[r].status = "FINISHED" /\ Others(r)
  BY <1>1, UpdateFinishEffect
<1>3. PICK k \in 1 .. g :
        /\ StopsAt(r, k) /\ SameTokens(req'[r], Answered(r, g, k))
        /\ req'[r].status = "FINISHED" /\ Others(r)
  BY <1>2
<1>4. req'[r].outputs = req[r].outputs + k
  BY <1>1, <1>3, AnsweredEffect DEF SameTokens
<1>5. k \in 1 .. NumSpecTokens + 1
  <2>1. Head(batch_queue).spec[r] <= NumSpecTokens
    BY <1>1, AnswerInProgress DEF DraftsBounded, UpdateFinish
  <2>2. QED BY <1>1, <2>1, ConstantTypes
<1>6. \/ req[r].outputs + k = AnswerLimit[r]
      \/ r \in EarlyStop /\ req[r].outputs + k < AnswerLimit[r]
  <2>1. UntilLimit(r) = AnswerLimit[r] - req[r].outputs /\ AnswerLimit[r] \in Int
    BY <1>1, UntilLimitOfAnswer, AnswerLimitType
  <2>2. QED BY <1>1, <1>3, <1>5, <2>1 DEF StopsAt
<1>7. [s \in Ordinary |-> ClientState(s)']
         = [[s \in Ordinary |-> ClientState(s)] EXCEPT ![r] = "closed"]
  <2>1. ClientState(r)' = "closed"
    BY <1>3 DEF ClientState
  <2>2. \A s \in Ordinary \ {r} : ClientState(s)' = ClientState(s)
    BY <1>3 DEF Others, ClientState, Ordinary
  <2>3. QED BY <2>1, <2>2
<1>8. [s \in Ordinary |-> req'[s].outputs]
         = [[s \in Ordinary |-> req[s].outputs] EXCEPT ![r] = @ + k]
  BY <1>3, <1>4 DEF Others, Ordinary
<1>9. ClientState(r) = "open"
  BY <1>1, ClientStateCases
<1>10. QED BY <1>5, <1>6, <1>7, <1>8, <1>9 DEF Service!Complete

LEMMA AddRequestAccepts ==
    ASSUME ServiceInv, NEW r \in Ordinary, AddRequest(r)
    PROVE  Service!Accept(r)
<1> USE DEF ServiceInv, IInv
<1>1. /\ r \in Requests /\ req[r].status = "NONE"
      /\ Others(r) /\ SameTokens(req'[r], req[r])
      /\ req'[r].status \in {"WAITING", "WAITING_FOR_FSM"}
  BY AddRequestEffect DEF Ordinary, AddRequest
<1>2. [s \in Ordinary |-> ClientState(s)']
         = [[s \in Ordinary |-> ClientState(s)] EXCEPT ![r] = "open"]
  <2>1. ClientState(r)' = "open"
    BY <1>1 DEF ClientState
  <2>2. \A s \in Ordinary \ {r} : ClientState(s)' = ClientState(s)
    BY <1>1 DEF Others, ClientState, Ordinary
  <2>3. QED BY <2>1, <2>2
<1>3. \A s \in Ordinary : req'[s].outputs = req[s].outputs
  BY <1>1 DEF Others, SameTokens, Ordinary
<1>4. ClientState(r) = "idle"
  BY <1>1, ClientStateCases
<1>5. QED BY <1>2, <1>3, <1>4 DEF Service!Accept

LEMMA FinishRequestsAborts ==
    ASSUME ServiceInv, NEW r \in Ordinary, FinishRequests(r)
    PROVE  Service!Abort(r)
<1> USE DEF ServiceInv, IInv
<1>1. /\ r \in Requests /\ r \in Abortable /\ Live(r)
      /\ Others(r) /\ SameTokens(req'[r], req[r]) /\ req'[r].status = "FINISHED"
  BY FinishedEffect DEF Ordinary, FinishRequests
<1>2. [s \in Ordinary |-> ClientState(s)']
         = [[s \in Ordinary |-> ClientState(s)] EXCEPT ![r] = "closed"]
  <2>1. ClientState(r)' = "closed"
    BY <1>1 DEF ClientState
  <2>2. \A s \in Ordinary \ {r} : ClientState(s)' = ClientState(s)
    BY <1>1 DEF Others, ClientState, Ordinary
  <2>3. QED BY <2>1, <2>2
<1>3. \A s \in Ordinary : req'[s].outputs = req[s].outputs
  BY <1>1 DEF Others, SameTokens, Ordinary
<1>4. ClientState(r) = "open"
  BY <1>1, ClientStateCases
<1>5. QED BY <1>1, <1>2, <1>3, <1>4 DEF Service!Abort

LEMMA StepRefines == ServiceInv /\ [Next]_vars => [Service!Next]_Service!vars
<1> SUFFICES ASSUME ServiceInv, [Next]_vars PROVE [Service!Next]_Service!vars
  OBVIOUS
<1> USE DEF ServiceInv, IInv
<1>1. CASE Quiet
  BY <1>1, QuietKeepsAnswers, KeptIsStutter DEF Ordinary
<1>2. ASSUME NEW r \in Ordinary,
             UpdateContinue(r) \/ UpdateFinish(r) \/ AddRequest(r) \/ FinishRequests(r)
      PROVE  Service!Next
  BY <1>2, UpdateContinueDelivers, UpdateFinishCompletes, AddRequestAccepts,
     FinishRequestsAborts DEF Service!Next
\* What happens to a session is invisible to the clients of ordinary requests.
<1>3. ASSUME NEW r \in Resumable,
             \/ UpdateContinue(r) \/ UpdateFinish(r) \/ UpdateSession(r)
             \/ AddRequest(r) \/ FinishRequests(r) \/ StreamingUpdate(r)
      PROVE  UNCHANGED Service!vars
  <2>1. r \in Requests
    BY RequestsAssumption
  <2>2. Others(r)
    BY <1>3, <2>1, UpdateContinueEffect, UpdateFinishEffect, UpdateSessionEffect,
       AddRequestEffect, FinishedEffect, StreamingUpdateEffect DEF FinishRequests
  <2>3. QED BY <2>2, OthersKeepAnswers, KeptIsStutter DEF Ordinary
<1>4. \A r \in Requests : UpdateSession(r) \/ StreamingUpdate(r) => r \in Resumable
  BY DEF UpdateSession, StreamingUpdate
<1>5. \A r \in Requests : r \in Ordinary \/ r \in Resumable
  BY DEF Ordinary
<1>6. QED
  BY <1>1, <1>2, <1>3, <1>4, <1>5 DEF Quiet, Next, UpdateStep, ClientStep

\* The bounds of drafts and answers that the refinement rests on hold always.
THEOREM ServiceInvariant == Spec => []ServiceInv
<1>1. Init => ServiceInv
  BY InitServiceInv
<1>2. ServiceInv /\ [Next]_vars => ServiceInv'
  BY StepServiceInv
<1>3. QED BY <1>1, <1>2, PTL DEF Spec

\* The scheduler implements the service the clients of ordinary requests are
\* promised, for every number of requests and blocks, both policies, both schedules,
\* any drafter and any number of steps in flight: every step of the code is a step
\* of the service or invisible to its clients.
THEOREM SchedulerImplementsService == Spec => ImplementsService
<1>1. Init => Service!Init
  BY InitRefines
<1>2. ServiceInv /\ [Next]_vars => [Service!Next]_Service!vars
  BY StepRefines
<1>3. QED
  BY <1>1, <1>2, ServiceInvariant, PTL DEF Spec, ImplementsService, Service!Spec

--------------------------------------------------------------------------------
(* The waiting queue: no request is lost from it or queued twice, preempted *)
(* requests wait ahead of the others, and the count of the sessions parked  *)
(* without input is exact.  All this holds for an engine without sessions,  *)
(* and with sessions when one step is in flight at most.                    *)

OneStepOrNoSessions == Resumable = {} \/ PipelineDepth = 1

--------------------------------------------------------------------------------
(* How the queue of waiting requests moves *)

Waits(s) == Live(s) /\ req[s].status # "RUNNING"

PreemptedRequests == {r \in Requests : req[r].status = "PREEMPTED"}

\* The status of s does not concern the queue.
SamePlace(s) ==
    /\ Waits(s)' <=> Waits(s)
    /\ req'[s].status = "PREEMPTED" <=> req[s].status = "PREEMPTED"

\* Only a priority queue is ever reordered.
QueueKept ==
    /\ \A s \in Requests : SamePlace(s)
    /\ \/ Queued' = Queued
       \/ /\ Policy = "priority" /\ Queued' \in Seq(Requests)
          /\ ToSet(Queued') = ToSet(Queued) /\ (NoDuplicates(Queued) => NoDuplicates(Queued'))

QueueLoses(r) ==
    /\ \A s \in Requests \ {r} : SamePlace(s)
    /\ ~Waits(r)' /\ req'[r].status # "PREEMPTED"
    /\ \/ Queued' = Without(Queued, r)
       \/ \E i \in DOMAIN Queued : Queued[i] = r /\ Queued' = RemoveAt(Queued, i)

QueueGains(r) ==
    /\ \A s \in Requests \ {r} : SamePlace(s)
    /\ ~Waits(r) /\ Waits(r)'
    /\ IF req'[r].status = "PREEMPTED" THEN Queued' = <<r>> \o Queued
       ELSE Queued' = Append(Queued, r)

QueueMoves == QueueKept \/ \E r \in Requests : QueueLoses(r) \/ QueueGains(r)

LEMMA QueuedType ==
    ASSUME TypeOK
    PROVE  /\ Queued \in Seq(Requests)
           /\ ToSet(Queued) = ToSet(sch.skipped) \cup ToSet(waiting)
           /\ NoDuplicates(Queued) <=>
                 /\ NoDuplicates(sch.skipped) /\ NoDuplicates(waiting)
                 /\ ToSet(sch.skipped) \cap ToSet(waiting) = {}
<1>1. sch.skipped \in Seq(Requests) /\ waiting \in Seq(Requests)
  BY ScheduleFields DEF TypeOK
<1>2. QED BY <1>1, ConcatElements DEF Queued

\* Outside the waiting loop the queue is `waiting` alone.
LEMMA QueuedOutside ==
    ASSUME TypeOK, SkippedInLoop, phase # "waiting"
    PROVE  Queued = waiting /\ sch.skipped = <<>>
<1>1. sch.skipped = <<>> /\ waiting \in Seq(Requests)
  BY DEF SkippedInLoop, TypeOK
<1>2. QED BY <1>1 DEF Queued

LEMMA PreemptedFirstIn ==
    ASSUME TypeOK
    PROVE  PreemptedFirst <=> (Policy = "fcfs" => FirstIn(Queued, PreemptedRequests))
<1>1. Queued \in Seq(Requests)
  BY QueuedType
<1>2. \A i \in DOMAIN Queued :
         req[Queued[i]].status = "PREEMPTED" <=> Queued[i] \in PreemptedRequests
  BY <1>1 DEF PreemptedRequests
<1>3. QED BY <1>2 DEF PreemptedFirst, FirstIn

LEMMA AgreementOfWaiting ==
    WaitingAgreement <=> /\ \A r \in Requests : Waits(r) <=> r \in ToSet(Queued)
                         /\ NoDuplicates(Queued)
BY DEF WaitingAgreement, Waits

\* Each way to move keeps the agreement, and the order.
LEMMA QueueMovesKeep ==
    ASSUME TypeOK, TypeOK', WaitingAgreement, PreemptedFirst, QueueMoves
    PROVE  WaitingAgreement' /\ PreemptedFirst'
<1>1. /\ Queued \in Seq(Requests) /\ NoDuplicates(Queued)
      /\ \A r \in Requests : Waits(r) <=> r \in ToSet(Queued)
  BY QueuedType, AgreementOfWaiting
<1> DEFINE P == PreemptedRequests
<1>2. Policy = "fcfs" => FirstIn(Queued, P)
  BY PreemptedFirstIn
<1>3. SUFFICES /\ \A r \in Requests : Waits(r)' <=> r \in ToSet(Queued')
               /\ NoDuplicates(Queued')
               /\ Policy = "fcfs" => FirstIn(Queued', P')
  <2>1. WaitingAgreement' <=> /\ \A r \in Requests : Waits(r)' <=> r \in ToSet(Queued')
                              /\ NoDuplicates(Queued')
    BY DEF WaitingAgreement, Waits
  <2>2. PreemptedFirst' <=> (Policy = "fcfs" => FirstIn(Queued', P'))
    <3>1. Queued' \in Seq(Requests)
      <4>1. sch'.skipped \in Seq(Requests) /\ waiting' \in Seq(Requests)
        BY DEF TypeOK, ScheduleType
      <4>2. QED BY <4>1 DEF Queued
    <3>2. \A i \in DOMAIN Queued' :
             req'[Queued'[i]].status = "PREEMPTED" <=> Queued'[i] \in P'
      BY <3>1 DEF PreemptedRequests
    <3>3. QED BY <3>2 DEF PreemptedFirst, FirstIn
  <2>3. QED BY <2>1, <2>2
<1>4. CASE QueueKept
  <2>1. ToSet(Queued') = ToSet(Queued) /\ NoDuplicates(Queued')
    BY <1>1, <1>4 DEF QueueKept
  <2>2. \A r \in Requests : Waits(r)' <=> r \in ToSet(Queued')
    BY <1>1, <1>4, <2>1 DEF QueueKept, SamePlace
  <2>3. ASSUME Policy = "fcfs" PROVE FirstIn(Queued', P')
    <3>1. Queued' = Queued
      BY <1>4, <2>3 DEF QueueKept
    <3>2. P' = P
      BY <1>4 DEF QueueKept, SamePlace, PreemptedRequests
    <3>3. QED BY <1>2, <2>3, <3>1, <3>2
  <2>4. QED BY <2>1, <2>2, <2>3
<1>5. ASSUME NEW r \in Requests, QueueLoses(r)
      PROVE  /\ \A s \in Requests : Waits(s)' <=> s \in ToSet(Queued')
             /\ NoDuplicates(Queued')
             /\ Policy = "fcfs" => FirstIn(Queued', P')
  <2>1. /\ ToSet(Queued') = ToSet(Queued) \ {r} /\ NoDuplicates(Queued')
        /\ FirstIn(Queued, P) => FirstIn(Queued', P)
    <3>1. CASE Queued' = Without(Queued, r)
      BY <1>1, <3>1, WithoutElements, WithoutFirstIn
    <3>2. ASSUME NEW i \in DOMAIN Queued, Queued[i] = r, Queued' = RemoveAt(Queued, i)
          PROVE  /\ ToSet(Queued') = ToSet(Queued) \ {r} /\ NoDuplicates(Queued')
                 /\ FirstIn(Queued, P) => FirstIn(Queued', P)
      <4>1. i \in 1 .. Len(Queued)
        BY <1>1
      <4>2. QED BY <1>1, <3>2, <4>1, RemoveAtElements, RemoveAtFirstIn
    <3>3. QED BY <1>5, <3>1, <3>2 DEF QueueLoses
  <2>2. \A s \in Requests : Waits(s)' <=> s \in ToSet(Queued')
    BY <1>1, <1>5, <2>1 DEF QueueLoses, SamePlace
  <2>3. ASSUME Policy = "fcfs" PROVE FirstIn(Queued', P')
    <3>1. \A x \in ToSet(Queued') : x \in P <=> x \in P'
      BY <1>5, <2>1 DEF QueueLoses, SamePlace, PreemptedRequests
    <3>2. QED BY <1>2, <2>1, <2>3, <3>1, SameFirstIn
  <2>4. QED BY <2>1, <2>2, <2>3
<1>6. ASSUME NEW r \in Requests, QueueGains(r)
      PROVE  /\ \A s \in Requests : Waits(s)' <=> s \in ToSet(Queued')
             /\ NoDuplicates(Queued')
             /\ Policy = "fcfs" => FirstIn(Queued', P')
  <2>1. r \notin ToSet(Queued)
    BY <1>1, <1>6 DEF QueueGains
  <2>2. FirstIn(Queued, P) => FirstIn(Queued, P')
    <3>1. \A x \in ToSet(Queued) : x \in P <=> x \in P'
      BY <1>6, <2>1 DEF QueueGains, SamePlace, PreemptedRequests
    <3>2. QED BY <3>1, SameFirstIn
  <2>3. /\ ToSet(Queued') = ToSet(Queued) \cup {r} /\ NoDuplicates(Queued')
        /\ FirstIn(Queued, P) => FirstIn(Queued', P')
    <3>1. CASE req'[r].status = "PREEMPTED"
      <4>1. Queued' = <<r>> \o Queued /\ r \in P'
        BY <1>6, <3>1 DEF QueueGains, PreemptedRequests
      <4>2. <<r>> \in Seq(Requests) /\ ToSet(<<r>>) = {r} /\ NoDuplicates(<<r>>)
        BY DEF ToSet, NoDuplicates
      <4>3. ToSet(Queued') = ToSet(Queued) \cup {r} /\ NoDuplicates(Queued')
        <5>1. ToSet(<<r>>) \cap ToSet(Queued) = {}
          BY <2>1, <4>2
        <5>2. /\ ToSet(<<r>> \o Queued) = ToSet(<<r>>) \cup ToSet(Queued)
              /\ NoDuplicates(<<r>> \o Queued)
          BY <1>1, <4>2, <5>1, ConcatElements
        <5>3. QED BY <4>1, <4>2, <5>2
      <4>4. QED BY <1>1, <2>2, <4>1, <4>3, PrependFirstIn
    <3>2. CASE req'[r].status # "PREEMPTED"
      <4>1. Queued' = Append(Queued, r) /\ r \notin P'
        BY <1>6, <3>2 DEF QueueGains, PreemptedRequests
      <4>2. QED BY <1>1, <2>1, <2>2, <4>1, AppendElements, AppendFirstIn
    <3>3. QED BY <3>1, <3>2
  <2>4. \A s \in Requests : Waits(s)' <=> s \in ToSet(Queued')
    BY <1>1, <1>6, <2>3 DEF QueueGains, SamePlace
  <2>5. QED BY <1>2, <2>3, <2>4
<1>7. QED BY <1>4, <1>5, <1>6 DEF QueueMoves

--------------------------------------------------------------------------------
(* What the waiting loop sets aside *)

\* Every action but the skip itself and the end of the loop leaves `skipped` alone.
LEMMA SkippedKept ==
    ASSUME IInv, SkippedInLoop,
           \/ BeginSchedule \/ RunningSkip \/ RunningPick \/ RunningSchedule
           \/ RunningPreempt \/ RunningDone \/ WaitingGrammar \/ WaitingAdmit
           \/ EndSchedule \/ UpdateStep \/ ResetStep \/ ClientStep \/ UNCHANGED vars
    PROVE  sch'.skipped = sch.skipped
<1> USE DEF IInv
<1>1. CASE BeginSchedule \/ EndSchedule
  <2>1. sch.skipped = <<>>
    BY <1>1 DEF BeginSchedule, EndSchedule, SkippedInLoop
  <2>2. sch'.skipped = <<>>
    <3>1. NoSchedule \in ScheduleType /\ NoSchedule.skipped = <<>>
      BY NoScheduleType DEF NoSchedule
    <3>2. [NoSchedule EXCEPT !.budget = MaxBatched,
                             !.cap = CeilDiv(Len(waiting) + Len(running), PipelineSize)].skipped
            = NoSchedule.skipped
      BY <3>1 DEF ScheduleType
    <3>3. QED BY <1>1, <3>1, <3>2 DEF BeginSchedule, EndSchedule
  <2>3. QED BY <2>1, <2>2
<1>2. CASE RunningSkip \/ RunningPick \/ RunningDone \/ WaitingGrammar
  BY <1>2, ScheduleFields DEF RunningSkip, RunningPick, RunningDone, WaitingGrammar,
     ScheduleType
<1>3. CASE RunningSchedule \/ RunningPreempt \/ WaitingAdmit
  BY <1>3, RunningScheduleEffect, RunningPreemptEffect, WaitingAdmitEffect
<1>4. CASE UpdateStep \/ ResetStep \/ ClientStep \/ UNCHANGED vars
  BY <1>4 DEF UpdateStep, ResetStep, ClientStep, vars, BeginUpdate, UpdateSkip,
     UpdateContinue, UpdateFinish, UpdateSession, EndUpdate, BeginReset, ResetPreempt,
     EndReset, AddRequest, FinishRequests, StreamingUpdate, GrammarReady
<1>5. QED BY <1>1, <1>2, <1>3, <1>4

LEMMA SkippedStep ==
    ASSUME IInv, SkippedInLoop, [Next]_vars
    PROVE  SkippedInLoop'
<1>1. CASE LeaveWaitingLoop
  BY <1>1, ScheduleFields DEF IInv, LeaveWaitingLoop, ScheduleType, SkippedInLoop
<1>2. CASE WaitingSkip \/ WaitingGrammar \/ WaitingAdmit
  BY <1>2 DEF WaitingSkip, WaitingGrammar, WaitingAdmit, InWaitingLoop, SkippedInLoop
<1>3. CASE \/ BeginSchedule \/ RunningSkip \/ RunningPick \/ RunningSchedule
           \/ RunningPreempt \/ RunningDone \/ EndSchedule \/ UpdateStep \/ ResetStep
           \/ ClientStep \/ UNCHANGED vars
  <2>1. sch'.skipped = sch.skipped
    BY <1>3, SkippedKept
  <2>2. phase = "waiting" => phase' = "waiting"
    BY <1>3 DEF BeginSchedule, RunningSkip, RunningPick, RunningSchedule, RunningPreempt,
       RunningDone, EndSchedule, InRunningLoop, UpdateStep, ResetStep, ClientStep, vars,
       BeginUpdate, UpdateSkip, UpdateContinue, UpdateFinish, UpdateSession, EndUpdate,
       Visit, BeginReset, ResetPreempt, EndReset, BetweenSteps, AddRequest,
       FinishRequests, StreamingUpdate, GrammarReady
  <2>3. QED BY <2>1, <2>2 DEF SkippedInLoop
<1>4. WaitingBlocked \/ WaitingDone => LeaveWaitingLoop
  BY DEF WaitingBlocked, WaitingDone
<1>5. QED BY <1>1, <1>2, <1>3, <1>4 DEF Next, ScheduleStep

--------------------------------------------------------------------------------
(* The actions on the queue *)

LEMMA SameStatusSamePlace ==
    ASSUME NEW s, req'[s].status = req[s].status
    PROVE  SamePlace(s)
BY DEF SamePlace, Waits, Live

LEMMA QueueUntouched ==
    ASSUME waiting' = waiting, sch'.skipped = sch.skipped,
           \A s \in Requests : SamePlace(s)
    PROVE  QueueMoves
BY DEF QueueMoves, QueueKept, Queued

LEMMA QueueOfQuietScheduling ==
    ASSUME IInv, SkippedInLoop,
           \/ BeginSchedule \/ RunningSkip \/ RunningPick \/ RunningSchedule
           \/ RunningDone \/ WaitingGrammar \/ EndSchedule
    PROVE  QueueMoves
<1> USE DEF IInv
<1>1. sch'.skipped = sch.skipped
  BY SkippedKept
<1>2. waiting' = waiting
  BY DEF BeginSchedule, RunningSkip, RunningPick, RunningSchedule, RunningDone,
     WaitingGrammar, EndSchedule, requestVars
<1>3. \A s \in Requests : SamePlace(s)
  <2>1. CASE WaitingGrammar
    <3>1. PICK i \in DOMAIN waiting :
            /\ req[waiting[i]].status = "WAITING_FOR_FSM"
            /\ req' = [req EXCEPT ![waiting[i]].status = "WAITING"]
      BY <2>1 DEF WaitingGrammar
    <3>2. waiting[i] \in Requests
      BY WaitingElements
    <3>3. req'[waiting[i]].status = "WAITING" /\ Others(waiting[i])
      BY <3>1, <3>2, RequestFields DEF TypeOK, RequestType, Others
    <3>4. QED BY <3>1, <3>2, <3>3 DEF Others, SamePlace, Waits, Live
  <2>2. CASE ~WaitingGrammar
    <3>1. \A s \in Requests : req'[s].status = req[s].status
      BY <2>2, RunningScheduleKeeps, EndScheduleKeeps
      DEF BeginSchedule, RunningSkip, RunningPick, RunningDone, KeepsStatus, requestVars
    <3>2. QED BY <3>1, SameStatusSamePlace
  <2>3. QED BY <2>1, <2>2
<1>4. QED BY <1>1, <1>2, <1>3, QueueUntouched

\* What is skipped stays in its place in a FCFS queue.
LEMMA QueueOfWaitingSkip ==
    ASSUME TypeOK, WaitingAgreement, WaitingSkip
    PROVE  QueueMoves
<1>1. PICK i \in DOMAIN waiting :
        /\ IsHead(i) /\ waiting' = RemoveAt(waiting, i)
        /\ sch' = [sch EXCEPT !.skipped = Append(@, waiting[i])]
  BY DEF WaitingSkip
<1> DEFINE r == waiting[i]
<1>2. /\ r \in Requests /\ waiting \in Seq(Requests) /\ sch.skipped \in Seq(Requests)
      /\ i \in 1 .. Len(waiting)
  <2>1. waiting \in Seq(Requests) /\ sch.skipped \in Seq(Requests)
    BY ScheduleFields DEF TypeOK
  <2>2. DOMAIN waiting = 1 .. Len(waiting)
    BY <2>1
  <2>3. QED BY <2>1, <2>2, WaitingElements
<1>3. sch'.skipped = Append(sch.skipped, r)
  BY <1>1, ScheduleFields DEF ScheduleType
<1>4. \A s \in Requests : SamePlace(s)
  BY SameStatusSamePlace DEF WaitingSkip
<1>5. Queued' = Append(sch.skipped, r) \o RemoveAt(waiting, i)
  BY <1>1, <1>3 DEF Queued
<1>6. CASE Policy = "fcfs"
  <2>1. i = 1 /\ waiting # <<>>
    BY <1>1, <1>2, <1>6 DEF IsHead
  <2>2. Queued' = Queued
    BY <1>2, <1>5, <2>1, HeadMoves DEF Queued
  <2>3. QED BY <1>4, <2>2 DEF QueueMoves, QueueKept
<1>7. CASE Policy = "priority"
  <2>1. /\ NoDuplicates(sch.skipped) /\ NoDuplicates(waiting)
        /\ ToSet(sch.skipped) \cap ToSet(waiting) = {}
    BY QueuedType, AgreementOfWaiting
  <2>2. r \in ToSet(waiting)
    BY <1>2 DEF ToSet
  <2> DEFINE a == Append(sch.skipped, r)
             u == RemoveAt(waiting, i)
  <2>3. /\ a \in Seq(Requests) /\ ToSet(a) = ToSet(sch.skipped) \cup {r}
        /\ NoDuplicates(a)
    BY <1>2, <2>1, <2>2, AppendElements
  <2>4. u \in Seq(Requests)
    BY <1>2, RemoveAtIsSeq
  <2>5. ToSet(u) = ToSet(waiting) \ {r} /\ NoDuplicates(u)
    BY <1>2, <2>1, RemoveAtElements
  <2> HIDE DEF a, u, r
  <2>6. ToSet(a) \cap ToSet(u) = {}
    BY <2>1, <2>3, <2>5
  <2>7. a \o u \in Seq(Requests) /\ ToSet(a \o u) = ToSet(a) \cup ToSet(u)
        /\ NoDuplicates(a \o u)
    BY <2>3, <2>4, <2>5, <2>6, ConcatElements
  <2>8. ToSet(a \o u) = ToSet(Queued)
    BY <2>2, <2>3, <2>5, <2>7, QueuedType
  <2>9. Queued' = a \o u
    BY <1>5 DEF a, u, r
  <2>10. QED BY <1>4, <1>7, <2>7, <2>8, <2>9 DEF QueueMoves, QueueKept
<1>8. QED BY <1>6, <1>7, ConfigAssumption

LEMMA QueueOfWaitingAdmit ==
    ASSUME IInv, WaitingAdmit
    PROVE  QueueMoves
<1> USE DEF IInv
<1>1. PICK i \in DOMAIN waiting, r \in Requests :
        /\ r = waiting[i] /\ Others(r) /\ req'[r].status = "RUNNING"
        /\ sch'.skipped = sch.skipped /\ waiting' = RemoveAt(waiting, i)
  BY WaitingAdmitEffect
<1>2. waiting \in Seq(Requests) /\ sch.skipped \in Seq(Requests) /\ i \in 1 .. Len(waiting)
  <2>1. waiting \in Seq(Requests) /\ sch.skipped \in Seq(Requests)
    BY ScheduleFields DEF TypeOK
  <2>2. DOMAIN waiting = 1 .. Len(waiting)
    BY <2>1
  <2>3. QED BY <2>1, <2>2
<1>3. /\ Len(sch.skipped) + i \in 1 .. Len(Queued) /\ Queued[Len(sch.skipped) + i] = r
      /\ sch.skipped \o RemoveAt(waiting, i) = RemoveAt(Queued, Len(sch.skipped) + i)
  <2> DEFINE s == sch.skipped
             t == waiting
  <2>1. s \in Seq(Requests) /\ t \in Seq(Requests) /\ i \in 1 .. Len(t)
    BY <1>2
  <2> HIDE DEF s, t
  <2>2. /\ Len(s) + i \in 1 .. Len(s \o t) /\ (s \o t)[Len(s) + i] = t[i]
        /\ s \o RemoveAt(t, i) = RemoveAt(s \o t, Len(s) + i)
    BY <2>1, RemoveAtConcat
  <2>3. QED BY <1>1, <2>2, Zenon DEF Queued, s, t
<1>4. Queued' = RemoveAt(Queued, Len(sch.skipped) + i)
  <2>1. Queued' = sch.skipped \o RemoveAt(waiting, i)
    BY <1>1 DEF Queued
  <2>2. QED BY <1>3, <2>1
<1>5. Len(sch.skipped) + i \in DOMAIN Queued
  BY <1>3, QueuedType
<1>6. \A s \in Requests \ {r} : SamePlace(s)
  BY <1>1, SameStatusSamePlace DEF Others
<1>7. ~Waits(r)' /\ req'[r].status # "PREEMPTED"
  BY <1>1 DEF Waits
<1>8. QueueLoses(r)
  BY <1>3, <1>4, <1>5, <1>6, <1>7 DEF QueueLoses
<1>9. QED BY <1>1, <1>8 DEF QueueMoves

LEMMA QueueOfLeaveWaitingLoop ==
    ASSUME TypeOK, LeaveWaitingLoop
    PROVE  QueueMoves
<1>1. waiting' = Queued /\ sch'.skipped = <<>>
  BY ScheduleFields DEF LeaveWaitingLoop, ScheduleType, Queued
<1>2. Queued' = Queued
  BY <1>1, QueuedType DEF Queued
<1>3. \A s \in Requests : SamePlace(s)
  BY SameStatusSamePlace DEF LeaveWaitingLoop
<1>4. QED BY <1>2, <1>3 DEF QueueMoves, QueueKept

\* A preempted request joins the queue at its head.
LEMMA QueueOfPreempt ==
    ASSUME IInv, SkippedInLoop, RunningPreempt \/ ResetPreempt
    PROVE  QueueMoves
<1> USE DEF IInv
<1>1. PICK v \in Requests :
        /\ req[v].status = "RUNNING" /\ Others(v) /\ req'[v].status = "PREEMPTED"
        /\ waiting' = Prepended(v) /\ sch'.skipped = sch.skipped
  BY RunningPreemptEffect, ResetPreemptEffect, SkippedKept DEF ResetStep
<1>2. phase # "waiting"
  BY DEF RunningPreempt, ResetPreempt
<1>3. Queued = waiting /\ sch.skipped = <<>>
  BY <1>2, QueuedOutside
<1>4. waiting \in Seq(Requests) /\ <<v>> \o waiting \in Seq(Requests)
  BY DEF TypeOK
<1>5. Queued' = <<v>> \o Queued
  <2>1. Queued' = <<>> \o (<<v>> \o waiting)
    BY <1>1, <1>3 DEF Queued, Prepended
  <2>2. QED BY <1>3, <1>4, <2>1
<1>6. \A s \in Requests \ {v} : SamePlace(s)
  BY <1>1, SameStatusSamePlace DEF Others
<1>7. QueueGains(v)
  BY <1>1, <1>5, <1>6 DEF QueueGains, Waits, Live
<1>8. QED BY <1>7 DEF QueueMoves

\* A request that finishes leaves the queue, if it was in it.
LEMMA QueueOfLeaving ==
    ASSUME TypeOK, SkippedInLoop, phase # "waiting", sch' = sch, NEW r \in Requests,
           Others(r), req'[r].status = "FINISHED", RemoveFromQueues(r)
    PROVE  QueueMoves
<1>1. Queued = waiting /\ sch.skipped = <<>>
  BY QueuedOutside
<1>2. \A s \in Requests \ {r} : SamePlace(s)
  BY SameStatusSamePlace DEF Others
<1>3. CASE req[r].status = "RUNNING"
  <2>1. SamePlace(r)
    BY <1>3 DEF SamePlace, Waits, Live
  <2>2. waiting' = waiting
    BY <1>3 DEF RemoveFromQueues
  <2>3. QED BY <1>2, <2>1, <2>2, QueueUntouched
<1>4. CASE req[r].status # "RUNNING"
  <2>1. waiting' = Without(waiting, r)
    BY <1>4 DEF RemoveFromQueues
  <2>2. Without(waiting, r) \in Seq(Requests)
    BY WithoutElements DEF TypeOK
  <2>3. Queued' = Without(Queued, r)
    BY <1>1, <2>1, <2>2 DEF Queued
  <2>4. ~Waits(r)' /\ req'[r].status # "PREEMPTED"
    BY DEF Waits, Live
  <2>5. QueueLoses(r)
    BY <1>2, <2>3, <2>4 DEF QueueLoses
  <2>6. QED BY <2>5 DEF QueueMoves
<1>5. QED BY <1>3, <1>4

\* A session whose answer arrives runs.
LEMMA AnsweredSessionRuns ==
    ASSUME IInv, SessionsInStep, NEW r \in Resumable, Visit(r), Live(r),
           r \in Head(batch_queue).sampled
    PROVE  req[r].status = "RUNNING"
<1>1. r \in Requests
  BY RequestsAssumption
<1>2. 1 \in DOMAIN batch_queue /\ Head(batch_queue) = batch_queue[1] /\ Unvisited(1, r)
  BY <1>1, AnswerInProgress DEF Visit, Unvisited
<1>3. QED BY <1>2 DEF SessionsInStep

LEMMA QueueOfUpdateSession ==
    ASSUME IInv, SkippedInLoop, SessionsInStep, NEW r \in Requests, UpdateSession(r)
    PROVE  QueueMoves
<1> USE DEF IInv
<1>1. Others(r) /\ req'[r].status \in {"WAITING", "WAITING_FOR_STREAMING_REQ"}
  BY UpdateSessionEffect
<1>2. req[r].status = "RUNNING"
  BY AnsweredSessionRuns DEF UpdateSession
<1>3. waiting' = Append(waiting, r) /\ sch' = sch /\ phase = "update"
  BY <1>2 DEF UpdateSession, RequeueSession, Visit
<1>4. Queued = waiting /\ sch.skipped = <<>>
  BY <1>3, QueuedOutside
<1>5. Append(waiting, r) \in Seq(Requests)
  BY DEF TypeOK
<1>6. Queued' = Append(Queued, r)
  BY <1>3, <1>4, <1>5 DEF Queued
<1>7. \A s \in Requests \ {r} : SamePlace(s)
  BY <1>1, SameStatusSamePlace DEF Others
<1>8. QueueGains(r)
  BY <1>1, <1>2, <1>6, <1>7 DEF QueueGains, Waits, Live
<1>9. QED BY <1>8 DEF QueueMoves

LEMMA QueueOfAddRequest ==
    ASSUME IInv, SkippedInLoop, NEW r \in Requests, AddRequest(r)
    PROVE  QueueMoves
<1> USE DEF IInv
<1>1. Others(r) /\ req'[r].status \in {"WAITING", "WAITING_FOR_FSM"}
  BY AddRequestEffect
<1>2. /\ req[r].status = "NONE" /\ waiting' = Append(waiting, r) /\ sch' = sch
      /\ phase = "engine"
  BY DEF AddRequest, BetweenSteps
<1>3. Queued = waiting /\ sch.skipped = <<>>
  BY <1>2, QueuedOutside
<1>4. Append(waiting, r) \in Seq(Requests)
  BY DEF TypeOK
<1>5. Queued' = Append(Queued, r)
  BY <1>2, <1>3, <1>4 DEF Queued
<1>6. \A s \in Requests \ {r} : SamePlace(s)
  BY <1>1, SameStatusSamePlace DEF Others
<1>7. QueueGains(r)
  BY <1>1, <1>2, <1>5, <1>6 DEF QueueGains, Waits, Live
<1>8. QED BY <1>7 DEF QueueMoves

LEMMA QueueOfStreamingUpdate ==
    ASSUME IInv, SkippedInLoop, NEW r \in Requests, StreamingUpdate(r)
    PROVE  QueueMoves
<1> USE DEF IInv
<1>1. sch' = sch /\ phase = "engine"
  BY DEF StreamingUpdate, BetweenSteps
<1>2. CASE Finished(r)
  BY <1>1, <1>2, FinishedEffect, QueueOfLeaving DEF Finished
<1>3. CASE ~Finished(r)
  <2>1. /\ Others(r) /\ waiting' = waiting
        /\ \/ req'[r].status = req[r].status
           \/ req[r].status = "WAITING_FOR_STREAMING_REQ" /\ req'[r].status = "WAITING"
    BY <1>3, StreamingUpdateEffect
  <2>2. \A s \in Requests : SamePlace(s)
    BY <2>1 DEF Others, SamePlace, Waits, Live
  <2>3. QED BY <1>1, <2>1, <2>2, QueueUntouched
<1>4. QED BY <1>2, <1>3

LEMMA QueueStep ==
    ASSUME IInv, SkippedInLoop, SessionsInStep, WaitingAgreement, [Next]_vars
    PROVE  QueueMoves
<1> USE DEF IInv
<1>1. CASE \/ BeginUpdate \/ EndUpdate \/ BeginReset \/ EndReset
           \/ \E r \in Requests : UpdateSkip(r) \/ UpdateContinue(r) \/ GrammarReady(r)
           \/ UNCHANGED vars
  <2>1. \A s \in Requests : req'[s].status = req[s].status
    BY <1>1, EndUpdateKeeps, UpdateContinueKeeps
    DEF BeginUpdate, BeginReset, EndReset, UpdateSkip, GrammarReady, KeepsStatus, vars,
        requestVars
  <2>2. waiting' = waiting /\ sch' = sch
    BY <1>1 DEF BeginUpdate, EndUpdate, BeginReset, EndReset, UpdateSkip, UpdateContinue,
       GrammarReady, vars, requestVars
  <2>3. QED BY <2>1, <2>2, SameStatusSamePlace, QueueUntouched
<1>2. ASSUME NEW r \in Requests, UpdateFinish(r) \/ FinishRequests(r)
      PROVE  QueueMoves
  <2>1. Others(r) /\ req'[r].status = "FINISHED"
    BY <1>2, UpdateFinishEffect, FinishedEffect DEF FinishRequests
  <2>2. phase # "waiting" /\ sch' = sch /\ RemoveFromQueues(r)
    BY <1>2 DEF UpdateFinish, FinishRequests, Finished, Visit
  <2>3. QED BY <2>1, <2>2, QueueOfLeaving
<1>3. ASSUME NEW r \in Requests, UpdateSession(r) \/ AddRequest(r) \/ StreamingUpdate(r)
      PROVE  QueueMoves
  BY <1>3, QueueOfUpdateSession, QueueOfAddRequest, QueueOfStreamingUpdate
<1>4. WaitingBlocked \/ WaitingDone => LeaveWaitingLoop
  BY DEF WaitingBlocked, WaitingDone
<1>5. QED
  BY <1>1, <1>2, <1>3, <1>4, QueueOfQuietScheduling, QueueOfWaitingSkip,
     QueueOfWaitingAdmit, QueueOfLeaveWaitingLoop, QueueOfPreempt
  DEF Next, ScheduleStep, UpdateStep, ResetStep, ClientStep

--------------------------------------------------------------------------------
(* One step in flight *)

\* What SessionsInStep says of an engine with one step in flight.
OneStep == Len(batch_queue) <= 1 /\ (batch_queue # <<>> => phase \in {"engine", "update"})

LEMMA OneStepStep ==
    ASSUME IInv, OneStep, PipelineDepth = 1, [Next]_vars
    PROVE  OneStep'
<1> USE DEF IInv
<1>1. /\ batch_queue \in Seq(OutputType) /\ Len(batch_queue) \in Nat
      /\ Len(batch_queue) < 1 => batch_queue = <<>>
  BY DEF TypeOK
<1>2. CASE EndSchedule
  <2>1. batch_queue = <<>>
    BY <1>2 DEF EndSchedule, OneStep
  <2>2. batch_queue' = <<StepOutput>>
    BY <1>2, <2>1 DEF EndSchedule
  <2>3. QED BY <1>2, <2>2 DEF EndSchedule, OneStep
<1>3. CASE EndUpdate
  <2>1. batch_queue # <<>> /\ batch_queue' = Tail(batch_queue) /\ phase' = "engine"
    BY <1>3 DEF EndUpdate, UpdatesAnOutput
  <2>2. Len(batch_queue') = Len(batch_queue) - 1
    BY <1>1, <2>1
  <2>3. QED BY <1>1, <2>1, <2>2 DEF OneStep
<1>4. CASE BeginSchedule \/ BeginReset
  <2>1. batch_queue = <<>> /\ batch_queue' = batch_queue
    BY <1>1, <1>4 DEF BeginSchedule, BeginReset, BetweenSteps, stepVars
  <2>2. QED BY <2>1 DEF OneStep
<1>5. CASE ScheduleStep /\ ~BeginSchedule /\ ~EndSchedule
  <2>1. phase \in {"running", "allocate", "waiting", "close"} /\ batch_queue' = batch_queue
    BY <1>5 DEF ScheduleStep, RunningSkip, RunningPick, RunningSchedule,
       RunningPreempt, RunningDone, WaitingGrammar, WaitingSkip, WaitingAdmit,
       WaitingBlocked, WaitingDone, LeaveWaitingLoop, InRunningLoop, InWaitingLoop, stepVars
  <2>2. QED BY <2>1 DEF OneStep
<1>6. CASE \/ UpdateStep /\ ~EndUpdate
           \/ ResetPreempt \/ EndReset \/ ClientStep \/ UNCHANGED vars
  <2>1. /\ batch_queue' = batch_queue
        /\ phase' = phase \/ phase' \in {"engine", "update"}
    BY <1>6 DEF UpdateStep, BeginUpdate, UpdateSkip, UpdateContinue, UpdateFinish,
       UpdateSession, ResetPreempt, EndReset, ClientStep, AddRequest, FinishRequests,
       StreamingUpdate, GrammarReady, vars, stepVars
  <2>2. QED BY <2>1 DEF OneStep
<1>7. QED
  BY <1>2, <1>3, <1>4, <1>5, <1>6 DEF Next, UpdateStep, ResetStep

\* While a step is in flight, nothing but its answer and an abort concerns a session
\* it samples.
LEMMA SampledSessionRuns ==
    ASSUME IInv, SessionsInStep, OneStep, PipelineDepth = 1, [Next]_vars,
           batch_queue' = batch_queue,
           NEW r \in Resumable, NEW i \in DOMAIN batch_queue,
           r \in batch_queue[i].sampled, Live(r)', Unvisited(i, r)'
    PROVE  /\ req[r].status = "RUNNING" /\ req'[r].status = "RUNNING"
           /\ Unvisited(i, r) /\ phase \in {"engine", "update"}
           /\ req'[r] = req[r]
<1> USE DEF IInv
<1>1. /\ batch_queue \in Seq(OutputType) /\ Len(batch_queue) = 1 /\ i = 1
      /\ r \in Requests /\ phase \in {"engine", "update"} /\ ~BetweenSteps
  <2>1. batch_queue \in Seq(OutputType) /\ DOMAIN batch_queue = 1 .. Len(batch_queue)
    BY DEF TypeOK
  <2>2. Len(batch_queue) = 1 /\ i = 1 /\ batch_queue # <<>>
    BY <2>1 DEF OneStep
  <2>3. QED BY <2>1, <2>2, RequestsAssumption DEF OneStep, BetweenSteps
<1>2. CASE \/ BeginUpdate \/ EndReset \/ UNCHANGED vars
           \/ \E s \in Requests : UpdateSkip(s) \/ GrammarReady(s)
  <2>1. req' = req
    BY <1>2 DEF BeginUpdate, EndReset, UpdateSkip, GrammarReady, vars, requestVars
  <2>2. Unvisited(i, r)
    BY <1>2 DEF BeginUpdate, EndReset, UpdateSkip, Visit, GrammarReady, vars, Unvisited
  <2>3. QED BY <1>1, <2>1, <2>2 DEF SessionsInStep, Live
<1>3. ASSUME NEW s \in Requests, UpdateContinue(s) \/ UpdateFinish(s) \/ UpdateSession(s)
      PROVE  /\ req[r].status = "RUNNING" /\ req'[r].status = "RUNNING"
             /\ Unvisited(i, r) /\ req'[r] = req[r]
  <2>1. /\ phase = "update" /\ phase' = "update" /\ pending' = pending \ {s}
        /\ Others(s)
    BY <1>3, UpdateContinueEffect, UpdateFinishEffect, UpdateSessionEffect
    DEF UpdateContinue, UpdateFinish, UpdateSession, Visit
  <2>2. r # s /\ Unvisited(i, r)
    BY <1>1, <2>1 DEF Unvisited
  <2>3. req'[r] = req[r]
    BY <1>1, <2>1, <2>2 DEF Others
  <2>4. QED BY <2>2, <2>3 DEF SessionsInStep, Live
<1>4. CASE EndUpdate
  <2>1. Tail(batch_queue) = batch_queue
    BY <1>4 DEF EndUpdate
  <2>2. Len(Tail(batch_queue)) = Len(batch_queue) - 1
    BY <1>1
  <2>3. Len(Tail(batch_queue)) = 1
    BY <1>1, <2>1
  <2>4. QED BY <1>1, <2>2, <2>3
<1>5. ASSUME NEW s \in Requests, FinishRequests(s)
      PROVE  /\ req[r].status = "RUNNING" /\ req'[r].status = "RUNNING"
             /\ Unvisited(i, r) /\ req'[r] = req[r]
  <2>1. /\ Others(s) /\ req'[s].status = "FINISHED" /\ phase = "engine"
    BY <1>5, FinishedEffect DEF FinishRequests
  <2>2. r # s /\ req'[r] = req[r]
    BY <1>1, <2>1 DEF Live, Others
  <2>3. QED BY <2>1, <2>2 DEF SessionsInStep, Live, Unvisited
<1>6. ~BeginSchedule /\ ~BeginReset /\ ~ResetPreempt
      /\ \A s \in Requests : ~AddRequest(s) /\ ~StreamingUpdate(s)
  BY <1>1 DEF BeginSchedule, BeginReset, ResetPreempt, AddRequest, StreamingUpdate,
     BetweenSteps
<1>7. ~ScheduleStep
  BY <1>1, <1>6 DEF ScheduleStep, RunningSkip, RunningPick, RunningSchedule,
     RunningPreempt, RunningDone, WaitingGrammar, WaitingSkip, WaitingAdmit,
     WaitingBlocked, WaitingDone, InRunningLoop, InWaitingLoop, EndSchedule
<1>8. QED
  BY <1>1, <1>2, <1>3, <1>4, <1>5, <1>6, <1>7
  DEF Next, UpdateStep, ResetStep, ClientStep

LEMMA SessionsStep ==
    ASSUME OneStepOrNoSessions, IInv, SessionsInStep, [Next]_vars
    PROVE  SessionsInStep'
<1> USE DEF IInv
<1>1. PipelineDepth = 1 => OneStep /\ OneStep'
  BY OneStepStep DEF SessionsInStep, OneStep
<1>2. ASSUME NEW r \in Resumable, NEW i \in DOMAIN batch_queue',
             r \in batch_queue'[i].sampled, Live(r)', Unvisited(i, r)'
      PROVE  req'[r].status = "RUNNING"
  <2>1. PipelineDepth = 1 /\ OneStep /\ r \in Requests
    BY <1>1, RequestsAssumption DEF OneStepOrNoSessions
  <2>2. CASE batch_queue' = batch_queue
    BY <1>2, <2>1, <2>2, SampledSessionRuns
  <2>3. CASE EndSchedule
    <3>1. batch_queue' = <<StepOutput>>
      <4>1. batch_queue = <<>>
        BY <2>1, <2>3 DEF EndSchedule, OneStep
      <4>2. QED BY <2>3, <4>1 DEF EndSchedule
    <3>2. batch_queue'[i] = StepOutput
      BY <1>2, <3>1
    <3>3. Samples(r)
      BY <1>2, <3>2 DEF StepOutput
    <3>4. req[r].status = "RUNNING"
      BY <2>1, <3>3, ScheduleFields DEF Samples, ScheduledAreRunning
    <3>5. QED BY <2>1, <2>3, <3>4, EndScheduleKeeps DEF KeepsStatus
  <2>4. CASE EndUpdate
    <3>1. batch_queue' = Tail(batch_queue) /\ batch_queue # <<>>
          /\ Len(batch_queue) <= 1 /\ batch_queue \in Seq(OutputType)
      BY <2>1, <2>4 DEF EndUpdate, UpdatesAnOutput, OneStep, TypeOK
    <3>2. batch_queue' = <<>>
      BY <3>1
    <3>3. QED BY <1>2, <3>2
  <2>5. batch_queue' = batch_queue \/ EndSchedule \/ EndUpdate
    BY DEF Next, ScheduleStep, UpdateStep, ResetStep, ClientStep, BeginSchedule,
       RunningSkip, RunningPick, RunningSchedule, RunningPreempt, RunningDone,
       WaitingGrammar, WaitingSkip, WaitingAdmit, WaitingBlocked, WaitingDone,
       LeaveWaitingLoop, BeginUpdate, UpdateSkip, UpdateContinue, UpdateFinish,
       UpdateSession, BeginReset, ResetPreempt, EndReset, AddRequest, FinishRequests,
       StreamingUpdate, GrammarReady, vars, stepVars
  <2>6. QED BY <2>2, <2>3, <2>4, <2>5
<1>3. QED BY <1>1, <1>2 DEF SessionsInStep, OneStep

--------------------------------------------------------------------------------
(* Sessions parked without input *)

ParkedOrNot(s) ==
    req'[s].status = "WAITING_FOR_STREAMING_REQ"
        <=> req[s].status = "WAITING_FOR_STREAMING_REQ"

CountMoves ==
    \/ Parked' = Parked /\ UNCHANGED num_waiting_for_streaming_input
    \/ \E r \in Requests \ Parked :
          /\ Parked' = Parked \cup {r}
          /\ num_waiting_for_streaming_input' = num_waiting_for_streaming_input + 1
    \/ \E r \in Parked :
          /\ Parked' = Parked \ {r}
          /\ num_waiting_for_streaming_input' = num_waiting_for_streaming_input - 1

LEMMA CountMovesKeep ==
    ASSUME IsFiniteSet(Parked), StreamingCounter, CountMoves
    PROVE  (IsFiniteSet(Parked) /\ StreamingCounter)'
<1>1. num_waiting_for_streaming_input = Cardinality(Parked)
  BY DEF StreamingCounter, Parked
<1>2. Cardinality(Parked) \in Nat
  BY FS_CardinalityType
<1>3. IsFiniteSet(Parked') /\ num_waiting_for_streaming_input' = Cardinality(Parked')
  <2>1. CASE Parked' = Parked /\ UNCHANGED num_waiting_for_streaming_input
    BY <1>1, <2>1
  <2>2. ASSUME NEW r \in Requests \ Parked, Parked' = Parked \cup {r},
               num_waiting_for_streaming_input' = num_waiting_for_streaming_input + 1
        PROVE  IsFiniteSet(Parked') /\ num_waiting_for_streaming_input' = Cardinality(Parked')
    BY <1>1, <2>2, FS_AddElement
  <2>3. ASSUME NEW r \in Parked, Parked' = Parked \ {r},
               num_waiting_for_streaming_input' = num_waiting_for_streaming_input - 1
        PROVE  IsFiniteSet(Parked') /\ num_waiting_for_streaming_input' = Cardinality(Parked')
    BY <1>1, <2>3, FS_RemoveElement
  <2>4. QED BY <2>1, <2>2, <2>3 DEF CountMoves
<1>4. QED BY <1>3 DEF StreamingCounter, Parked

LEMMA CountUntouched ==
    ASSUME \A s \in Requests : ParkedOrNot(s), UNCHANGED num_waiting_for_streaming_input
    PROVE  CountMoves
<1>1. Parked' = Parked
  BY DEF Parked, ParkedOrNot
<1>2. QED BY <1>1 DEF CountMoves

LEMMA QuietKeepsParked ==
    ASSUME IInv, Quiet
    PROVE  CountMoves
<1> USE DEF IInv
<1>1. UNCHANGED num_waiting_for_streaming_input
  BY DEF Quiet, ScheduleStep, ResetStep, BeginSchedule, RunningSkip, RunningPick,
     RunningSchedule, RunningPreempt, RunningDone, WaitingGrammar, WaitingSkip,
     WaitingAdmit, WaitingBlocked, WaitingDone, LeaveWaitingLoop, EndSchedule,
     BeginUpdate, EndUpdate, UpdateSkip, BeginReset, ResetPreempt, EndReset,
     GrammarReady, vars, requestVars
<1>2. \A s \in Requests : req'[s].status = "WAITING_FOR_STREAMING_REQ" =>
                             req[s].status = "WAITING_FOR_STREAMING_REQ"
  BY QuietKeepsAnswers DEF KeepsAnswer
<1>3. \A s \in Requests :
         req[s].status = "WAITING_FOR_STREAMING_REQ" => req'[s].status = req[s].status
  <2>1. CASE RunningPreempt \/ ResetPreempt
    <3>1. PICK v \in Requests : req[v].status = "RUNNING" /\ Others(v)
      BY <2>1, RunningPreemptEffect, ResetPreemptEffect
    <3>2. QED BY <3>1 DEF Others
  <2>2. CASE WaitingGrammar
    <3>1. PICK i \in DOMAIN waiting :
            /\ req[waiting[i]].status = "WAITING_FOR_FSM"
            /\ req' = [req EXCEPT ![waiting[i]].status = "WAITING"]
      BY <2>2 DEF WaitingGrammar
    <3>2. QED BY <3>1 DEF TypeOK
  <2>3. CASE WaitingAdmit
    <3>1. PICK r \in Requests : req[r].status \in {"WAITING", "PREEMPTED"} /\ Others(r)
      BY <2>3, WaitingAdmitEffect
    <3>2. QED BY <3>1 DEF Others
  <2>4. CASE RunningSchedule \/ EndSchedule \/ EndUpdate
    BY <2>4, RunningScheduleKeeps, EndScheduleKeeps, EndUpdateKeeps DEF KeepsStatus
  <2>5. CASE \/ BeginSchedule \/ RunningSkip \/ RunningPick \/ RunningDone \/ WaitingSkip
             \/ WaitingBlocked \/ WaitingDone \/ BeginUpdate \/ BeginReset \/ EndReset
             \/ \E r \in Requests : UpdateSkip(r) \/ GrammarReady(r)
             \/ UNCHANGED vars
    BY <2>5 DEF BeginSchedule, RunningSkip, RunningPick, RunningDone, WaitingSkip,
       WaitingBlocked, WaitingDone, LeaveWaitingLoop, BeginUpdate, BeginReset, EndReset,
       UpdateSkip, GrammarReady, vars, requestVars
  <2>6. QED BY <2>1, <2>2, <2>3, <2>4, <2>5 DEF Quiet, ScheduleStep, ResetStep
<1>4. QED BY <1>1, <1>2, <1>3, CountUntouched DEF ParkedOrNot

\* An answered request was not parked.
LEMMA AnsweredIsNotParked ==
    ASSUME ServiceInv, SessionsInStep, NEW r \in Requests, Visit(r), Live(r),
           r \in Head(batch_queue).sampled
    PROVE  req[r].status # "WAITING_FOR_STREAMING_REQ"
BY AnsweredSessionRuns DEF ServiceInv, OrdinaryAnswers, Ordinary

LEMMA CountOfUpdate ==
    ASSUME ServiceInv, SessionsInStep, NEW r \in Requests,
           UpdateContinue(r) \/ UpdateFinish(r) \/ UpdateSession(r)
    PROVE  CountMoves
<1> USE DEF ServiceInv, IInv
<1>1. req[r].status # "WAITING_FOR_STREAMING_REQ" /\ r \notin Parked
  BY AnsweredIsNotParked DEF UpdateContinue, UpdateFinish, UpdateSession, Parked
<1>2. Others(r)
  BY UpdateContinueEffect, UpdateFinishEffect, UpdateSessionEffect
<1>3. CASE req'[r].status # "WAITING_FOR_STREAMING_REQ"
           /\ UNCHANGED num_waiting_for_streaming_input
  BY <1>1, <1>2, <1>3, CountUntouched DEF ParkedOrNot, Others
<1>4. CASE UpdateContinue(r)
  BY <1>1, <1>3, <1>4, UpdateContinueKeeps DEF KeepsStatus, UpdateContinue
<1>5. CASE UpdateFinish(r)
  <2>1. req'[r].status = "FINISHED"
    BY <1>5, UpdateFinishEffect
  <2>2. QED BY <1>3, <1>5, <2>1 DEF UpdateFinish
<1>6. CASE UpdateSession(r)
  <2>1. CASE HasInput(r)
    <3>1. req'[r].status = "WAITING" /\ UNCHANGED num_waiting_for_streaming_input
      BY <1>6, <2>1, UpdateSessionEffect
    <3>2. QED BY <1>3, <3>1
  <2>2. CASE ~HasInput(r)
    <3>1. /\ req'[r].status = "WAITING_FOR_STREAMING_REQ"
          /\ num_waiting_for_streaming_input' = num_waiting_for_streaming_input + 1
      BY <1>6, <2>2, UpdateSessionEffect
    <3>2. Parked' = Parked \cup {r}
      BY <1>2, <3>1 DEF Parked, Others
    <3>3. QED BY <1>1, <3>1, <3>2 DEF CountMoves
  <2>3. QED BY <2>1, <2>2
<1>7. QED BY <1>4, <1>5, <1>6

LEMMA CountOfLeaving ==
    ASSUME TypeOK, NEW r \in Requests, Finished(r)
    PROVE  CountMoves
<1>1. Others(r) /\ req'[r].status = "FINISHED"
  BY FinishedEffect
<1>2. CASE req[r].status = "WAITING_FOR_STREAMING_REQ"
  <2>1. Parked' = Parked \ {r} /\ r \in Parked
    BY <1>1, <1>2 DEF Parked, Others
  <2>2. num_waiting_for_streaming_input' = num_waiting_for_streaming_input - 1
    BY <1>2 DEF Finished
  <2>3. QED BY <2>1, <2>2 DEF CountMoves
<1>3. CASE req[r].status # "WAITING_FOR_STREAMING_REQ"
  <2>1. \A s \in Requests : ParkedOrNot(s)
    BY <1>1, <1>3 DEF ParkedOrNot, Others
  <2>2. UNCHANGED num_waiting_for_streaming_input
    BY <1>3 DEF Finished, TypeOK
  <2>3. QED BY <2>1, <2>2, CountUntouched
<1>4. QED BY <1>2, <1>3

LEMMA CountOfStreamingUpdate ==
    ASSUME TypeOK, NEW r \in Requests, StreamingUpdate(r)
    PROVE  CountMoves
<1>1. Others(r)
  BY StreamingUpdateEffect
<1>2. CASE Finished(r)
  BY <1>2, CountOfLeaving
<1>3. CASE req'[r].status = req[r].status /\ UNCHANGED num_waiting_for_streaming_input
  <2>1. \A s \in Requests : ParkedOrNot(s)
    BY <1>1, <1>3 DEF ParkedOrNot, Others
  <2>2. QED BY <1>3, <2>1, CountUntouched
<1>4. CASE /\ req[r].status = "WAITING_FOR_STREAMING_REQ" /\ req'[r].status = "WAITING"
           /\ num_waiting_for_streaming_input' = num_waiting_for_streaming_input - 1
  <2>1. Parked' = Parked \ {r} /\ r \in Parked
    BY <1>1, <1>4 DEF Parked, Others
  <2>2. QED BY <1>4, <2>1 DEF CountMoves
<1>5. QED BY <1>2, <1>3, <1>4, StreamingUpdateEffect

LEMMA CountStep ==
    ASSUME ServiceInv, SessionsInStep, [Next]_vars
    PROVE  CountMoves
<1> USE DEF ServiceInv, IInv
<1>1. ASSUME NEW r \in Requests, AddRequest(r)
      PROVE  CountMoves
  <2>1. /\ req[r].status = "NONE" /\ req'[r].status \in {"WAITING", "WAITING_FOR_FSM"}
        /\ Others(r) /\ UNCHANGED num_waiting_for_streaming_input
    BY <1>1, AddRequestEffect DEF AddRequest
  <2>2. \A s \in Requests : ParkedOrNot(s)
    BY <2>1 DEF ParkedOrNot, Others
  <2>3. QED BY <2>1, <2>2, CountUntouched
<1>2. QED
  BY <1>1, QuietKeepsParked, CountOfUpdate, CountOfLeaving, CountOfStreamingUpdate
  DEF Quiet, Next, UpdateStep, ClientStep, FinishRequests

--------------------------------------------------------------------------------
(* The tokens of a session *)

\* An engine with sessions is synchronous and has one step in flight.
LEMMA SessionEngine ==
    ASSUME OneStepOrNoSessions, QueueInv, [Next]_vars, NEW r \in Resumable
    PROVE  r \in Requests /\ ~Async /\ PipelineDepth = 1 /\ OneStep /\ OneStep'
<1>1. r \in Requests /\ ~Async /\ PipelineDepth = 1
  BY RequestsAssumption, EngineAssumption DEF OneStepOrNoSessions
<1>2. OneStep
  BY <1>1 DEF QueueInv, SessionsInStep, OneStep
<1>3. QED BY <1>1, <1>2, OneStepStep DEF QueueInv, ServiceInv

\* How a step in flight comes, stays and goes.
LEMMA StepsInFlight ==
    ASSUME IInv, OneStep, OneStep', [Next]_vars
    PROVE  \/ batch_queue' = batch_queue
           \/ EndSchedule /\ (batch_queue = <<>> => batch_queue' = <<StepOutput>>)
           \/ EndUpdate /\ batch_queue' = <<>>
<1> USE DEF IInv
<1>1. CASE EndSchedule
  <2>1. ASSUME batch_queue = <<>> PROVE batch_queue' = <<StepOutput>>
    BY <1>1, <2>1 DEF EndSchedule
  <2>2. QED BY <1>1, <2>1
<1>2. CASE EndUpdate
  <2>1. /\ batch_queue' = Tail(batch_queue) /\ batch_queue # <<>>
        /\ Len(batch_queue) <= 1 /\ batch_queue \in Seq(OutputType)
    BY <1>2 DEF EndUpdate, UpdatesAnOutput, OneStep, TypeOK
  <2>2. batch_queue' = <<>>
    BY <2>1
  <2>3. QED BY <1>2, <2>2
<1>3. CASE ~EndSchedule /\ ~EndUpdate
  BY <1>3 DEF Next, ScheduleStep, UpdateStep, ResetStep, ClientStep, BeginSchedule,
     RunningSkip, RunningPick, RunningSchedule, RunningPreempt, RunningDone,
     WaitingGrammar, WaitingSkip, WaitingAdmit, WaitingBlocked, WaitingDone,
     LeaveWaitingLoop, BeginUpdate, UpdateSkip, UpdateContinue, UpdateFinish,
     UpdateSession, BeginReset, ResetPreempt, EndReset, AddRequest, FinishRequests,
     StreamingUpdate, GrammarReady, vars, stepVars
<1>4. QED BY <1>1, <1>2, <1>3

\* A session that the step in flight samples is computed to the end of its drafts.
LEMMA SampledSessionComputed ==
    ASSUME OneStepOrNoSessions, QueueInv, SessionTokens, [Next]_vars,
           NEW r \in Resumable, NEW i \in DOMAIN batch_queue',
           r \in batch_queue'[i].sampled, Live(r)', Unvisited(i, r)'
    PROVE  req'[r].tokens + batch_queue'[i].spec[r] <= req'[r].computed
<1> USE DEF QueueInv, ServiceInv, IInv
<1>1. r \in Requests /\ ~Async /\ PipelineDepth = 1 /\ OneStep /\ OneStep'
  BY SessionEngine
<1>2. CASE batch_queue' = batch_queue
  <2>1. /\ req[r].status = "RUNNING" /\ Unvisited(i, r) /\ req'[r] = req[r]
    BY <1>1, <1>2, SampledSessionRuns
  <2>2. Live(r)
    BY <2>1 DEF Live
  <2>3. req[r].tokens + batch_queue[i].spec[r] <= req[r].computed
    BY <1>2, <2>1, <2>2 DEF SessionTokens
  <2>4. QED BY <1>2, <2>1, <2>3
<1>3. CASE EndSchedule /\ (batch_queue = <<>> => batch_queue' = <<StepOutput>>)
  <2>1. batch_queue = <<>>
    BY <1>1, <1>3 DEF EndSchedule, OneStep
  <2>2. batch_queue'[i] = StepOutput
    BY <1>3, <2>1
  <2>3. Samples(r) /\ StepOutput.spec[r] = sch.spec[r]
    BY <2>2 DEF StepOutput
  <2>4. req'[r] = AfterSchedule(r)
    BY <1>1, <1>3 DEF EndSchedule
  <2>5. req'[r].tokens = req[r].tokens /\ req'[r].computed = req[r].computed + sch.num[r]
    BY <1>1, <2>4, AfterScheduleEffect
  <2>6. req[r].tokens + sch.spec[r] <= req[r].computed + sch.num[r]
    BY <1>1, <2>3, RequestFields, ScheduleFields DEF Samples, SessionTokens
  <2>7. QED BY <2>2, <2>3, <2>5, <2>6
<1>4. CASE EndUpdate /\ batch_queue' = <<>>
  BY <1>4
<1>5. QED BY <1>1, <1>2, <1>3, <1>4, StepsInFlight

\* Nothing but an answer and a client changes the tokens of a session.
LEMMA QuietKeepsSession ==
    ASSUME IInv, Quiet, ~Async, NEW r \in Requests
    PROVE  /\ req'[r].placeholders \in {0, req[r].placeholders}
           /\ req[r].status = "WAITING_FOR_STREAMING_REQ"
                  => req'[r].computed = req[r].computed
<1> USE DEF IInv
<1>1. CASE RunningPreempt \/ ResetPreempt
  <2>1. PICK v \in Requests :
          /\ req[v].status = "RUNNING" /\ Others(v)
          /\ req'[v].placeholders \in {0, req[v].placeholders}
    BY <1>1, RunningPreemptEffect, ResetPreemptEffect
  <2>2. QED BY <2>1 DEF Others
<1>2. CASE WaitingGrammar
  <2>1. PICK i \in DOMAIN waiting : req' = [req EXCEPT ![waiting[i]].status = "WAITING"]
    BY <1>2 DEF WaitingGrammar
  <2>2. QED BY <2>1, RequestFields DEF TypeOK, RequestType
<1>3. CASE WaitingAdmit
  <2>1. PICK s \in Requests :
          /\ req[s].status \in {"WAITING", "PREEMPTED"} /\ Others(s)
          /\ req'[s].placeholders = req[s].placeholders
    BY <1>3, WaitingAdmitEffect
  <2>2. QED BY <2>1 DEF Others
<1>4. CASE RunningSchedule
  BY <1>4, RunningScheduleEffect DEF Others
<1>5. CASE EndSchedule
  <2>1. req'[r] = AfterSchedule(r)
    BY <1>5 DEF EndSchedule
  <2>2. /\ req'[r].placeholders = req[r].placeholders
        /\ req'[r].computed = req[r].computed + sch.num[r]
    BY <2>1, AfterScheduleEffect
  <2>3. req[r].status = "WAITING_FOR_STREAMING_REQ" => sch.num[r] = 0
    BY DEF ScheduledAreRunning
  <2>4. QED BY <2>2, <2>3, RequestFields
<1>6. CASE EndUpdate
  BY <1>6, HandedOver, RequestFields DEF RequestType
<1>7. CASE \/ BeginSchedule \/ RunningSkip \/ RunningPick \/ RunningDone \/ WaitingSkip
           \/ WaitingBlocked \/ WaitingDone \/ BeginUpdate \/ BeginReset \/ EndReset
           \/ \E s \in Requests : UpdateSkip(s) \/ GrammarReady(s)
           \/ UNCHANGED vars
  BY <1>7 DEF BeginSchedule, RunningSkip, RunningPick, RunningDone, WaitingSkip,
     WaitingBlocked, WaitingDone, LeaveWaitingLoop, BeginUpdate, BeginReset, EndReset,
     UpdateSkip, GrammarReady, vars, requestVars
<1>8. QED
  BY <1>1, <1>2, <1>3, <1>4, <1>5, <1>6, <1>7 DEF Quiet, ScheduleStep, ResetStep

OwnTokens(r) ==
    /\ req[r].placeholders = 0 /\ req[r].outputs >= 0
    /\ req[r].tokens = req[r].prompt + req[r].outputs
    /\ req[r].status = "WAITING_FOR_STREAMING_REQ" => req[r].prompt <= req[r].computed

LEMMA OwnTokensOfUpdate ==
    ASSUME OneStepOrNoSessions, QueueInv, SessionTokens, [Next]_vars, NEW r \in Resumable,
           UpdateContinue(r) \/ UpdateFinish(r) \/ UpdateSession(r)
    PROVE  OwnTokens(r)'
<1> USE DEF QueueInv, ServiceInv, IInv
<1>1. r \in Requests /\ ~Async
  BY SessionEngine
<1>2. /\ Visit(r) /\ Live(r) /\ r \in Head(batch_queue).sampled
  BY DEF UpdateContinue, UpdateFinish, UpdateSession
<1>3. /\ batch_queue # <<>> /\ Head(batch_queue) = batch_queue[1]
      /\ 1 \in DOMAIN batch_queue /\ Head(batch_queue).spec[r] \in Nat
  BY <1>1, <1>2, AnswerInProgress
<1>4. Unvisited(1, r)
  BY <1>2 DEF Unvisited, Visit
<1>5. req[r].status = "RUNNING"
  BY <1>2, AnsweredSessionRuns
<1> DEFINE d == Head(batch_queue).spec[r]
           q == req[r]
<1>6. q.tokens + d <= q.computed
  BY <1>2, <1>3, <1>4 DEF SessionTokens
<1>7. /\ q.tokens \in Int /\ q.prompt \in Int /\ q.outputs \in Int /\ q.computed \in Int
      /\ q.placeholders = 0 /\ q.outputs >= 0 /\ q.tokens = q.prompt + q.outputs
  BY <1>1, RequestFields DEF SessionTokens
<1>8. ASSUME NEW g \in 1 .. 1 + d, NEW k \in 1 .. g
      PROVE  LET a == Answered(r, g, k)
             IN  /\ a \in RequestType /\ a.status = "RUNNING" /\ a.placeholders = 0
                 /\ a.outputs = q.outputs + k /\ a.tokens = q.tokens + k
                 /\ a.prompt = q.prompt /\ q.prompt <= a.computed /\ a.computed \in Int
  <2>1. g \in Int /\ k \in Int
    BY <1>3, <1>8
  <2>2. RejectedDrafts(r, g) = d - (g - 1)
    BY DEF RejectedDrafts
  <2> DEFINE a == Answered(r, g, k)
  <2>3. /\ a \in RequestType /\ a.status = q.status /\ a.placeholders = 0
        /\ a.outputs = q.outputs + k /\ a.tokens = q.tokens + k /\ a.prompt = q.prompt
        /\ a.computed = IF q.computed > 0 THEN q.computed - (d - (g - 1)) ELSE q.computed
    BY <1>1, <1>3, <1>7, <2>1, <2>2, AnsweredEffect
  <2> HIDE DEF a
  <2>4. q.prompt <= a.computed
    <3>1. d \in Nat /\ 1 <= g
      BY <1>3, <1>8
    <3> HIDE DEF d, q
    <3>2. QED BY <1>6, <1>7, <2>1, <2>3, <3>1
  <2>5. a.computed \in Int
    BY <2>3 DEF RequestType
  <2>6. QED BY <1>5, <2>3, <2>4, <2>5 DEF a
<1> HIDE DEF d, q
<1>9. CASE UpdateContinue(r)
  <2>1. PICK g \in 1 .. 1 + d : req'[r] = Answered(r, g, g)
    BY <1>1, <1>9, UpdateContinueEffect DEF d
  <2>2. g \in 1 .. g
    BY <1>3, <2>1 DEF d
  <2> DEFINE a == Answered(r, g, g)
  <2>3. /\ a.status = "RUNNING" /\ a.placeholders = 0
        /\ a.outputs = q.outputs + g /\ a.tokens = q.tokens + g /\ a.prompt = q.prompt
    BY <1>8, <2>1, <2>2
  <2> HIDE DEF a
  <2>4. req'[r] = a
    BY <2>1 DEF a
  <2>5. QED BY <1>3, <1>7, <2>2, <2>3, <2>4 DEF OwnTokens, d
<1>10. CASE UpdateFinish(r)
  <2>1. PICK g \in 1 .. 1 + d : \E k \in 1 .. g :
          /\ SameTokens(req'[r], Answered(r, g, k)) /\ req'[r].status = "FINISHED"
          /\ req'[r].placeholders = Answered(r, g, k).placeholders
    BY <1>1, <1>10, UpdateFinishEffect DEF d
  <2>2. PICK k \in 1 .. g :
          /\ SameTokens(req'[r], Answered(r, g, k)) /\ req'[r].status = "FINISHED"
          /\ req'[r].placeholders = Answered(r, g, k).placeholders
    BY <2>1
  <2> DEFINE a == Answered(r, g, k)
  <2>3. /\ a.placeholders = 0
        /\ a.outputs = q.outputs + k /\ a.tokens = q.tokens + k /\ a.prompt = q.prompt
    BY <1>8, <2>1, <2>2
  <2> HIDE DEF a
  <2>4. /\ SameTokens(req'[r], a) /\ req'[r].status = "FINISHED"
        /\ req'[r].placeholders = a.placeholders
    BY <2>2 DEF a
  <2>5. k \in Nat
    BY <1>3, <2>1, <2>2 DEF d
  <2>6. QED BY <1>7, <2>3, <2>4, <2>5 DEF OwnTokens, SameTokens
<1>11. CASE UpdateSession(r)
  <2>1. PICK g \in 1 .. 1 + d : \E k \in 1 .. g :
          LET a == Answered(r, g, k)
          IN  /\ req'[r].computed = a.computed /\ req'[r].placeholders = a.placeholders
              /\ IF HasInput(r)
                 THEN \E chunk \in Nat :
                        LET s == AsSession(a, chunk)
                        IN  /\ req'[r].status = "WAITING" /\ req'[r].outputs = 0
                            /\ req'[r].prompt = s.prompt /\ req'[r].tokens = s.tokens
                 ELSE SameTokens(req'[r], a)
    BY <1>1, <1>11, UpdateSessionEffect DEF d
  <2>2. PICK k \in 1 .. g :
          LET a == Answered(r, g, k)
          IN  /\ req'[r].computed = a.computed /\ req'[r].placeholders = a.placeholders
              /\ IF HasInput(r)
                 THEN \E chunk \in Nat :
                        LET s == AsSession(a, chunk)
                        IN  /\ req'[r].status = "WAITING" /\ req'[r].outputs = 0
                            /\ req'[r].prompt = s.prompt /\ req'[r].tokens = s.tokens
                 ELSE SameTokens(req'[r], a)
    BY <2>1
  <2> DEFINE a == Answered(r, g, k)
  <2>3. /\ a \in RequestType /\ a.placeholders = 0
        /\ a.outputs = q.outputs + k /\ a.tokens = q.tokens + k /\ a.prompt = q.prompt
        /\ q.prompt <= a.computed /\ a.computed \in Int
    BY <1>8, <2>1, <2>2
  <2>4. k \in Nat
    BY <1>3, <2>1, <2>2 DEF d
  <2> HIDE DEF a
  <2>5. /\ req'[r].computed = a.computed /\ req'[r].placeholders = a.placeholders
        /\ IF HasInput(r)
           THEN \E chunk \in Nat :
                  LET s == AsSession(a, chunk)
                  IN  /\ req'[r].status = "WAITING" /\ req'[r].outputs = 0
                      /\ req'[r].prompt = s.prompt /\ req'[r].tokens = s.tokens
           ELSE SameTokens(req'[r], a)
    BY <2>2 DEF a
  <2>6. CASE HasInput(r)
    <3>1. PICK chunk \in Nat :
            /\ req'[r].status = "WAITING" /\ req'[r].outputs = 0
            /\ req'[r].prompt = AsSession(a, chunk).prompt
            /\ req'[r].tokens = AsSession(a, chunk).tokens
      BY <2>5, <2>6
    <3> DEFINE kept == Least(a.tokens, a.computed)
    <3>2. /\ AsSession(a, chunk).prompt = a.prompt + Most(0, kept - a.prompt) + chunk
          /\ AsSession(a, chunk).tokens = kept + chunk
      BY <2>3, AsSessionEffect
    <3>3. kept \in Int /\ a.prompt <= kept
      BY <1>7, <2>3, <2>4 DEF Least
    <3> HIDE DEF kept
    <3>4. a.prompt + Most(0, kept - a.prompt) + chunk = kept + chunk
      BY <1>7, <2>3, <3>3 DEF Most
    <3>5. req'[r].tokens = req'[r].prompt + req'[r].outputs
      BY <3>1, <3>2, <3>3, <3>4
    <3>6. QED BY <2>3, <2>5, <3>1, <3>5 DEF OwnTokens
  <2>7. CASE ~HasInput(r)
    BY <1>7, <2>3, <2>4, <2>5, <2>7 DEF OwnTokens, SameTokens
  <2>8. QED BY <2>6, <2>7
<1>12. QED BY <1>9, <1>10, <1>11

LEMMA OwnTokensOfStreamingUpdate ==
    ASSUME TypeOK, NEW r \in Requests, OwnTokens(r), StreamingUpdate(r)
    PROVE  OwnTokens(r)'
<1>1. req'[r].computed = req[r].computed /\ req'[r].placeholders = req[r].placeholders
  BY StreamingUpdateEffect
<1>2. CASE Finished(r)
  BY <1>1, <1>2, FinishedEffect DEF OwnTokens, SameTokens
<1>3. CASE /\ req'[r].status = req[r].status
           /\ req'[r].prompt = req[r].prompt /\ req'[r].tokens = req[r].tokens
           /\ req'[r].outputs = req[r].outputs
  BY <1>1, <1>3 DEF OwnTokens
<1>4. ASSUME NEW chunk \in Nat, req[r].status = "WAITING_FOR_STREAMING_REQ",
             req'[r].status = "WAITING", req'[r].outputs = 0,
             req'[r].prompt = AsSession(req[r], chunk).prompt,
             req'[r].tokens = AsSession(req[r], chunk).tokens
      PROVE  OwnTokens(r)'
  <2> DEFINE q == req[r]
             kept == Least(q.tokens, q.computed)
  <2>1. /\ q \in RequestType /\ q.tokens \in Int /\ q.prompt \in Int
        /\ q.outputs \in Int /\ q.computed \in Int
    BY RequestFields
  <2>2. /\ AsSession(q, chunk).prompt = q.prompt + Most(0, kept - q.prompt) + chunk
        /\ AsSession(q, chunk).tokens = kept + chunk
    BY <2>1, AsSessionEffect
  <2>3. kept \in Int /\ q.prompt <= kept
    BY <1>4, <2>1 DEF Least, OwnTokens
  <2> HIDE DEF kept
  <2>4. q.prompt + Most(0, kept - q.prompt) + chunk = kept + chunk
    BY <2>1, <2>3 DEF Most
  <2>5. req'[r].tokens = req'[r].prompt + req'[r].outputs
    BY <1>4, <2>2, <2>3, <2>4
  <2>6. QED BY <1>1, <1>4, <2>5 DEF OwnTokens
<1>5. QED BY <1>2, <1>3, <1>4, StreamingUpdateEffect

LEMMA SessionTokensStep ==
    ASSUME OneStepOrNoSessions, QueueInv, SessionTokens, [Next]_vars
    PROVE  SessionTokens'
<1> USE DEF QueueInv, ServiceInv, IInv
<1>1. ASSUME NEW r \in Resumable PROVE OwnTokens(r)'
  <2>1. r \in Requests /\ ~Async /\ OwnTokens(r)
    BY SessionEngine DEF SessionTokens, OwnTokens
  <2>2. CASE Quiet
    BY <2>1, <2>2, QuietKeepsAnswers, QuietKeepsSession DEF KeepsAnswer, OwnTokens
  <2>3. ASSUME NEW s \in Requests \ {r}, Others(s) PROVE OwnTokens(r)'
    BY <2>1, <2>3 DEF Others, OwnTokens
  <2>4. CASE UpdateContinue(r) \/ UpdateFinish(r) \/ UpdateSession(r)
    BY <2>4, OwnTokensOfUpdate
  <2>5. CASE AddRequest(r) \/ Finished(r)
    BY <2>1, <2>5, AddRequestEffect, FinishedEffect DEF OwnTokens, SameTokens
  <2>6. CASE StreamingUpdate(r)
    BY <2>1, <2>6, OwnTokensOfStreamingUpdate
  <2>7. ASSUME NEW s \in Requests,
               \/ UpdateContinue(s) \/ UpdateFinish(s) \/ UpdateSession(s)
               \/ AddRequest(s) \/ FinishRequests(s) \/ StreamingUpdate(s)
        PROVE  OwnTokens(r)'
    <3>1. Others(s)
      BY <2>7, UpdateContinueEffect, UpdateFinishEffect, UpdateSessionEffect,
         AddRequestEffect, FinishedEffect, StreamingUpdateEffect DEF FinishRequests
    <3>2. QED BY <2>3, <2>4, <2>5, <2>6, <2>7, <3>1 DEF FinishRequests
  <2>8. QED BY <2>2, <2>7 DEF Quiet, Next, UpdateStep, ClientStep
<1>2. QED BY <1>1, SampledSessionComputed DEF SessionTokens, OwnTokens

--------------------------------------------------------------------------------
(* The theorems *)

LEMMA InitQueueInv == Init => QueueInv
<1> SUFFICES ASSUME Init PROVE QueueInv
  OBVIOUS
<1>1. ServiceInv
  BY InitServiceInv
<1>2. sch.skipped = <<>> /\ Queued = <<>> /\ batch_queue = <<>>
  BY DEF Init, NoSchedule, Queued
<1>3. SkippedInLoop /\ SessionsInStep /\ PreemptedFirst
  BY <1>2 DEF SkippedInLoop, SessionsInStep, PreemptedFirst
<1>4. \A r \in Requests : req[r].status = "NONE"
  BY DEF Init, NewRequest
<1>5. WaitingAgreement
  <2>1. ToSet(Queued) = {} /\ NoDuplicates(Queued)
    BY <1>2 DEF ToSet, NoDuplicates
  <2>2. QED BY <1>4, <2>1 DEF WaitingAgreement, Live
<1>6. Parked = {}
  BY <1>4 DEF Parked
<1>7. IsFiniteSet(Parked) /\ Cardinality(Parked) = 0
  BY <1>6, FS_EmptySet
<1>8. StreamingCounter
  BY <1>7 DEF Init, StreamingCounter, Parked
<1>9. QED BY <1>1, <1>3, <1>5, <1>7, <1>8 DEF QueueInv

LEMMA StepQueueInv ==
    ASSUME OneStepOrNoSessions
    PROVE  QueueInv /\ [Next]_vars => QueueInv'
<1> SUFFICES ASSUME QueueInv, [Next]_vars PROVE QueueInv'
  OBVIOUS
<1> USE DEF QueueInv
<1>1. ServiceInv'
  BY StepServiceInv
<1>2. SkippedInLoop' /\ SessionsInStep'
  BY SkippedStep, SessionsStep DEF ServiceInv
<1>3. WaitingAgreement' /\ PreemptedFirst'
  <2>1. QueueMoves
    BY QueueStep DEF ServiceInv
  <2>2. TypeOK /\ TypeOK'
    BY TypeStep DEF ServiceInv, IInv
  <2>3. QED BY <2>1, <2>2, QueueMovesKeep
<1>4. (IsFiniteSet(Parked) /\ StreamingCounter)'
  BY CountStep, CountMovesKeep
<1>5. QED BY <1>1, <1>2, <1>3, <1>4

\* Without sessions, or with one step in flight, the invariant of the queues holds
\* always.  A session with two steps in flight is outside: preempted by the second
\* and stopped by the answer to the first, it is queued and removed by one call.
THEOREM QueueInvariant ==
    ASSUME OneStepOrNoSessions
    PROVE  Spec => []QueueInv
<1>1. Init => QueueInv
  BY InitQueueInv
<1>2. QueueInv /\ [Next]_vars => QueueInv'
  BY StepQueueInv
<1>3. QED BY <1>1, <1>2, PTL DEF Spec

\* No request is lost from the waiting queue, nor queued twice, through the waiting
\* loop's skips, preemptions, resets, aborts and sessions.
THEOREM WaitingQueueAgrees ==
    ASSUME OneStepOrNoSessions
    PROVE  Spec => []WaitingAgreement
<1>1. QueueInv => WaitingAgreement
  BY DEF QueueInv
<1>2. QED BY <1>1, QueueInvariant, PTL

\* Every live request is in the list its status says, for any number of steps in flight
\* and whatever becomes of a request before it is answered.
THEOREM RequestsAreListed ==
    ASSUME OneStepOrNoSessions
    PROVE  Spec => []ListsAgree
<1>1. RunningAgreement /\ WaitingAgreement => ListsAgree
  BY DEF ListsAgree
<1>2. QED BY <1>1, RunningListAgrees, WaitingQueueAgrees, PTL

\* Under FCFS no request overtakes a preempted one.
THEOREM PreemptedWaitFirst ==
    ASSUME OneStepOrNoSessions
    PROVE  Spec => []PreemptedFirst
<1>1. QueueInv => PreemptedFirst
  BY DEF QueueInv
<1>2. QED BY <1>1, QueueInvariant, PTL

\* The count on which the engine loop decides whether to call schedule() is exact.
THEOREM ParkedSessionsCounted ==
    ASSUME OneStepOrNoSessions
    PROVE  Spec => []StreamingCounter
<1>1. QueueInv => StreamingCounter
  BY DEF QueueInv
<1>2. QED BY <1>1, QueueInvariant, PTL

\* The tokens of every live request are its prompt and its outputs, also when a
\* session takes its next chunk and drops the outputs that were not computed.
THEOREM TokensAddUp ==
    ASSUME OneStepOrNoSessions
    PROVE  Spec => []TokensArePromptAndOutputs
<1>1. Init => SessionTokens
  <2>1. ASSUME Init, NEW r \in Resumable
        PROVE  OwnTokens(r) /\ batch_queue = <<>>
    <3>1. r \in Requests /\ PromptLen[r] \in Int
      BY RequestsAssumption, ConstantTypes
    <3>2. /\ req[r].placeholders = 0 /\ req[r].outputs = 0 /\ req[r].status = "NONE"
          /\ req[r].tokens = PromptLen[r] /\ req[r].prompt = PromptLen[r]
      BY <2>1, <3>1 DEF Init, NewRequest
    <3>3. QED BY <2>1, <3>1, <3>2 DEF OwnTokens, Init
  <2>2. QED BY <2>1 DEF SessionTokens, OwnTokens
<1>2. QueueInv /\ SessionTokens /\ [Next]_vars => SessionTokens'
  BY SessionTokensStep
<1>3. QueueInv /\ SessionTokens => TokensArePromptAndOutputs
  <2> SUFFICES ASSUME QueueInv, SessionTokens, NEW r \in Requests
               PROVE  req[r].tokens = req[r].prompt + req[r].outputs
    BY DEF TokensArePromptAndOutputs
  <2>1. CASE r \in Resumable
    BY <2>1 DEF SessionTokens
  <2>2. CASE r \notin Resumable
    BY <2>2 DEF QueueInv, ServiceInv, OrdinaryAnswers, Ordinary
  <2>3. QED BY <2>1, <2>2
<1>4. QED BY <1>1, <1>2, <1>3, QueueInvariant, PTL DEF Spec
================================================================================
