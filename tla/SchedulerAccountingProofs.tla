------------------------ MODULE SchedulerAccountingProofs ------------------------
(***************************************************************************)
(* The scheduler's accounts, for every value of its constants: the blocks  *)
(* of the KV cache, the tokens of one call of schedule(), and the tokens   *)
(* computed, awaited and rejected across the steps in flight.              *)
(***************************************************************************)
EXTENDS SchedulerProofs

--------------------------------------------------------------------------------
(* Sums *)

\* A sum changes by what one of its terms changes.
LEMMA SumUpdate ==
    ASSUME NEW S, NEW f \in [S -> Int], NEW g \in [S -> Int], IsFiniteSet(Units(f)),
           NEW r \in S, f[r] \in Nat, g[r] \in Nat, \A s \in S \ {r} : g[s] = f[s]
    PROVE  IsFiniteSet(Units(g)) /\ Sum(g) = Sum(f) - f[r] + g[r]
<1> DEFINE A == {p \in Units(f) : p[1] # r}
           B(n) == {r} \X (1 .. n)
<1>1. Units(f) = A \cup B(f[r]) /\ A \cap B(f[r]) = {}
  BY DEF Units
<1>2. Units(g) = A \cup B(g[r]) /\ A \cap B(g[r]) = {}
  <2>1. DOMAIN g = S /\ DOMAIN f = S
    OBVIOUS
  <2>2. QED BY <2>1 DEF Units
<1>3. /\ IsFiniteSet(B(f[r])) /\ Cardinality(B(f[r])) = f[r]
      /\ IsFiniteSet(B(g[r])) /\ Cardinality(B(g[r])) = g[r]
  BY UnitsOfOne
<1>4. IsFiniteSet(A) /\ Cardinality(A) \in Nat
  BY FS_Subset, FS_CardinalityType
<1> HIDE DEF A, B
<1>5. Cardinality(Units(f)) = Cardinality(A) + f[r]
  BY <1>1, <1>3, <1>4, DisjointUnion
<1>6. IsFiniteSet(Units(g)) /\ Cardinality(Units(g)) = Cardinality(A) + g[r]
  BY <1>2, <1>3, <1>4, DisjointUnion
<1>7. QED BY <1>4, <1>5, <1>6 DEF Sum

LEMMA SumOfNothing ==
    ASSUME NEW S, NEW f, f = [s \in S |-> 0]
    PROVE  IsFiniteSet(Units(f)) /\ Sum(f) = 0
<1>1. Units(f) = {}
  BY DEF Units
<1>2. QED BY <1>1, FS_EmptySet DEF Sum

--------------------------------------------------------------------------------
(* KV-cache blocks *)

\* Blocks go from the free ones to a request, or back.
LEMMA BlocksMove ==
    ASSUME TypeOK, NEW r \in Requests, NEW m \in Int, blocks[r] + m \in Nat,
           blocks' = [blocks EXCEPT ![r] = blocks[r] + m], free_blocks' = free_blocks - m,
           IsFiniteSet(Units(blocks)), free_blocks + Sum(blocks) = NumBlocks
    PROVE  IsFiniteSet(Units(blocks')) /\ free_blocks' + Sum(blocks') = NumBlocks
<1>1. blocks \in [Requests -> Int] /\ blocks[r] \in Nat /\ free_blocks \in Int
  BY DEF TypeOK
<1>2. IsFiniteSet(Units(blocks')) /\ Sum(blocks') = Sum(blocks) - blocks[r] + blocks'[r]
  <2> DEFINE g == blocks'
  <2>1. g \in [Requests -> Int] /\ g[r] \in Nat /\ \A s \in Requests \ {r} : g[s] = blocks[s]
    BY <1>1
  <2> HIDE DEF g
  <2>2. IsFiniteSet(Units(g)) /\ Sum(g) = Sum(blocks) - blocks[r] + g[r]
    BY <1>1, <2>1, SumUpdate
  <2>3. QED BY <2>2 DEF g
<1>3. Sum(blocks) \in Int
  BY FS_CardinalityType DEF Sum
<1>4. blocks'[r] = blocks[r] + m
  BY <1>1
<1>5. QED BY <1>1, <1>2, <1>3, <1>4

LEMMA BlocksTaken ==
    ASSUME TypeOK, NEW r \in Requests, NEW m \in Nat, TakeBlocks(r, m),
           IsFiniteSet(Units(blocks)), free_blocks + Sum(blocks) = NumBlocks
    PROVE  IsFiniteSet(Units(blocks')) /\ free_blocks' + Sum(blocks') = NumBlocks
<1>1. blocks[r] \in Nat /\ blocks' = [blocks EXCEPT ![r] = blocks[r] + m]
  BY DEF TypeOK, TakeBlocks
<1>2. m \in Int /\ blocks[r] + m \in Nat /\ free_blocks' = free_blocks - m
  BY <1>1 DEF TakeBlocks
<1>3. QED BY <1>1, <1>2, BlocksMove, Zenon

LEMMA BlocksFreed ==
    ASSUME TypeOK, NEW r \in Requests, FreeBlocks(r),
           IsFiniteSet(Units(blocks)), free_blocks + Sum(blocks) = NumBlocks
    PROVE  IsFiniteSet(Units(blocks')) /\ free_blocks' + Sum(blocks') = NumBlocks
<1> DEFINE m == -blocks[r]
<1>1. m \in Int /\ blocks[r] + m = 0 /\ free_blocks - m = free_blocks + blocks[r]
  BY DEF TypeOK
<1> HIDE DEF m
<1>2. blocks' = [blocks EXCEPT ![r] = blocks[r] + m] /\ free_blocks' = free_blocks - m
  BY <1>1 DEF FreeBlocks
<1>3. blocks[r] + m \in Nat
  BY <1>1
<1>4. QED BY <1>1, <1>2, <1>3, BlocksMove, Zenon

\* One request takes blocks to run, gives them back, or none move.
BlockMoves ==
    \/ \E r \in Requests : \E m \in Nat :
          TakeBlocks(r, m) /\ req'[r].status = "RUNNING" /\ Others(r)
    \/ \E r \in Requests : FreeBlocks(r) /\ req'[r].status # "RUNNING" /\ Others(r)
    \/ /\ UNCHANGED cacheVars
       /\ \A r \in Requests :
             \/ req'[r].status = req[r].status
             \/ blocks[r] = 0
             \/ req[r].status # "RUNNING" /\ Live(r)' /\ req'[r].status # "PREEMPTED"
             \/ r \in Resumable /\ Live(r)' /\ req'[r].status # "PREEMPTED"

LEMMA BlockMovesKeep ==
    ASSUME TypeOK, TypeOK', IsFiniteSet(Units(blocks)), BlockAccounting, BlockMoves
    PROVE  (IsFiniteSet(Units(blocks)) /\ BlockAccounting)'
<1> DEFINE Holds(r) == blocks[r] > 0 =>
              \/ req[r].status = "RUNNING"
              \/ r \in Resumable /\ Live(r) /\ req[r].status # "PREEMPTED"
<1>1. free_blocks + Sum(blocks) = NumBlocks /\ \A r \in Requests : Holds(r)
  BY DEF BlockAccounting
<1>2. SUFFICES /\ IsFiniteSet(Units(blocks')) /\ free_blocks' + Sum(blocks') = NumBlocks
               /\ \A r \in Requests : Holds(r)'
  BY DEF BlockAccounting, Units, Sum
<1>3. ASSUME NEW r \in Requests, Others(r), req'[r].status = "RUNNING" \/ blocks'[r] = 0,
             \A s \in Requests \ {r} : blocks'[s] = blocks[s]
      PROVE  \A s \in Requests : Holds(s)'
  <2>1. Holds(r)'
    BY <1>3
  <2>2. \A s \in Requests \ {r} : Holds(s)'
    BY <1>1, <1>3 DEF Others, Live
  <2>3. QED BY <2>1, <2>2
<1>4. ASSUME NEW r \in Requests, NEW m \in Nat,
             TakeBlocks(r, m) /\ req'[r].status = "RUNNING" /\ Others(r)
      PROVE  /\ IsFiniteSet(Units(blocks')) /\ free_blocks' + Sum(blocks') = NumBlocks
             /\ \A s \in Requests : Holds(s)'
  <2>1. \A s \in Requests \ {r} : blocks'[s] = blocks[s]
    BY <1>4 DEF TakeBlocks, TypeOK
  <2>2. QED BY <1>1, <1>3, <1>4, <2>1, BlocksTaken
<1>5. ASSUME NEW r \in Requests, FreeBlocks(r) /\ Others(r)
      PROVE  /\ IsFiniteSet(Units(blocks')) /\ free_blocks' + Sum(blocks') = NumBlocks
             /\ \A s \in Requests : Holds(s)'
  <2>1. blocks'[r] = 0 /\ \A s \in Requests \ {r} : blocks'[s] = blocks[s]
    BY <1>5 DEF FreeBlocks, TypeOK
  <2>2. QED BY <1>1, <1>3, <1>5, <2>1, BlocksFreed
<1>6. CASE /\ UNCHANGED cacheVars
           /\ \A r \in Requests :
                 \/ req'[r].status = req[r].status
                 \/ blocks[r] = 0
                 \/ req[r].status # "RUNNING" /\ Live(r)' /\ req'[r].status # "PREEMPTED"
                 \/ r \in Resumable /\ Live(r)' /\ req'[r].status # "PREEMPTED"
  <2>1. blocks' = blocks /\ free_blocks' = free_blocks
    BY <1>6 DEF cacheVars
  <2>2. ASSUME NEW r \in Requests PROVE Holds(r)'
    <3>1. blocks'[r] = blocks[r] /\ Holds(r) /\ blocks[r] \in Nat
      BY <1>1, <2>1 DEF TypeOK
    <3>2. CASE req'[r].status = req[r].status
      BY <3>1, <3>2 DEF Live
    <3>3. CASE blocks[r] = 0
      BY <3>1, <3>3
    <3>4. CASE /\ Live(r)' /\ req'[r].status # "PREEMPTED"
               /\ req[r].status # "RUNNING" \/ r \in Resumable
      BY <3>1, <3>4
    <3>5. QED BY <1>6, <3>2, <3>3, <3>4
  <2>3. QED BY <1>1, <2>1, <2>2
<1>7. QED BY <1>4, <1>5, <1>6 DEF BlockMoves

LEMMA BlockStep ==
    ASSUME BlockInv, [Next]_vars
    PROVE  BlockMoves
<1> USE DEF BlockInv, IInv
<1>1. CASE RunningSchedule
  BY <1>1, RunningScheduleEffect DEF BlockMoves
<1>2. CASE WaitingAdmit
  <2>1. PICK r \in Requests, m \in Nat :
          TakeBlocks(r, m) /\ req'[r].status = "RUNNING" /\ Others(r)
    BY <1>2, WaitingAdmitEffect
  <2>2. QED BY <2>1 DEF BlockMoves
<1>3. CASE RunningPreempt \/ ResetPreempt
  BY <1>3, RunningPreemptEffect, ResetPreemptEffect DEF BlockMoves
<1>4. CASE \E r \in Requests : UpdateFinish(r) \/ Finished(r)
  BY <1>4, UpdateFinishEffect, FinishedEffect DEF BlockMoves, UpdateFinish, Finished, Free
<1>5. ASSUME NEW r \in Requests,
             \/ UpdateSession(r) \/ AddRequest(r)
             \/ StreamingUpdate(r) /\ ~Finished(r)
      PROVE  BlockMoves
  <2>1. Others(r)
    BY <1>5, UpdateSessionEffect, AddRequestEffect, StreamingUpdateEffect
  <2>2. UNCHANGED cacheVars
    BY <1>5, StreamingUpdateEffect DEF UpdateSession, AddRequest
  <2>3. \/ req'[r].status = req[r].status
        \/ blocks[r] = 0
        \/ r \in Resumable /\ Live(r)' /\ req'[r].status # "PREEMPTED"
    <3>1. CASE UpdateSession(r)
      BY <3>1, UpdateSessionEffect DEF UpdateSession, Live
    <3>2. CASE AddRequest(r)
      <4>1. blocks[r] \in Nat /\ ~(blocks[r] > 0)
        BY <3>2 DEF AddRequest, BlockAccounting, Live, TypeOK
      <4>2. QED BY <4>1
    <3>3. CASE StreamingUpdate(r) /\ ~Finished(r)
      BY <3>3, StreamingUpdateEffect DEF Live
    <3>4. QED BY <1>5, <3>1, <3>2, <3>3
  <2>4. QED BY <2>1, <2>2, <2>3 DEF BlockMoves, Others
<1>6. CASE WaitingGrammar
  <2>1. PICK i \in DOMAIN waiting :
          /\ req[waiting[i]].status = "WAITING_FOR_FSM"
          /\ req' = [req EXCEPT ![waiting[i]].status = "WAITING"]
    BY <1>6 DEF WaitingGrammar
  <2>2. waiting[i] \in Requests
    BY WaitingElements
  <2>3. req'[waiting[i]].status = "WAITING" /\ Others(waiting[i])
    BY <2>1, <2>2, RequestFields DEF TypeOK, RequestType, Others
  <2>4. UNCHANGED cacheVars
    BY <1>6 DEF WaitingGrammar
  <2>5. QED BY <2>1, <2>2, <2>3, <2>4 DEF BlockMoves, Others, Live
<1>7. CASE EndSchedule \/ EndUpdate \/ \E r \in Requests : UpdateContinue(r)
  <2>1. UNCHANGED cacheVars
    BY <1>7 DEF EndSchedule, EndUpdate, UpdateContinue
  <2>2. \A s \in Requests : req'[s].status = req[s].status
    BY <1>7, EndScheduleKeeps, EndUpdateKeeps, UpdateContinueKeeps DEF KeepsStatus
  <2>3. QED BY <2>1, <2>2 DEF BlockMoves
<1>8. CASE \/ BeginSchedule \/ RunningSkip \/ RunningPick \/ RunningDone \/ WaitingSkip
           \/ WaitingBlocked \/ WaitingDone \/ BeginUpdate \/ BeginReset \/ EndReset
           \/ \E r \in Requests : UpdateSkip(r) \/ GrammarReady(r)
           \/ UNCHANGED vars
  <2>1. UNCHANGED cacheVars /\ req' = req
    BY <1>8 DEF BeginSchedule, RunningSkip, RunningPick, RunningDone, WaitingSkip,
       WaitingBlocked, WaitingDone, LeaveWaitingLoop, BeginUpdate, BeginReset, EndReset,
       UpdateSkip, GrammarReady, vars, requestVars, cacheVars
  <2>2. QED BY <2>1 DEF BlockMoves
<1>9. QED
  BY <1>1, <1>2, <1>3, <1>4, <1>5, <1>6, <1>7, <1>8
  DEF Next, ScheduleStep, UpdateStep, ResetStep, ClientStep, FinishRequests

\* Blocks are neither lost nor given twice, whatever is preempted, resumed, aborted,
\* stopped or reset while steps are in flight, and only running requests and
\* sessions hold any.
THEOREM BlocksAreAccounted == Spec => []BlockAccounting
<1>1. Init => BlockInv
  <2> SUFFICES ASSUME Init PROVE BlockInv
    OBVIOUS
  <2>1. IInv
    BY InitIInv
  <2>2. IsFiniteSet(Units(blocks)) /\ Sum(blocks) = 0
    BY SumOfNothing DEF Init
  <2>3. BlockAccounting
    BY <2>2, ConstantTypes DEF Init, BlockAccounting
  <2>4. QED BY <2>1, <2>2, <2>3 DEF BlockInv
<1>2. BlockInv /\ [Next]_vars => BlockInv'
  BY StepIInv, BlockStep, BlockMovesKeep DEF BlockInv, IInv
<1>3. BlockInv => BlockAccounting
  BY DEF BlockInv
<1>4. QED BY <1>1, <1>2, <1>3, PTL DEF Spec

--------------------------------------------------------------------------------
(* What a step makes of the tokens of a request, in an engine without sessions *)

\* The request keeps its tokens; it may arrive, or get its grammar.
Keeps(s) ==
    /\ ~EndSchedule
    /\ Visit(s) => ~Live(s) \/ s \notin Head(batch_queue).sampled
    /\ req'[s].tokens = req[s].tokens /\ req'[s].computed = req[s].computed
    /\ req'[s].placeholders = req[s].placeholders
    /\ \/ req'[s].status = req[s].status
       \/ /\ req[s].status \in {"NONE", "WAITING_FOR_FSM"}
          /\ req'[s].status \in {"WAITING", "WAITING_FOR_FSM"}

Advances(s) ==
    /\ EndSchedule
    /\ req'[s].status = req[s].status /\ req'[s].tokens = req[s].tokens
    /\ req'[s].computed = req[s].computed + sch.num[s]
    /\ req'[s].placeholders = IF Async /\ Samples(s)
                              THEN req[s].placeholders + 1 + sch.spec[s]
                              ELSE req[s].placeholders

Preempts(s) ==
    /\ phase \in {"allocate", "reset"} /\ ~EndSchedule
    /\ req[s].status = "RUNNING" /\ req'[s].status = "PREEMPTED"
    /\ req'[s].tokens = req[s].tokens /\ req'[s].computed = 0
    /\ req'[s].placeholders = IF phase = "reset" THEN 0 ELSE req[s].placeholders

Admits(s) ==
    /\ phase = "waiting" /\ WaitingAdmit /\ ~EndSchedule
    /\ req[s].status \in {"WAITING", "PREEMPTED"} /\ req'[s].status = "RUNNING"
    /\ req'[s].tokens = req[s].tokens /\ req'[s].computed \in CachedTokens(s)
    /\ req'[s].placeholders = req[s].placeholders

Answers(s) ==
    /\ Visit(s) /\ Live(s) /\ s \in Head(batch_queue).sampled /\ ~EndSchedule
    /\ req'[s].status = req[s].status
    /\ \E g \in 1 .. 1 + Head(batch_queue).spec[s] :
         LET x == 1 + Head(batch_queue).spec[s] - g
             p == IF req[s].placeholders > 0 THEN req[s].placeholders - x
                  ELSE req[s].placeholders
         IN  /\ req'[s].tokens = req[s].tokens + g
             /\ req'[s].computed = IF req[s].computed > 0 THEN req[s].computed - x
                                   ELSE req[s].computed
             /\ req'[s].placeholders = IF Async THEN p - g ELSE p

Ends(s) == ~EndSchedule /\ Live(s) /\ req'[s].status = "FINISHED"

TokenMove(s) ==
    Keeps(s) \/ Advances(s) \/ Preempts(s) \/ Admits(s) \/ Answers(s) \/ Ends(s)

LEMMA AdvancesOfEndSchedule ==
    ASSUME IInv, EndSchedule, NEW s \in Requests
    PROVE  Advances(s)
<1>1. req'[s] = AfterSchedule(s)
  BY DEF EndSchedule
<1>2. TypeOK
  BY DEF IInv
<1>3. QED BY <1>1, <1>2, AfterScheduleEffect DEF Advances

LEMMA AnswersOfUpdateContinue ==
    ASSUME IInv, NEW r \in Requests, UpdateContinue(r)
    PROVE  Answers(r) /\ Others(r)
<1> USE DEF IInv
<1>1. /\ Visit(r) /\ Live(r) /\ r \in Head(batch_queue).sampled
      /\ Head(batch_queue).spec[r] \in Nat /\ ~EndSchedule
  BY AnswerInProgress DEF UpdateContinue, Visit, EndSchedule
<1>2. PICK g \in 1 .. 1 + Head(batch_queue).spec[r] :
        req'[r] = Answered(r, g, g) /\ Others(r)
  BY UpdateContinueEffect
<1> DEFINE a == Answered(r, g, g)
           x == 1 + Head(batch_queue).spec[r] - g
           p == IF req[r].placeholders > 0 THEN req[r].placeholders - x
                ELSE req[r].placeholders
<1>3. RejectedDrafts(r, g) = x
  BY <1>1 DEF RejectedDrafts
<1> HIDE DEF x
<1>4. /\ a.status = req[r].status /\ a.tokens = req[r].tokens + g
      /\ a.computed = IF req[r].computed > 0 THEN req[r].computed - x
                      ELSE req[r].computed
      /\ a.placeholders = IF Async THEN p - g ELSE p
  BY <1>1, <1>3, AnsweredEffect
<1> HIDE DEF a
<1>5. QED BY <1>1, <1>2, <1>4 DEF Answers, a, x

LEMMA KeepsWhenQuiet ==
    ASSUME req' = req, ~EndSchedule,
           \A s \in Requests : Visit(s) => ~Live(s) \/ s \notin Head(batch_queue).sampled
    PROVE  \A s \in Requests : Keeps(s)
BY DEF Keeps

\* The requests a step does not concern.
LEMMA KeepsOthers ==
    ASSUME NEW r \in Requests, Others(r), ~EndSchedule,
           phase # "update" \/ Visit(r) \/ pending' = pending
    PROVE  \A s \in Requests \ {r} : Keeps(s)
<1>1. ASSUME NEW s \in Requests \ {r} PROVE ~Visit(s)
  BY DEF Visit
<1>2. QED BY <1>1 DEF Keeps, Others

LEMMA TokenMovesOfScheduling ==
    ASSUME IInv, ScheduleStep
    PROVE  \A s \in Requests : TokenMove(s)
<1> USE DEF IInv
<1>1. CASE EndSchedule
  BY <1>1, AdvancesOfEndSchedule DEF TokenMove
<1>2. CASE \/ BeginSchedule \/ RunningSkip \/ RunningPick \/ RunningDone
           \/ WaitingSkip \/ WaitingBlocked \/ WaitingDone
  <2>1. req' = req /\ phase \in {"engine", "running", "waiting"}
    BY <1>2 DEF BeginSchedule, RunningSkip, RunningPick, RunningDone, WaitingSkip,
       WaitingBlocked, WaitingDone, LeaveWaitingLoop, requestVars, InRunningLoop,
       InWaitingLoop
  <2>2. ~EndSchedule /\ \A s \in Requests : ~Visit(s)
    BY <2>1 DEF EndSchedule, Visit
  <2>3. QED BY <2>1, <2>2, KeepsWhenQuiet DEF TokenMove
<1>3. CASE RunningSchedule
  <2> DEFINE r == sch.request
  <2>1. /\ r \in Requests /\ Others(r) /\ req[r].status = "RUNNING"
        /\ req'[r].status = "RUNNING" /\ req'[r].tokens = req[r].tokens
        /\ req'[r].computed = req[r].computed
        /\ req'[r].placeholders = req[r].placeholders
    BY <1>3, RunningScheduleEffect DEF SameTokens
  <2>2. phase = "allocate" /\ ~EndSchedule /\ ~Visit(r)
    BY <1>3 DEF RunningSchedule, EndSchedule, Visit
  <2> HIDE DEF r
  <2>3. Keeps(r)
    BY <2>1, <2>2 DEF Keeps
  <2>4. QED BY <2>1, <2>2, <2>3, KeepsOthers DEF TokenMove
<1>4. CASE RunningPreempt
  <2>1. phase = "allocate" /\ ~EndSchedule
    BY <1>4 DEF RunningPreempt, EndSchedule
  <2>2. PICK v \in Requests :
          /\ req[v].status = "RUNNING" /\ Others(v) /\ SameTokens(req'[v], req[v])
          /\ req'[v].status = "PREEMPTED" /\ req'[v].computed = 0
          /\ req'[v].placeholders = req[v].placeholders
    BY <1>4, RunningPreemptEffect
  <2>3. Preempts(v)
    BY <2>1, <2>2 DEF Preempts, SameTokens
  <2>4. QED BY <2>1, <2>2, <2>3, KeepsOthers DEF TokenMove
<1>5. CASE WaitingGrammar
  <2>1. PICK i \in DOMAIN waiting :
          /\ req[waiting[i]].status = "WAITING_FOR_FSM"
          /\ req' = [req EXCEPT ![waiting[i]].status = "WAITING"]
    BY <1>5 DEF WaitingGrammar
  <2> DEFINE r == waiting[i]
             q == [req[r] EXCEPT !.status = "WAITING"]
  <2>2. r \in Requests
    BY WaitingElements
  <2>3. /\ q.status = "WAITING" /\ q.tokens = req[r].tokens
        /\ q.computed = req[r].computed /\ q.placeholders = req[r].placeholders
    BY <2>2, RequestFields DEF RequestType
  <2>4. req'[r] = q /\ Others(r)
    BY <2>1, <2>2 DEF TypeOK, Others
  <2>5. phase = "waiting" /\ ~EndSchedule /\ ~Visit(r)
    BY <1>5 DEF WaitingGrammar, InWaitingLoop, EndSchedule, Visit
  <2> HIDE DEF q
  <2>6. Keeps(r)
    BY <2>1, <2>3, <2>4, <2>5 DEF Keeps
  <2>7. QED BY <2>2, <2>4, <2>5, <2>6, KeepsOthers DEF TokenMove
<1>6. CASE WaitingAdmit
  <2>1. phase = "waiting" /\ ~EndSchedule
    BY <1>6 DEF WaitingAdmit, InWaitingLoop, EndSchedule
  <2>2. PICK r \in Requests :
          /\ req[r].status \in {"WAITING", "PREEMPTED"} /\ Others(r)
          /\ SameTokens(req'[r], req[r]) /\ req'[r].status = "RUNNING"
          /\ req'[r].computed \in CachedTokens(r)
          /\ req'[r].placeholders = req[r].placeholders
    BY <1>6, WaitingAdmitEffect
  <2>3. Admits(r)
    BY <1>6, <2>1, <2>2 DEF Admits, SameTokens
  <2>4. QED BY <2>1, <2>2, <2>3, KeepsOthers DEF TokenMove
<1>7. QED BY <1>1, <1>2, <1>3, <1>4, <1>5, <1>6 DEF ScheduleStep

LEMMA TokenMoves ==
    ASSUME Resumable = {}, IInv, [Next]_vars
    PROVE  \A s \in Requests : TokenMove(s)
<1> USE DEF IInv
<1>1. CASE EndUpdate
  <2> TAKE s \in Requests
  <2>1. phase = "update" /\ pending = {} /\ ~EndSchedule
    BY <1>1 DEF EndUpdate, EndSchedule
  <2>2. /\ req'[s].status = req[s].status /\ req'[s].tokens = req[s].tokens
        /\ req'[s].computed = req[s].computed
        /\ req'[s].placeholders = req[s].placeholders
    BY <1>1, HandedOver, RequestFields DEF RequestType
  <2>3. QED BY <2>1, <2>2 DEF TokenMove, Keeps, Visit
<1>2. ASSUME NEW r \in Requests, UpdateContinue(r)
      PROVE  \A s \in Requests : TokenMove(s)
  <2>1. Answers(r) /\ Others(r) /\ Visit(r) /\ ~EndSchedule
    BY <1>2, AnswersOfUpdateContinue DEF Answers
  <2>2. QED BY <2>1, KeepsOthers DEF TokenMove
<1>3. ASSUME NEW r \in Requests, UpdateFinish(r) \/ FinishRequests(r)
      PROVE  \A s \in Requests : TokenMove(s)
  <2>1. Others(r) /\ req'[r].status = "FINISHED" /\ Live(r)
    BY <1>3, UpdateFinishEffect, FinishedEffect DEF UpdateFinish, FinishRequests
  <2>2. ~EndSchedule /\ (phase # "update" \/ Visit(r))
    BY <1>3 DEF UpdateFinish, FinishRequests, EndSchedule, Visit
  <2>3. Ends(r)
    BY <2>1, <2>2 DEF Ends
  <2>4. QED BY <2>1, <2>2, <2>3, KeepsOthers DEF TokenMove
<1>4. ASSUME NEW r \in Requests, AddRequest(r)
      PROVE  \A s \in Requests : TokenMove(s)
  <2>1. /\ Others(r) /\ SameTokens(req'[r], req[r])
        /\ req'[r].status \in {"WAITING", "WAITING_FOR_FSM"}
        /\ req'[r].computed = req[r].computed
        /\ req'[r].placeholders = req[r].placeholders
    BY <1>4, AddRequestEffect
  <2>2. phase = "engine" /\ req[r].status = "NONE" /\ ~EndSchedule /\ ~Visit(r)
    BY <1>4 DEF AddRequest, BetweenSteps, EndSchedule, Visit
  <2>3. Keeps(r)
    BY <2>1, <2>2 DEF Keeps, SameTokens
  <2>4. QED BY <2>1, <2>2, <2>3, KeepsOthers DEF TokenMove
<1>5. CASE ResetPreempt
  <2>1. phase = "reset" /\ ~EndSchedule
    BY <1>5 DEF ResetPreempt, EndSchedule
  <2>2. PICK v \in Requests :
          /\ req[v].status = "RUNNING" /\ Others(v) /\ SameTokens(req'[v], req[v])
          /\ req'[v].status = "PREEMPTED" /\ req'[v].computed = 0
          /\ req'[v].placeholders = 0
    BY <1>5, ResetPreemptEffect
  <2>3. Preempts(v)
    BY <2>1, <2>2 DEF Preempts, SameTokens
  <2>4. QED BY <2>1, <2>2, <2>3, KeepsOthers DEF TokenMove
<1>6. CASE \/ BeginUpdate \/ BeginReset \/ EndReset
           \/ \E r \in Requests : UpdateSkip(r) \/ GrammarReady(r)
           \/ UNCHANGED vars
  <2>1. req' = req /\ ~EndSchedule
    BY <1>6 DEF BeginUpdate, BeginReset, EndReset, UpdateSkip, GrammarReady, vars,
       requestVars, EndSchedule, Visit, BetweenSteps
  <2>2. ASSUME NEW s \in Requests, Visit(s)
        PROVE  ~Live(s) \/ s \notin Head(batch_queue).sampled
    <3>1. CASE \E r \in Requests : UpdateSkip(r)
      BY <2>2, <3>1 DEF UpdateSkip, Visit
    <3>2. CASE ~\E r \in Requests : UpdateSkip(r)
      BY <1>6, <2>2, <3>2 DEF Visit, BeginUpdate, BeginReset, EndReset, GrammarReady,
         BetweenSteps, vars
    <3>3. QED BY <3>1, <3>2
  <2>3. QED BY <2>1, <2>2, KeepsWhenQuiet DEF TokenMove
<1>7. \A r \in Requests : ~UpdateSession(r) /\ ~StreamingUpdate(r)
  BY DEF UpdateSession, StreamingUpdate
<1>8. QED
  BY <1>1, <1>2, <1>3, <1>4, <1>5, <1>6, <1>7, TokenMovesOfScheduling
  DEF Next, UpdateStep, ResetStep, ClientStep

--------------------------------------------------------------------------------
(* Steps in flight *)

\* The output of schedule() joins the batch queue.
LEMMA AppendedStep ==
    ASSUME IInv, EndSchedule
    PROVE  /\ Len(batch_queue) \in Nat /\ Len(batch_queue') = Len(batch_queue) + 1
           /\ DOMAIN batch_queue = 1 .. Len(batch_queue)
           /\ DOMAIN batch_queue' = 1 .. Len(batch_queue) + 1
           /\ \A i \in DOMAIN batch_queue : batch_queue'[i] = batch_queue[i]
           /\ batch_queue'[Len(batch_queue) + 1] = StepOutput
BY DEF IInv, TypeOK, EndSchedule

\* The answered step leaves it.
LEMMA AnsweredStep ==
    ASSUME IInv, EndUpdate
    PROVE  /\ Len(batch_queue) \in Nat \ {0} /\ Len(batch_queue') = Len(batch_queue) - 1
           /\ DOMAIN batch_queue = 1 .. Len(batch_queue)
           /\ DOMAIN batch_queue' = 1 .. Len(batch_queue) - 1
           /\ \A i \in DOMAIN batch_queue' :
                 i + 1 \in DOMAIN batch_queue /\ batch_queue'[i] = batch_queue[i + 1]
<1>1. /\ batch_queue \in Seq(OutputType) /\ batch_queue # <<>>
      /\ batch_queue' = Tail(batch_queue)
  BY DEF IInv, TypeOK, EndUpdate, UpdatesAnOutput
<1>2. Len(batch_queue) \in Nat \ {0} /\ DOMAIN batch_queue = 1 .. Len(batch_queue)
  BY <1>1
<1>3. /\ Len(batch_queue') = Len(batch_queue) - 1
      /\ DOMAIN batch_queue' = 1 .. Len(batch_queue) - 1
  BY <1>1, <1>2
<1>4. \A i \in DOMAIN batch_queue' :
         i + 1 \in DOMAIN batch_queue /\ batch_queue'[i] = batch_queue[i + 1]
  BY <1>1, <1>2, <1>3
<1>5. QED BY <1>2, <1>3, <1>4

LEMMA SameSteps ==
    ASSUME [Next]_vars, ~EndSchedule, ~EndUpdate
    PROVE  batch_queue' = batch_queue
BY DEF Next, ScheduleStep, UpdateStep, ResetStep, ClientStep, BeginSchedule, RunningSkip,
   RunningPick, RunningSchedule, RunningPreempt, RunningDone, WaitingGrammar,
   WaitingSkip, WaitingAdmit, WaitingBlocked, WaitingDone, LeaveWaitingLoop, BeginUpdate,
   UpdateSkip, UpdateContinue, UpdateFinish, UpdateSession, BeginReset, ResetPreempt,
   EndReset, AddRequest, FinishRequests, StreamingUpdate, GrammarReady, vars, stepVars

LEMMA FlightsStep ==
    ASSUME Resumable = {}, IInv, Flights, [Next]_vars
    PROVE  Flights'
<1> USE DEF IInv
<1>1. \A s \in Requests : req[s].status # "NONE" => req'[s].status # "NONE"
  BY TokenMoves DEF TokenMove, Keeps, Advances, Preempts, Admits, Answers, Ends
<1>2. Len(batch_queue) \in Nat /\ PipelineDepth \in Nat \ {0}
  BY ConfigAssumption DEF TypeOK, PositiveNat
<1>3. CASE EndSchedule
  <2>1. Len(batch_queue') <= PipelineDepth /\ phase' = "engine"
    BY <1>2, <1>3, AppendedStep DEF Flights, EndSchedule
  <2>2. ASSUME NEW s \in Requests, NEW i \in DOMAIN batch_queue',
               s \in batch_queue'[i].sampled
        PROVE  batch_queue'[i].num[s] > 0 /\ req'[s].status # "NONE"
    <3>1. CASE i \in DOMAIN batch_queue
      BY <1>1, <1>3, <2>2, <3>1, AppendedStep DEF Flights
    <3>2. CASE i = Len(batch_queue) + 1
      <4>1. Samples(s) /\ batch_queue'[i].num[s] = sch.num[s]
        BY <1>3, <2>2, <3>2, AppendedStep DEF StepOutput
      <4>2. req[s].status = "RUNNING"
        BY <4>1 DEF Samples, ScheduledAreRunning
      <4>3. QED BY <1>1, <4>1, <4>2 DEF Samples
    <3>3. QED BY <1>2, <1>3, <3>1, <3>2, AppendedStep
  <2>3. QED BY <2>1, <2>2 DEF Flights
<1>4. CASE EndUpdate
  <2>1. Len(batch_queue') <= PipelineDepth /\ phase' = "engine"
    BY <1>2, <1>4, AnsweredStep DEF Flights, EndUpdate
  <2>2. QED BY <1>1, <1>4, <2>1, AnsweredStep DEF Flights
<1>5. CASE ~EndSchedule /\ ~EndUpdate
  <2>1. batch_queue' = batch_queue
    BY <1>5, SameSteps
  <2>2. phase' \notin {"engine", "update"} => Len(batch_queue) < PipelineDepth
    <3>1. CASE BeginSchedule \/ BeginReset
      BY <3>1 DEF BeginSchedule, BeginReset, BetweenSteps
    <3>2. CASE ~BeginSchedule /\ ~BeginReset
      <4>1. phase' \in {"engine", "update"} \/ phase \notin {"engine", "update"}
        BY <1>5, <3>2 DEF Next, ScheduleStep, UpdateStep, ResetStep, ClientStep,
           RunningSkip, RunningPick, RunningSchedule, RunningPreempt, RunningDone,
           WaitingGrammar, WaitingSkip, WaitingAdmit, WaitingBlocked, WaitingDone,
           BeginUpdate, UpdateSkip, UpdateContinue, UpdateFinish, UpdateSession,
           ResetPreempt, EndReset, AddRequest, FinishRequests, StreamingUpdate,
           GrammarReady, vars, InRunningLoop, InWaitingLoop
      <4>2. QED BY <4>1 DEF Flights
    <3>3. QED BY <3>1, <3>2
  <2>3. phase' = "reset" => MaxResets > 0
    <3>1. CASE BeginReset
      BY <3>1, ConfigAssumption DEF BeginReset, TypeOK
    <3>2. CASE ~BeginReset
      <4>1. phase' = "reset" => phase = "reset"
        BY <1>5, <3>2 DEF Next, ScheduleStep, UpdateStep, ResetStep, ClientStep,
           BeginSchedule, RunningSkip, RunningPick, RunningSchedule, RunningPreempt,
           RunningDone, WaitingGrammar, WaitingSkip, WaitingAdmit, WaitingBlocked,
           WaitingDone, LeaveWaitingLoop, BeginUpdate, UpdateSkip, UpdateContinue,
           UpdateFinish, UpdateSession, ResetPreempt, EndReset, AddRequest,
           FinishRequests, StreamingUpdate, GrammarReady, vars
      <4>2. QED BY <4>1 DEF Flights
    <3>3. QED BY <3>1, <3>2
  <2>4. QED BY <1>1, <2>1, <2>2, <2>3 DEF Flights
<1>6. QED BY <1>3, <1>4, <1>5

\* The answers a step leaves in flight count as before, but for the request it visits.
LEMMA UnvisitedSteps ==
    ASSUME IInv, Flights, [Next]_vars, ~EndSchedule, ~EndUpdate,
           NEW s \in Requests, NEW i \in DOMAIN batch_queue,
           s \in batch_queue[i].sampled
    PROVE  Unvisited(i, s)' <=> Unvisited(i, s) /\ ~(Visit(s) /\ i = 1)
<1> USE DEF IInv
<1>1. CASE BeginUpdate
  <2>1. /\ batch_queue[1] = Head(batch_queue) /\ phase = "engine"
        /\ pending' = {r \in Requests : Head(batch_queue).num[r] > 0}
    BY <1>1 DEF BeginUpdate, TypeOK
  <2>2. batch_queue[i].num[s] > 0
    BY DEF Flights
  <2>3. QED BY <2>1, <2>2 DEF Unvisited, Visit
<1>2. ASSUME NEW r \in Requests, Visit(r), phase' = "update"
      PROVE  Unvisited(i, s)' <=> Unvisited(i, s) /\ ~(Visit(s) /\ i = 1)
  BY <1>2 DEF Visit, Unvisited
<1>3. CASE \/ phase \notin {"engine", "update"} /\ phase' # "update"
           \/ phase' = phase /\ pending' = pending
           \/ phase = "engine" /\ phase' # "update"
  BY <1>3 DEF Visit, Unvisited
<1>4. \A r \in Requests : \/ UpdateSkip(r) \/ UpdateContinue(r)
                          \/ UpdateFinish(r) \/ UpdateSession(r)
                          => Visit(r) /\ phase' = "update"
  BY DEF UpdateSkip, UpdateContinue, UpdateFinish, UpdateSession, Visit
<1>5. ScheduleStep \/ ResetStep \/ ClientStep \/ UNCHANGED vars =>
        \/ phase \notin {"engine", "update"} /\ phase' # "update"
        \/ phase' = phase /\ pending' = pending
        \/ phase = "engine" /\ phase' # "update"
  BY DEF ScheduleStep, ResetStep, ClientStep, BeginSchedule, RunningSkip, RunningPick,
     RunningSchedule, RunningPreempt, RunningDone, WaitingGrammar, WaitingSkip,
     WaitingAdmit, WaitingBlocked, WaitingDone, LeaveWaitingLoop, EndSchedule,
     BeginReset, ResetPreempt, EndReset, AddRequest, FinishRequests, StreamingUpdate,
     GrammarReady, vars, InRunningLoop, InWaitingLoop, BetweenSteps
<1>6. QED BY <1>1, <1>2, <1>3, <1>4, <1>5 DEF Next, UpdateStep

--------------------------------------------------------------------------------
(* Placeholders *)

\* A term at the end.
LEMMA SumAppend ==
    ASSUME NEW n \in Nat, NEW f \in [1 .. n -> Nat], NEW g \in [1 .. n + 1 -> Nat],
           \A i \in 1 .. n : g[i] = f[i], IsFiniteSet(Units(f))
    PROVE  IsFiniteSet(Units(g)) /\ Sum(g) = Sum(f) + g[n + 1]
<1> DEFINE B == {n + 1} \X (1 .. g[n + 1])
<1>1. n + 1 \in 1 .. n + 1 /\ \A i \in 1 .. n + 1 : i \in 1 .. n \/ i = n + 1
  OBVIOUS
<1>2. g[n + 1] \in Nat /\ IsFiniteSet(B) /\ Cardinality(B) = g[n + 1]
  BY <1>1, UnitsOfOne
<1>3. Units(g) = Units(f) \cup B
  <2>1. DOMAIN g = 1 .. n + 1 /\ DOMAIN f = 1 .. n
    OBVIOUS
  <2>2. ASSUME NEW p \in Units(g) PROVE p \in Units(f) \cup B
    <3>1. PICK i \in 1 .. n + 1 : p \in {i} \X (1 .. g[i])
      BY <2>1 DEF Units
    <3>2. QED BY <1>1, <2>1, <3>1 DEF Units
  <2>3. Units(f) \subseteq Units(g)
    <3>1. \A i \in 1 .. n : i \in 1 .. n + 1 /\ {i} \X (1 .. f[i]) = {i} \X (1 .. g[i])
      OBVIOUS
    <3>2. QED BY <2>1, <3>1 DEF Units
  <2>4. B \subseteq Units(g)
    BY <1>1, <2>1 DEF Units
  <2>5. QED BY <2>2, <2>3, <2>4
<1>4. Units(f) \cap B = {}
  <2>1. \A p \in Units(f) : p[1] \in 1 .. n
    BY DEF Units
  <2>2. \A p \in B : p[1] = n + 1
    OBVIOUS
  <2>3. QED BY <2>1, <2>2
<1> HIDE DEF B
<1>5. /\ IsFiniteSet(Units(f) \cup B)
      /\ Cardinality(Units(f) \cup B) = Cardinality(Units(f)) + Cardinality(B)
  BY <1>2, <1>4, DisjointUnion
<1>6. QED BY <1>2, <1>3, <1>5 DEF Sum

\* A term less at the beginning.
LEMMA SumTail ==
    ASSUME NEW n \in Nat, NEW f \in [1 .. n + 1 -> Nat], NEW g \in [1 .. n -> Nat],
           \A i \in 1 .. n : g[i] = f[i + 1], f[1] = 0, IsFiniteSet(Units(f))
    PROVE  IsFiniteSet(Units(g)) /\ Sum(g) = Sum(f)
<1> DEFINE h == [p \in Units(f) |-> <<p[1] - 1, p[2]>>]
<1>1. \A p \in Units(f) : /\ p = <<p[1], p[2]>> /\ p[1] \in 2 .. n + 1
                          /\ p[2] \in 1 .. f[p[1]]
  <2> TAKE p \in Units(f)
  <2>1. PICK i \in 1 .. n + 1 : p \in {i} \X (1 .. f[i])
    BY DEF Units
  <2>2. i # 1
    BY <2>1
  <2>3. QED BY <2>1, <2>2
<1>2. \A i \in 1 .. n : \A u \in 1 .. g[i] : <<i + 1, u>> \in Units(f)
  <2> TAKE i \in 1 .. n
  <2>1. i + 1 \in DOMAIN f /\ g[i] = f[i + 1]
    OBVIOUS
  <2>2. ASSUME NEW u \in 1 .. g[i] PROVE <<i + 1, u>> \in {i + 1} \X (1 .. f[i + 1])
    BY <2>1
  <2>3. QED BY <2>1, <2>2 DEF Units
<1>3. \A q \in Units(g) : q = <<q[1], q[2]>> /\ q[1] \in 1 .. n /\ q[2] \in 1 .. g[q[1]]
  <2> TAKE q \in Units(g)
  <2>1. PICK i \in 1 .. n : q \in {i} \X (1 .. g[i])
    BY DEF Units
  <2>2. QED BY <2>1
<1>4. \A i \in 1 .. n : \A u \in 1 .. g[i] : <<i, u>> \in Units(g)
  <2> TAKE i \in 1 .. n
  <2>1. ASSUME NEW u \in 1 .. g[i] PROVE <<i, u>> \in {i} \X (1 .. g[i])
    OBVIOUS
  <2>2. QED BY <2>1 DEF Units
<1>5. h \in [Units(f) -> Units(g)]
  <2>1. ASSUME NEW p \in Units(f) PROVE <<p[1] - 1, p[2]>> \in Units(g)
    <3>1. p[1] - 1 \in 1 .. n /\ g[p[1] - 1] = f[p[1]]
      BY <1>1
    <3>2. QED BY <1>1, <1>4, <3>1
  <2>2. QED BY <2>1
<1>6. \A p, q \in Units(f) : h[p] = h[q] => p = q
  <2> TAKE p, q \in Units(f)
  <2>1. h[p] = <<p[1] - 1, p[2]>> /\ h[q] = <<q[1] - 1, q[2]>>
    OBVIOUS
  <2>2. /\ p = <<p[1], p[2]>> /\ q = <<q[1], q[2]>> /\ p[1] \in Int /\ q[1] \in Int
    BY <1>1
  <2> HIDE DEF h
  <2>3. ASSUME h[p] = h[q] PROVE p[1] = q[1] /\ p[2] = q[2]
    <3>1. p[1] - 1 = q[1] - 1 /\ p[2] = q[2]
      BY <2>1, <2>3
    <3>2. QED BY <2>2, <3>1
  <2>4. QED BY <2>2, <2>3
<1>7. \A q \in Units(g) : \E p \in Units(f) : h[p] = q
  <2> TAKE q \in Units(g)
  <2> DEFINE p == <<q[1] + 1, q[2]>>
  <2>1. p \in Units(f)
    BY <1>2, <1>3
  <2>2. h[p] = <<q[1], q[2]>>
    BY <1>3, <2>1
  <2>3. QED BY <1>3, <2>1, <2>2
<1> HIDE DEF h
<1>8. h \in Bijection(Units(f), Units(g))
  BY <1>5, <1>6, <1>7 DEF Bijection, Injection, Surjection, IsInjective
<1>9. QED BY <1>8, FS_Bijection DEF ExistsBijection, Sum

LEMMA SumTerm ==
    ASSUME NEW S, NEW f \in [S -> Nat], NEW r \in S, IsFiniteSet(Units(f))
    PROVE  Sum(f) \in Nat /\ f[r] <= Sum(f)
<1> DEFINE B == {r} \X (1 .. f[r])
<1>1. B \subseteq Units(f)
  BY DEF Units
<1>2. Cardinality(B) = f[r]
  BY UnitsOfOne
<1> HIDE DEF B
<1>3. Cardinality(B) <= Cardinality(Units(f))
  BY <1>1, FS_Subset
<1>4. QED BY <1>2, <1>3, FS_CardinalityType DEF Sum

LEMMA AwaitedType ==
    ASSUME TypeOK, NEW s \in Requests
    PROVE  /\ Awaited(s) \in [DOMAIN batch_queue -> Nat]
           /\ \A i \in DOMAIN batch_queue : Awaited(s)[i] = AwaitedIn(i, s)
<1>1. \A i \in DOMAIN batch_queue : batch_queue[i] \in OutputType
  BY DEF TypeOK
<1>2. \A i \in DOMAIN batch_queue : batch_queue[i].spec[s] \in Nat
  BY <1>1 DEF OutputType
<1>3. QED BY <1>2 DEF Awaited, AwaitedIn

\* What is awaited grows with a step that is scheduled and shrinks with an answer.
LEMMA AwaitedSteps ==
    ASSUME IInv, TypeOK', Flights, [Next]_vars, NEW s \in Requests,
           IsFiniteSet(Units(Awaited(s)))
    PROVE  /\ IsFiniteSet(Units(Awaited(s)'))
           /\ EndSchedule =>
                 Sum(Awaited(s)') =
                     Sum(Awaited(s)) + IF Samples(s) THEN 1 + sch.spec[s] ELSE 0
           /\ ~EndSchedule =>
                 Sum(Awaited(s)') =
                     Sum(Awaited(s)) - IF Visit(s) THEN AwaitedIn(1, s) ELSE 0
<1> USE DEF IInv
<1> DEFINE f == Awaited(s)
           g == Awaited(s)'
<1>1. /\ f \in [DOMAIN batch_queue -> Nat]
      /\ \A i \in DOMAIN batch_queue : f[i] = AwaitedIn(i, s)
  BY AwaitedType
<1>2. /\ g \in [DOMAIN batch_queue' -> Nat]
      /\ \A i \in DOMAIN batch_queue' :
            g[i] = IF /\ s \in batch_queue'[i].sampled
                      /\ phase' = "update" /\ i = 1 => s \in pending'
                   THEN 1 + batch_queue'[i].spec[s] ELSE 0
  <2>1. \A i \in DOMAIN batch_queue' : batch_queue'[i] \in OutputType
    BY DEF TypeOK
  <2>2. \A i \in DOMAIN batch_queue' : batch_queue'[i].spec[s] \in Nat
    BY <2>1 DEF OutputType
  <2>3. QED BY <2>2 DEF Awaited, AwaitedIn, Unvisited
<1>3. Sum(f) \in Nat
  BY FS_CardinalityType DEF Sum
<1>4. CASE EndSchedule
  <2> DEFINE n == Len(batch_queue)
  <2>1. /\ n \in Nat /\ DOMAIN batch_queue = 1 .. n /\ DOMAIN batch_queue' = 1 .. n + 1
        /\ \A i \in 1 .. n : batch_queue'[i] = batch_queue[i]
        /\ batch_queue'[n + 1] = StepOutput
    BY <1>4, AppendedStep
  <2>2. phase # "update" /\ phase' # "update"
    BY <1>4 DEF EndSchedule
  <2> HIDE DEF n
  <2>3. \A i \in 1 .. n : g[i] = f[i]
    <3> HIDE DEF f, g
    <3>1. \A i \in 1 .. n : i \in 1 .. n + 1
      BY <2>1
    <3>2. QED BY <1>1, <1>2, <2>1, <2>2, <3>1 DEF AwaitedIn, Unvisited
  <2>4. g[n + 1] = IF Samples(s) THEN 1 + sch.spec[s] ELSE 0
    <3>1. s \in StepOutput.sampled <=> Samples(s)
      BY DEF StepOutput
    <3>2. StepOutput.spec[s] = sch.spec[s]
      BY DEF StepOutput
    <3>3. n + 1 \in DOMAIN batch_queue'
      BY <2>1
    <3> HIDE DEF g
    <3>4. QED BY <1>2, <2>1, <2>2, <3>1, <3>2, <3>3
  <2>5. IsFiniteSet(Units(g)) /\ Sum(g) = Sum(f) + g[n + 1]
    <3>1. f \in [1 .. n -> Nat] /\ g \in [1 .. n + 1 -> Nat] /\ IsFiniteSet(Units(f))
      BY <1>1, <1>2, <2>1
    <3> HIDE DEF f, g
    <3>2. QED BY ONLY <2>1, <2>3, <3>1, SumAppend
  <2>6. QED BY <1>4, <2>4, <2>5 DEF f, g
<1>5. CASE EndUpdate
  <2> DEFINE n == Len(batch_queue) - 1
  <2>1. /\ n \in Nat /\ DOMAIN batch_queue = 1 .. n + 1 /\ DOMAIN batch_queue' = 1 .. n
        /\ \A i \in 1 .. n : batch_queue'[i] = batch_queue[i + 1]
    BY <1>5, AnsweredStep
  <2>2. phase = "update" /\ phase' = "engine" /\ pending = {} /\ ~EndSchedule
    BY <1>5 DEF EndUpdate, EndSchedule
  <2> HIDE DEF n
  <2>3. f[1] = 0
    BY <1>1, <2>1, <2>2 DEF AwaitedIn, Unvisited
  <2>4. \A i \in 1 .. n : g[i] = f[i + 1]
    <3> TAKE i \in 1 .. n
    <3>1. i + 1 \in DOMAIN batch_queue /\ i + 1 # 1 /\ i \in DOMAIN batch_queue'
      BY <2>1
    <3>2. f[i + 1] = IF s \in batch_queue[i + 1].sampled
                     THEN 1 + batch_queue[i + 1].spec[s] ELSE 0
      BY <1>1, <3>1 DEF AwaitedIn, Unvisited
    <3>3. g[i] = IF s \in batch_queue'[i].sampled
                 THEN 1 + batch_queue'[i].spec[s] ELSE 0
      BY <1>2, <2>2, <3>1
    <3>4. QED BY <2>1, <3>2, <3>3
  <2>5. IsFiniteSet(Units(g)) /\ Sum(g) = Sum(f)
    <3>1. f \in [1 .. n + 1 -> Nat] /\ g \in [1 .. n -> Nat] /\ IsFiniteSet(Units(f))
      BY <1>1, <1>2, <2>1
    <3> HIDE DEF f, g
    <3>2. n \in Nat
      BY <2>1
    <3> HIDE DEF TypeOK, IInv, Flights
    <3>3. QED BY ONLY <2>3, <2>4, <3>1, <3>2, SumTail
  <2>6. ~Visit(s)
    BY <2>2 DEF Visit
  <2>7. QED BY <1>3, <2>2, <2>5, <2>6 DEF f, g
<1>6. CASE ~EndSchedule /\ ~EndUpdate
  <2>1. batch_queue' = batch_queue
    BY <1>6, SameSteps
  <2>2. \A i \in DOMAIN batch_queue : ~(Visit(s) /\ i = 1) => g[i] = f[i]
    <3> SUFFICES ASSUME NEW i \in DOMAIN batch_queue, ~(Visit(s) /\ i = 1)
                 PROVE  g[i] = f[i]
      OBVIOUS
    <3>1. s \in batch_queue[i].sampled => (Unvisited(i, s)' <=> Unvisited(i, s))
      BY <1>6, UnvisitedSteps
    <3>2. /\ f[i] = AwaitedIn(i, s)
          /\ g[i] = IF s \in batch_queue[i].sampled /\ Unvisited(i, s)'
                    THEN 1 + batch_queue[i].spec[s] ELSE 0
      BY <1>1, <1>2, <2>1 DEF Unvisited
    <3> HIDE DEF f, g
    <3>3. QED BY <3>1, <3>2 DEF AwaitedIn
  <2>3. CASE ~Visit(s)
    <3>1. g = f
      BY <1>1, <1>2, <2>1, <2>2, <2>3
    <3>2. QED BY <1>3, <1>6, <2>3, <3>1
  <2>4. CASE Visit(s)
    <3>1. 1 \in DOMAIN batch_queue
      BY <2>4, AnswerInProgress
    <3>2. g[1] = 0
      <4>1. g[1] = IF s \in batch_queue[1].sampled /\ Unvisited(1, s)'
                   THEN 1 + batch_queue[1].spec[s] ELSE 0
        BY <1>2, <2>1, <3>1 DEF Unvisited
      <4> HIDE DEF f, g
      <4>2. s \in batch_queue[1].sampled => ~Unvisited(1, s)'
        BY <1>6, <2>4, <3>1, UnvisitedSteps
      <4>3. QED BY <4>1, <4>2
    <3>3. f[1] = AwaitedIn(1, s) /\ f[1] \in Nat
      BY <1>1, <3>1
    <3>4. \A i \in DOMAIN batch_queue \ {1} : g[i] = f[i]
      BY <2>2
    <3> DEFINE D == DOMAIN batch_queue
    <3>5. f \in [D -> Int] /\ g \in [D -> Int] /\ 1 \in D
      BY <1>1, <1>2, <2>1, <3>1
    <3> HIDE DEF f, g, D
    <3>6. IsFiniteSet(Units(g)) /\ Sum(g) = Sum(f) - f[1] + g[1]
      BY <3>2, <3>3, <3>4, <3>5, SumUpdate DEF f, D
    <3>7. QED BY <1>3, <1>6, <2>4, <3>2, <3>3, <3>6 DEF f, g
  <2>5. QED BY <2>3, <2>4
<1>7. QED BY <1>4, <1>5, <1>6

LEMMA PlaceholdersStep ==
    ASSUME Resumable = {}, IInv, TypeOK', Flights, PlaceholdersAwaited, [Next]_vars
    PROVE  PlaceholdersAwaited'
<1> USE DEF IInv
<1>1. SUFFICES ASSUME NEW s \in Requests
               PROVE  /\ IsFiniteSet(Units(Awaited(s)'))
                      /\ req'[s].status # "FINISHED" =>
                            req'[s].placeholders = IF Async THEN Sum(Awaited(s)') ELSE 0
  BY DEF PlaceholdersAwaited, Units, Sum
<1> DEFINE old == Sum(Awaited(s))
           new == Sum(Awaited(s)')
           p == req[s].placeholders
<1>2. /\ IsFiniteSet(Units(Awaited(s)))
      /\ req[s].status # "FINISHED" => p = IF Async THEN old ELSE 0
  BY DEF PlaceholdersAwaited
<1>3. /\ IsFiniteSet(Units(Awaited(s)'))
      /\ EndSchedule => new = old + IF Samples(s) THEN 1 + sch.spec[s] ELSE 0
      /\ ~EndSchedule => new = old - IF Visit(s) THEN AwaitedIn(1, s) ELSE 0
  BY <1>2, AwaitedSteps
<1>4. old \in Nat
  BY <1>2, FS_CardinalityType DEF Sum
<1>5. p \in Int /\ sch.spec[s] \in Nat
  BY RequestFields, ScheduleFields
<1> HIDE DEF old, new, p
<1>6. SUFFICES ASSUME req'[s].status # "FINISHED"
               PROVE  req'[s].placeholders = IF Async THEN new ELSE 0
  BY <1>3 DEF new
<1>7. CASE Keeps(s)
  <2>1. req[s].status # "FINISHED" /\ req'[s].placeholders = p /\ ~EndSchedule
    BY <1>6, <1>7 DEF Keeps, p
  <2>2. Visit(s) => AwaitedIn(1, s) = 0
    <3>1. SUFFICES ASSUME Visit(s) PROVE s \notin batch_queue[1].sampled
      BY DEF AwaitedIn
    <3>2. Head(batch_queue) = batch_queue[1] /\ 1 \in DOMAIN batch_queue
      BY <3>1, AnswerInProgress
    <3>3. s \in batch_queue[1].sampled => Live(s)
      BY <2>1, <3>2 DEF Flights, Live
    <3>4. QED BY <1>7, <3>1, <3>2, <3>3 DEF Keeps
  <2>3. QED BY <1>2, <1>3, <1>4, <2>1, <2>2
<1>8. CASE Advances(s)
  <2>1. /\ req[s].status # "FINISHED" /\ EndSchedule
        /\ req'[s].placeholders = IF Async /\ Samples(s) THEN p + 1 + sch.spec[s] ELSE p
    BY <1>6, <1>8 DEF Advances, p
  <2>2. QED BY <1>2, <1>3, <1>4, <1>5, <2>1
<1>9. CASE Preempts(s)
  <2>1. /\ req[s].status # "FINISHED" /\ ~EndSchedule /\ ~Visit(s)
        /\ req'[s].placeholders = IF phase = "reset" THEN 0 ELSE p
    BY <1>9 DEF Preempts, Visit, p
  <2>2. phase = "reset" => ~Async
    BY EngineAssumption DEF Flights
  <2>3. QED BY <1>2, <1>3, <1>4, <2>1, <2>2
<1>10. CASE Admits(s)
  <2>1. /\ req[s].status # "FINISHED" /\ ~EndSchedule /\ ~Visit(s)
        /\ req'[s].placeholders = p
    BY <1>10 DEF Admits, Visit, p
  <2>2. QED BY <1>2, <1>3, <1>4, <2>1
<1>11. CASE Answers(s)
  <2>1. /\ Visit(s) /\ s \in Head(batch_queue).sampled /\ ~EndSchedule
        /\ req[s].status # "FINISHED"
    BY <1>11 DEF Answers, Live
  <2>2. Head(batch_queue) = batch_queue[1] /\ 1 \in DOMAIN batch_queue
        /\ Head(batch_queue).spec[s] \in Nat
    BY <2>1, AnswerInProgress
  <2> DEFINE d == Head(batch_queue).spec[s]
  <2>3. AwaitedIn(1, s) = 1 + d
    BY <2>1, <2>2 DEF AwaitedIn, Unvisited, Visit
  <2>4. 1 + d <= old
    <3>1. Awaited(s) \in [DOMAIN batch_queue -> Nat] /\ Awaited(s)[1] = 1 + d
      BY <2>2, <2>3, AwaitedType
    <3>2. QED BY <1>2, <2>2, <3>1, SumTerm DEF old
  <2>5. PICK g \in 1 .. 1 + d :
          LET x == 1 + d - g
              q == IF p > 0 THEN p - x ELSE p
          IN  req'[s].placeholders = IF Async THEN q - g ELSE q
    BY <1>11 DEF Answers, p
  <2> HIDE DEF d
  <2>6. d \in Nat /\ g \in Int
    BY <2>2 DEF d
  <2>7. CASE Async
    <3>1. p = old /\ p > 0 /\ new = old - (1 + d)
      BY <1>2, <1>3, <1>4, <2>1, <2>3, <2>4, <2>6, <2>7
    <3>2. req'[s].placeholders = p - (1 + d - g) - g
      BY <2>5, <2>7, <3>1
    <3>3. QED BY <1>4, <2>6, <2>7, <3>1, <3>2
  <2>8. CASE ~Async
    BY <1>2, <2>1, <2>5, <2>8
  <2>9. QED BY <2>7, <2>8
<1>12. CASE Ends(s)
  BY <1>6, <1>12 DEF Ends
<1>13. QED BY <1>7, <1>8, <1>9, <1>10, <1>11, <1>12, TokenMoves DEF TokenMove

--------------------------------------------------------------------------------
(* One call of schedule() *)

InSchedule == {"running", "allocate", "waiting", "close"}

\* A step inside schedule() that gives no tokens and takes none back.
SameCounts ==
    /\ sch'.num = sch.num /\ sch'.spec = sch.spec /\ sch'.budget = sch.budget
    /\ sch'.continued = sch.continued /\ Scheduled' = Scheduled
    /\ UNCHANGED <<running, blocks>> /\ phase \in InSchedule
    /\ \A s \in Requests :
          /\ req'[s].tokens = req[s].tokens /\ req'[s].placeholders = req[s].placeholders
          /\ req'[s].computed = req[s].computed /\ req'[s].spec = req[s].spec
          /\ req'[s].status = "RUNNING" <=> req[s].status = "RUNNING"

LEMMA SchedulingSteps ==
    ASSUME IInv, IInv', [Next]_vars, phase' \in InSchedule
    PROVE  \/ BeginSchedule \/ RunningSchedule \/ RunningPreempt \/ WaitingAdmit
           \/ SameCounts
<1> USE DEF IInv
<1>1. \A s \in Requests : req[s] \in RequestType /\ req[s].status \in Statuses
  BY RequestFields
<1>2. CASE \/ RunningSkip \/ RunningPick \/ RunningDone \/ WaitingSkip
           \/ LeaveWaitingLoop /\ phase = "waiting"
  <2>1. req' = req /\ UNCHANGED <<running, blocks>> /\ phase \in InSchedule
    BY <1>2 DEF RunningSkip, RunningPick, RunningDone, WaitingSkip, LeaveWaitingLoop,
       InRunningLoop, InWaitingLoop, requestVars, cacheVars, InSchedule
  <2>2. /\ sch'.num = sch.num /\ sch'.spec = sch.spec /\ sch'.budget = sch.budget
        /\ sch'.continued = sch.continued /\ sch'.new = sch.new
        /\ sch'.resumed = sch.resumed
    BY <1>2, ScheduleFields DEF RunningSkip, RunningPick, RunningDone, WaitingSkip,
       LeaveWaitingLoop, ScheduleType
  <2>3. QED BY <2>1, <2>2 DEF SameCounts, Scheduled
<1>3. CASE WaitingGrammar
  <2>1. PICK i \in DOMAIN waiting :
          /\ req[waiting[i]].status = "WAITING_FOR_FSM"
          /\ req' = [req EXCEPT ![waiting[i]].status = "WAITING"]
    BY <1>3 DEF WaitingGrammar
  <2> DEFINE r == waiting[i]
             q == [req[r] EXCEPT !.status = "WAITING"]
  <2>2. r \in Requests
    BY WaitingElements
  <2>3. /\ q.status = "WAITING" /\ q.tokens = req[r].tokens /\ q.spec = req[r].spec
        /\ q.computed = req[r].computed /\ q.placeholders = req[r].placeholders
    BY <2>2, RequestFields DEF RequestType
  <2>4. req'[r] = q /\ Others(r)
    BY <2>1, <2>2 DEF TypeOK, Others
  <2>5. sch' = sch /\ UNCHANGED <<running, blocks>> /\ phase \in InSchedule
    BY <1>3 DEF WaitingGrammar, InWaitingLoop, cacheVars, InSchedule
  <2> HIDE DEF q
  <2>6. QED BY <2>1, <2>3, <2>4, <2>5 DEF SameCounts, Scheduled, Others
<1>4. CASE UNCHANGED vars \/ \E r \in Requests : GrammarReady(r)
  BY <1>4 DEF vars, requestVars, cacheVars, GrammarReady, SameCounts, Scheduled
<1>5. CASE EndSchedule \/ UpdateStep \/ ResetStep
           \/ \E r \in Requests : AddRequest(r) \/ FinishRequests(r) \/ StreamingUpdate(r)
  BY <1>5 DEF EndSchedule, UpdateStep, ResetStep, BeginUpdate, UpdateSkip, UpdateContinue,
     UpdateFinish, UpdateSession, EndUpdate, BeginReset, ResetPreempt, EndReset,
     AddRequest, FinishRequests, StreamingUpdate, BetweenSteps, Visit, InSchedule
<1>6. (WaitingBlocked \/ WaitingDone) => (LeaveWaitingLoop /\ phase = "waiting")
  BY DEF WaitingBlocked, WaitingDone, InWaitingLoop
<1>7. CASE ScheduleStep
  BY <1>2, <1>3, <1>5, <1>6, <1>7 DEF ScheduleStep
<1>8. CASE ClientStep
  BY <1>4, <1>5, <1>8 DEF ClientStep
<1>9. QED
  BY <1>4, <1>5, <1>7, <1>8 DEF Next

\* The waiting loop admits a request for tokens it has not computed.
LEMMA AdmittedCount ==
    ASSUME IInv, SlotsHeld, InWaitingLoop,
           NEW r \in Requests, req[r].status \in {"WAITING", "PREEMPTED"},
           NEW computed \in CachedTokens(r), NEW n,
           n = Least(NumPrefillTokens(r, computed), sch.budget)
    PROVE  /\ computed \in Nat /\ n \in Nat /\ 0 < n /\ n <= sch.budget
           /\ computed + n <= req[r].tokens
<1> USE DEF IInv
<1>1. req[r].computed = 0
  BY DEF SlotsHeld
<1>2. PICK h \in CacheHits : computed = h * BlockSize /\ h * BlockSize < req[r].tokens
  BY <1>1 DEF CachedTokens
<1>3. h \in Nat /\ BlockSize \in Nat /\ req[r].tokens \in Int
  BY ConstantTypes, RequestFields
<1>4. computed \in Nat /\ computed < req[r].tokens
  BY <1>2, <1>3
<1>5. /\ NumPrefillTokens(r, computed) \in Int /\ 0 < NumPrefillTokens(r, computed)
      /\ NumPrefillTokens(r, computed) <= req[r].tokens - computed
  BY <1>3, <1>4, ConstantTypes DEF NumPrefillTokens, Threshold
<1>6. sch.budget \in Int /\ sch.budget > 0
  BY ScheduleFields DEF InWaitingLoop
<1> HIDE DEF IInv
<1>7. QED BY <1>3, <1>4, <1>5, <1>6 DEF Least

\* The tokens of one request change, and the budget by as much.
LEMMA BudgetMoves ==
    ASSUME TypeOK, BudgetInv, phase \in InSchedule, NEW r \in Requests, NEW n \in Nat,
           sch.num[r] \in Nat, sch'.num = [sch.num EXCEPT ![r] = n],
           sch'.budget = sch.budget + sch.num[r] - n, n <= sch.budget
    PROVE  /\ sch'.budget >= 0 /\ IsFiniteSet(Units(sch'.num))
           /\ Sum(sch'.num) + sch'.budget = MaxBatched
<1>1. /\ sch.budget >= 0 /\ IsFiniteSet(Units(sch.num))
      /\ Sum(sch.num) + sch.budget = MaxBatched
  BY DEF BudgetInv, InSchedule
<1>2. sch.num \in [Requests -> Int] /\ sch.budget \in Int
  BY ScheduleFields
<1> DEFINE f == sch.num
           g == [f EXCEPT ![r] = n]
<1>3. f \in [Requests -> Int] /\ g \in [Requests -> Int] /\ f[r] \in Nat /\ g[r] = n
      /\ \A s \in Requests \ {r} : g[s] = f[s]
  BY <1>2
<1>4. sch'.num = g
  OBVIOUS
<1>5. Sum(f) \in Int
  BY <1>1, FS_CardinalityType DEF Sum
<1> HIDE DEF f, g
<1>6. IsFiniteSet(Units(f)) /\ Sum(f) + sch.budget = MaxBatched
  BY <1>1 DEF f
<1>7. IsFiniteSet(Units(g)) /\ Sum(g) = Sum(f) - f[r] + g[r]
  BY <1>3, <1>6, SumUpdate
<1>8. sch'.budget = sch.budget + f[r] - n
  BY DEF f
<1>9. QED BY <1>1, <1>2, <1>3, <1>4, <1>5, <1>6, <1>7, <1>8

LEMMA WithoutShorter ==
    ASSUME NEW S, NEW s \in Seq(S), NEW r
    PROVE  Len(Without(s, r)) \in Nat /\ Len(Without(s, r)) <= Len(s)
<1>1. CASE \E i \in DOMAIN s : s[i] = r
  <2> DEFINE i == CHOOSE i \in DOMAIN s : s[i] = r
  <2>1. i \in 1 .. Len(s)
    BY <1>1
  <2> HIDE DEF i
  <2>2. Len(RemoveAt(s, i)) = Len(s) - 1 /\ Len(s) \in Nat /\ Len(s) >= 1
    BY <2>1, RemoveAtIsSeq
  <2>3. Without(s, r) = RemoveAt(s, i)
    BY <1>1 DEF Without, i
  <2>4. QED BY <2>2, <2>3
<1>2. CASE ~\E i \in DOMAIN s : s[i] = r
  BY <1>2 DEF Without
<1>3. QED BY <1>1, <1>2

LEMMA RunningBoundStep ==
    ASSUME IInv, BudgetInv, [Next]_vars
    PROVE  Len(running') <= MaxNumSeqs
<1>1. /\ running \in Seq(Requests) /\ Len(running) \in Nat
      /\ MaxNumSeqs \in Nat /\ Len(running) <= MaxNumSeqs
  BY ConstantTypes DEF IInv, TypeOK, BudgetInv
<1>2. ASSUME NEW i \in DOMAIN running, running' = RemoveAt(running, i)
      PROVE  Len(running') <= MaxNumSeqs
  <2>1. i \in 1 .. Len(running)
    BY <1>1
  <2>2. Len(running') = Len(running) - 1
    BY <1>1, <1>2, <2>1, RemoveAtIsSeq
  <2>3. QED BY <1>1, <2>2
<1>3. ASSUME NEW r, running' = Without(running, r) PROVE Len(running') <= MaxNumSeqs
  BY <1>1, <1>3, WithoutShorter
<1>4. CASE RunningPreempt
  BY <1>2, <1>4 DEF RunningPreempt
<1>5. CASE ResetPreempt
  <2>1. Len(running) \in DOMAIN running
    BY <1>1, <1>5 DEF ResetPreempt
  <2>2. QED BY <1>2, <1>5, <2>1 DEF ResetPreempt
<1>6. CASE WaitingAdmit
  <2>1. PICK r : running' = Append(running, r)
    BY <1>6 DEF WaitingAdmit
  <2>2. Len(running) # MaxNumSeqs
    BY <1>6 DEF WaitingAdmit, InWaitingLoop
  <2>3. QED BY <1>1, <2>1, <2>2
<1>7. CASE \E r \in Requests : UpdateFinish(r) \/ UpdateSession(r) \/ Finished(r)
  <2>1. PICK r \in Requests : running' = running \/ running' = Without(running, r)
    BY <1>7 DEF UpdateFinish, UpdateSession, Finished, RemoveFromQueues, RequeueSession
  <2>2. QED BY <1>1, <1>3, <2>1
<1>8. CASE /\ ~RunningPreempt /\ ~WaitingAdmit /\ ~ResetPreempt
           /\ ~\E r \in Requests : UpdateFinish(r) \/ UpdateSession(r) \/ Finished(r)
  <2>1. running' = running
    BY <1>8 DEF Next, ScheduleStep, UpdateStep, ResetStep, ClientStep, BeginSchedule,
       RunningSkip, RunningPick, RunningSchedule, RunningDone, WaitingGrammar,
       WaitingSkip, WaitingBlocked, WaitingDone, LeaveWaitingLoop, EndSchedule,
       BeginUpdate, UpdateSkip, UpdateContinue, EndUpdate, BeginReset, EndReset,
       AddRequest, FinishRequests, StreamingUpdate, GrammarReady, vars, requestVars
  <2>2. QED BY <1>1, <2>1
<1>9. QED BY <1>4, <1>5, <1>6, <1>7, <1>8

\* Outside what is scheduled no tokens are counted; inside, more than the drafts.
LEMMA CountsAreNatural ==
    ASSUME IInv, ScheduledCounts, NEW r \in Requests
    PROVE  /\ sch.num[r] \in Nat
           /\ req[r].status # "RUNNING" => r \notin Scheduled /\ sch.num[r] = 0
           /\ sch.spec[r] \in Nat /\ (r \notin Scheduled => sch.spec[r] = 0)
<1>1. sch.num[r] \in Int /\ sch.spec[r] \in Nat
  BY ScheduleFields DEF IInv
<1>2. r \notin Scheduled => sch.num[r] = 0
  BY DEF IInv, ScheduledAreRunning
<1>3. r \in Scheduled => req[r].status = "RUNNING"
  BY DEF IInv, ScheduledAreRunning
<1>4. r \in Scheduled => sch.num[r] > sch.spec[r]
  BY DEF ScheduledCounts
<1>5. r \notin Scheduled => sch.spec[r] = 0
  BY DEF ScheduledCounts
<1>6. QED BY <1>1, <1>2, <1>3, <1>4, <1>5

\* What RunningSchedule allocates for has no tokens yet.
LEMMA AllocatedIsNew ==
    ASSUME IInv, AllocationFits, phase = "allocate"
    PROVE  /\ sch.request \in Requests /\ sch.request \notin Scheduled
           /\ sch.num[sch.request] = 0
           /\ sch.new_tokens \in Nat /\ 0 < sch.new_tokens /\ sch.new_tokens <= sch.budget
<1>1. sch.request \in Requests
  BY AllocatedType DEF IInv
<1>2. sch.request \notin Scheduled
  BY DEF AllocationFits, Scheduled, IInv, ScheduleStages
<1>3. sch.new_tokens \in Int /\ sch.budget \in Int
  BY ScheduleFields DEF IInv
<1>4. QED BY <1>1, <1>2, <1>3 DEF AllocationFits, IInv, ScheduledAreRunning

LEMMA BudgetStep ==
    ASSUME IInv, IInv', BudgetInv, ScheduledCounts, AllocationFits, SlotsHeld, [Next]_vars
    PROVE  BudgetInv'
<1> USE DEF IInv
<1>1. Len(running') <= MaxNumSeqs
  BY RunningBoundStep
<1>2. SUFFICES ASSUME phase' \in InSchedule
               PROVE  /\ sch'.budget >= 0 /\ IsFiniteSet(Units(sch'.num))
                      /\ Sum(sch'.num) + sch'.budget = MaxBatched
  BY <1>1 DEF BudgetInv, InSchedule, Units, Sum
<1>3. CASE BeginSchedule
  <2>1. sch'.num = [r \in Requests |-> 0] /\ sch'.budget = MaxBatched
    BY <1>3 DEF BeginSchedule, NoSchedule
  <2> DEFINE g == sch'.num
  <2>2. g = [r \in Requests |-> 0]
    BY <2>1
  <2> HIDE DEF g
  <2>3. IsFiniteSet(Units(g)) /\ Sum(g) = 0
    BY <2>2, SumOfNothing
  <2>4. QED BY <2>1, <2>3, ConstantTypes DEF g
<1>4. CASE RunningSchedule
  <2> DEFINE r == sch.request
             n == sch.new_tokens
  <2>1. phase = "allocate"
    BY <1>4 DEF RunningSchedule
  <2>2. r \in Requests /\ sch.num[r] = 0 /\ n \in Nat /\ n <= sch.budget
    BY <2>1, AllocatedIsNew
  <2>3. sch'.num = [sch.num EXCEPT ![r] = n] /\ sch'.budget = sch.budget - n
    BY <1>4, RunningScheduleEffect
  <2>4. sch'.budget = sch.budget + sch.num[r] - n
    BY <2>2, <2>3, ScheduleFields
  <2> HIDE DEF r, n
  <2>5. QED BY <2>1, <2>2, <2>3, <2>4, BudgetMoves DEF InSchedule
<1>5. CASE RunningPreempt
  <2>1. PICK v \in Requests :
          /\ sch'.num = [sch.num EXCEPT ![v] = 0]
          /\ sch'.budget = sch.budget + sch.num[v]
    BY <1>5, RunningPreemptEffect
  <2>2. phase \in InSchedule
    BY <1>5 DEF RunningPreempt, InSchedule
  <2>3. sch.num[v] \in Nat /\ sch.budget \in Int /\ sch.budget >= 0
    BY <2>2, CountsAreNatural, ScheduleFields DEF BudgetInv, InSchedule
  <2>4. 0 \in Nat /\ 0 <= sch.budget /\ sch'.budget = sch.budget + sch.num[v] - 0
    BY <2>1, <2>3
  <2>5. QED BY <2>1, <2>2, <2>3, <2>4, BudgetMoves
<1>6. CASE WaitingAdmit
  <2>1. PICK r \in Requests : \E computed \in CachedTokens(r) : \E n \in Int :
          /\ n = Least(NumPrefillTokens(r, computed), sch.budget)
          /\ req[r].status \in {"WAITING", "PREEMPTED"}
          /\ sch'.num = [sch.num EXCEPT ![r] = n] /\ sch'.budget = sch.budget - n
    BY <1>6, WaitingAdmitEffect
  <2>2. PICK computed \in CachedTokens(r), n \in Int :
          /\ n = Least(NumPrefillTokens(r, computed), sch.budget)
          /\ req[r].status \in {"WAITING", "PREEMPTED"}
          /\ sch'.num = [sch.num EXCEPT ![r] = n] /\ sch'.budget = sch.budget - n
    BY <2>1
  <2>3. InWaitingLoop /\ phase \in InSchedule
    BY <1>6 DEF WaitingAdmit, InWaitingLoop, InSchedule
  <2>4. n \in Nat /\ n <= sch.budget
    BY <2>2, <2>3, AdmittedCount
  <2>5. sch.num[r] = 0 /\ sch.num[r] \in Nat
    BY <2>2, CountsAreNatural
  <2>6. sch'.budget = sch.budget + sch.num[r] - n
    BY <2>2, <2>4, <2>5, ScheduleFields
  <2>7. QED BY <2>2, <2>3, <2>4, <2>5, <2>6, BudgetMoves
<1>7. CASE SameCounts
  BY <1>7 DEF SameCounts, BudgetInv, InSchedule
<1>8. QED BY <1>2, <1>3, <1>4, <1>5, <1>6, <1>7, SchedulingSteps

LEMMA RemoveAtShifts ==
    ASSUME NEW S, NEW s \in Seq(S), NEW i \in DOMAIN s, NEW p \in DOMAIN s, p # i
    PROVE  LET q == IF p < i THEN p ELSE p - 1
           IN  q \in DOMAIN RemoveAt(s, i) /\ RemoveAt(s, i)[q] = s[p]
<1> DEFINE t == RemoveAt(s, i)
           q == IF p < i THEN p ELSE p - 1
<1>1. i \in 1 .. Len(s) /\ p \in 1 .. Len(s) /\ Len(s) \in Nat
  OBVIOUS
<1>2. /\ t \in Seq(S) /\ Len(t) = Len(s) - 1
      /\ \A j \in 1 .. Len(s) - 1 : t[j] = IF j < i THEN s[j] ELSE s[j + 1]
  BY <1>1, RemoveAtIsSeq
<1> HIDE DEF t
<1>3. q \in 1 .. Len(s) - 1 /\ DOMAIN t = 1 .. Len(s) - 1
  BY <1>1, <1>2
<1>4. t[q] = s[p]
  BY <1>1, <1>2, <1>3
<1>5. QED BY <1>3, <1>4 DEF t

LEMMA LoopBehindOfPreempt ==
    ASSUME IInv, LoopBehind, RunningPreempt
    PROVE  LoopBehind'
<1> USE DEF IInv
<1>1. PICK i \in DOMAIN running :
        LET v == running[i]
        IN  /\ IsVictim(i) /\ running' = RemoveAt(running, i)
            /\ IF v = sch.request
               THEN /\ phase' = "close"
                    /\ sch' = [Unschedule(v) EXCEPT !.request = NoRequest,
                                                    !.new_tokens = 0]
               ELSE /\ phase' = phase
                    /\ sch' = Unschedule(v)
  BY DEF RunningPreempt
<1> DEFINE v == running[i]
<1>2. v \in Requests /\ phase = "allocate" /\ running \in Seq(Requests)
      /\ sch.index \in Int
  BY RunningElements, ScheduleFields DEF RunningPreempt, TypeOK
<1>3. SUFFICES ASSUME v # sch.request PROVE LoopBehind'
  BY <1>1 DEF LoopBehind
<1> DEFINE out == Policy = "priority" /\ v \in sch.continued
<1>4. /\ sch'.request = sch.request
      /\ sch'.continued = IF out THEN sch.continued \ {v} ELSE sch.continued
      /\ sch'.index = IF out THEN sch.index - 1 ELSE sch.index
  <2>1. sch' = Unschedule(v)
    BY <1>1, <1>3
  <2> HIDE DEF v
  <2>2. QED BY <1>2, <2>1, UnscheduleFields
<1>5. v \in sch.continued => i < sch.index
  <2>1. v \in sch.continued => \E j \in DOMAIN running : j < sch.index /\ running[j] = v
    BY <1>2 DEF LoopBehind
  <2>2. QED BY <2>1 DEF RunningAgreement, NoDuplicates
<1>6. v \in sch.continued => out
  <2>1. SUFFICES ASSUME Policy = "fcfs", v \in sch.continued PROVE FALSE
    BY ConfigAssumption
  <2>2. i = Len(running) /\ sch.index \in 1 .. Len(running) /\ Len(running) \in Nat
    BY <1>1, <1>2, <2>1 DEF IsVictim, LoopIndex
  <2>3. QED BY <1>5, <2>1, <2>2
<1>7. /\ DOMAIN running \subseteq Int /\ i \in Int
  BY <1>2
<1>8. ASSUME NEW j \in DOMAIN running, running[j] # v
      PROVE  \E k \in DOMAIN running' :
                /\ running'[k] = running[j]
                /\ k = IF j < i THEN j ELSE j - 1
  <2>1. j # i
    BY <1>8
  <2>2. QED BY <1>1, <1>2, <2>1, RemoveAtShifts
<1>9. ASSUME phase' \in {"running", "allocate"}, NEW r \in sch'.continued
      PROVE  \E k \in DOMAIN running' : k < sch'.index /\ running'[k] = r
  <2>1. r \in sch.continued /\ r # v
    BY <1>4, <1>6, <1>9
  <2>2. PICK j \in DOMAIN running : j < sch.index /\ running[j] = r
    BY <1>2, <2>1 DEF LoopBehind
  <2>3. PICK k \in DOMAIN running' : running'[k] = r /\ k = IF j < i THEN j ELSE j - 1
    BY <1>8, <2>1, <2>2
  <2>4. j \in Int /\ j # i
    BY <1>7, <2>1, <2>2
  <2> HIDE DEF v, out
  <2>5. k < sch'.index
    BY <1>2, <1>4, <1>5, <1>7, <2>2, <2>3, <2>4 DEF out
  <2>6. QED BY <2>3, <2>5
<1>10. \E k \in DOMAIN running' : k <= sch'.index /\ running'[k] = sch'.request
  <2>1. PICK j \in DOMAIN running : j <= sch.index /\ running[j] = sch.request
    BY <1>2 DEF LoopBehind
  <2>2. PICK k \in DOMAIN running' :
          running'[k] = sch.request /\ k = IF j < i THEN j ELSE j - 1
    BY <1>3, <1>8, <2>1
  <2>3. j \in Int /\ j # i
    BY <1>3, <1>7, <2>1
  <2> HIDE DEF v, out
  <2>4. k <= sch'.index
    BY <1>2, <1>4, <1>5, <1>7, <2>1, <2>2, <2>3 DEF out
  <2>5. QED BY <1>4, <2>2, <2>4
<1>11. QED BY <1>9, <1>10 DEF LoopBehind

LEMMA LoopBehindStep ==
    ASSUME IInv, LoopBehind, [Next]_vars
    PROVE  LoopBehind'
<1> USE DEF IInv
<1>1. SUFFICES ASSUME phase' \in {"running", "allocate"} PROVE LoopBehind'
  BY DEF LoopBehind
<1>2. sch.index \in Int /\ running \in Seq(Requests) /\ DOMAIN running \subseteq Int
  BY ScheduleFields DEF TypeOK
<1>3. CASE BeginSchedule
  <2>1. sch'.continued = {} /\ phase' # "allocate"
    BY <1>3 DEF BeginSchedule, NoSchedule
  <2>2. QED BY <2>1 DEF LoopBehind
<1>4. CASE RunningSkip
  <2>1. /\ sch'.continued = sch.continued /\ sch'.index = sch.index + 1
        /\ running' = running /\ phase = "running" /\ phase' = "running"
    BY <1>4, ScheduleFields DEF RunningSkip, InRunningLoop, requestVars, ScheduleType
  <2>2. QED BY <1>2, <2>1 DEF LoopBehind
<1>5. CASE RunningPick
  <2>1. /\ sch'.continued = sch.continued /\ sch'.index = sch.index
        /\ sch'.request = running[sch.index]
        /\ running' = running /\ phase = "running" /\ phase' = "allocate"
    BY <1>5, ScheduleFields DEF RunningPick, InRunningLoop, requestVars, ScheduleType
  <2>2. sch.index \in DOMAIN running
    BY <1>5, IndexInList DEF RunningPick
  <2>3. QED BY <1>2, <2>1, <2>2 DEF LoopBehind
<1>6. CASE RunningSchedule
  <2>1. /\ sch'.continued = sch.continued \cup {sch.request}
        /\ sch'.index = sch.index + 1
        /\ running' = running /\ phase = "allocate" /\ phase' = "running"
    BY <1>6, ScheduleFields DEF RunningSchedule, ScheduleType
  <2>2. \A r \in sch'.continued :
          \E i \in DOMAIN running : i <= sch.index /\ running[i] = r
    BY <1>2, <2>1 DEF LoopBehind
  <2>3. QED BY <1>2, <2>1, <2>2 DEF LoopBehind
<1>7. CASE RunningPreempt
  BY <1>7, LoopBehindOfPreempt
<1>8. CASE LeaveWaitingLoop /\ phase = "waiting"
  <2>1. sch'.continued = sch.continued /\ phase' # "allocate" /\ SplitPD
    BY <1>1, <1>8, ScheduleFields DEF LeaveWaitingLoop, ScheduleType
  <2>2. sch.continued = {}
    BY <1>8, <2>1 DEF ScheduleStages
  <2>3. QED BY <2>1, <2>2 DEF LoopBehind
<1>9. CASE UNCHANGED vars \/ \E r \in Requests : GrammarReady(r)
  BY <1>9 DEF LoopBehind, vars, requestVars, GrammarReady
<1>10. CASE \/ RunningDone \/ WaitingGrammar \/ WaitingSkip \/ WaitingAdmit \/ EndSchedule
            \/ UpdateStep \/ ResetStep
            \/ \E r \in Requests : AddRequest(r) \/ FinishRequests(r) \/ StreamingUpdate(r)
  BY <1>1, <1>10 DEF RunningDone, WaitingGrammar, WaitingSkip, WaitingAdmit, EndSchedule,
     InWaitingLoop, UpdateStep, ResetStep, BeginUpdate, UpdateSkip, UpdateContinue,
     UpdateFinish, UpdateSession, EndUpdate, BeginReset, ResetPreempt, EndReset,
     AddRequest, FinishRequests, StreamingUpdate, BetweenSteps, Visit
<1>11. WaitingBlocked \/ WaitingDone => (LeaveWaitingLoop /\ phase = "waiting")
  BY DEF WaitingBlocked, WaitingDone, InWaitingLoop
<1>12. CASE ScheduleStep
  BY <1>3, <1>4, <1>5, <1>6, <1>7, <1>8, <1>10, <1>11, <1>12 DEF ScheduleStep
<1>13. CASE ClientStep
  BY <1>9, <1>10, <1>13 DEF ClientStep
<1>14. QED BY <1>9, <1>10, <1>12, <1>13 DEF Next

\* In the running loop a running request has not been computed beyond what is known and
\* awaited of it; when drafts are planned for it, something known or awaited is left.
LEMMA KnownNotPassed ==
    ASSUME IInv, DraftsBounded, Flights, PlaceholdersAwaited, WorkLeft,
           phase \in InSchedule, NEW r \in Requests, req[r].status = "RUNNING"
    PROVE  /\ req[r].computed <= req[r].tokens + req[r].placeholders
           /\ req[r].spec > 0 => req[r].computed < req[r].tokens + req[r].placeholders
<1> USE DEF IInv
<1>1. /\ req[r].tokens \in Int /\ req[r].computed \in Int /\ req[r].placeholders \in Int
      /\ req[r].spec \in Nat
  BY RequestFields
<1>2. CASE Async
  BY <1>1, <1>2 DEF WorkLeft
<1>3. CASE ~Async
  <2>1. req[r].placeholders = 0
    BY <1>3 DEF PlaceholdersAwaited
  <2>2. CASE req[r].computed < req[r].tokens
    BY <1>1, <2>1, <2>2
  <2>3. CASE ~(req[r].computed < req[r].tokens)
    <3>1. PICK i \in DOMAIN batch_queue :
            req[r].computed <= req[r].tokens + batch_queue[i].spec[r]
      BY <1>3, <2>3 DEF WorkLeft
    <3>2. Len(batch_queue) \in Nat /\ PipelineDepth \in Nat /\ DOMAIN batch_queue = 1 .. Len(batch_queue)
      BY ConfigAssumption DEF TypeOK, PositiveNat
    <3>3. PipelineDepth # 1
      BY <3>1, <3>2 DEF Flights, InSchedule
    <3>4. NumSpecTokens = 0
      BY <1>3, <3>3, ConstantTypes, EngineAssumption
    <3>5. batch_queue[i] \in OutputType
      BY <3>1 DEF TypeOK
    <3>6. batch_queue[i].spec[r] \in Nat /\ batch_queue[i].spec[r] <= NumSpecTokens
          /\ req[r].spec <= NumSpecTokens
      BY <3>5 DEF OutputType, DraftsBounded
    <3>7. QED BY <1>1, <2>1, <3>1, <3>4, <3>6
  <2>4. QED BY <2>2, <2>3
<1>4. QED BY <1>2, <1>3

LEMMA PickedFits ==
    ASSUME IInv, DraftsBounded, Flights, PlaceholdersAwaited, WorkLeft, LoopBehind,
           SlotsHeld, RunningPick
    PROVE  AllocationFits'
<1> USE DEF IInv
<1> DEFINE r == running[sch.index]
           n == NumNewTokens(r)
<1>1. /\ InRunningLoop /\ phase = "running" /\ n # 0 /\ sch.budget > 0
      /\ req' = req
      /\ sch' = [sch EXCEPT !.request = r, !.new_tokens = n]
  BY DEF RunningPick, InRunningLoop, requestVars
<1>2. sch.index \in DOMAIN running
  BY <1>1, IndexInList
<1>3. r \in Requests /\ req[r].status = "RUNNING"
  BY <1>2, RunningElements DEF RunningAgreement, ToSet
<1>4. r \notin sch.continued
  <2>1. DOMAIN running \subseteq Int
    BY DEF TypeOK
  <2>2. \A i \in DOMAIN running : running[i] = r => i = sch.index
    BY <1>2 DEF RunningAgreement, NoDuplicates
  <2>3. QED BY <1>1, <1>2, <2>1, <2>2 DEF LoopBehind
<1>5. sch.num[r] = 0
  BY <1>1, <1>3, <1>4 DEF ScheduledAreRunning, Scheduled, ScheduleStages
<1> HIDE DEF r
<1>6. /\ sch'.request = r /\ sch'.new_tokens = n /\ sch'.continued = sch.continued
      /\ sch'.budget = sch.budget /\ n \in Int /\ sch.budget \in Int
  BY <1>1, <1>3, ScheduleFields, NumNewTokensType DEF ScheduleType
<1>7. /\ req[r].tokens \in Int /\ req[r].computed \in Int /\ req[r].placeholders \in Int
      /\ req[r].spec \in Nat
  BY <1>3, RequestFields
<1>8. req[r].computed < MaxModelLen
  <2>1. req[r].computed + sch.num[r] < MaxModelLen
    BY <1>3 DEF SlotsHeld
  <2>2. QED BY <1>5, <1>7, <2>1
<1>9. req[r].computed <= req[r].tokens + req[r].placeholders
  BY <1>1, <1>3, KnownNotPassed DEF InSchedule
<1> DEFINE m == req[r].tokens + req[r].spec + req[r].placeholders - req[r].computed
<1>10. m \in Nat
  BY <1>7, <1>9
<1> HIDE DEF m
<1>11. Threshold(m) \in Nat /\ Threshold(m) <= m
  BY <1>10, ConstantTypes DEF Threshold
<1>12. n = Least(Least(Threshold(m), sch.budget), MaxModelLen - 1 - req[r].computed)
  BY DEF NumNewTokens, m
<1> HIDE DEF n
<1>13. 0 < n /\ n <= sch.budget /\ n <= m /\ n <= MaxModelLen - 1 - req[r].computed
  BY <1>1, <1>6, <1>7, <1>8, <1>10, <1>11, <1>12, ConstantTypes DEF Least
<1>14. /\ req[r].computed + n <= req[r].tokens + req[r].placeholders + req[r].spec
       /\ req[r].computed + n < MaxModelLen
  BY <1>6, <1>7, <1>13, ConstantTypes DEF m
<1>15. QED BY <1>1, <1>4, <1>6, <1>13, <1>14 DEF AllocationFits

LEMMA AllocationStep ==
    ASSUME IInv, DraftsBounded, Flights, PlaceholdersAwaited, WorkLeft, LoopBehind,
           ScheduledCounts, AllocationFits, SlotsHeld, [Next]_vars
    PROVE  AllocationFits'
<1> USE DEF IInv
<1>1. CASE RunningPick
  BY <1>1, PickedFits
<1>2. CASE RunningPreempt
  <2>1. SUFFICES ASSUME phase' = "allocate" PROVE AllocationFits'
    BY DEF AllocationFits
  <2> DEFINE r == sch.request
  <2>2. phase = "allocate" /\ r \in Requests
    BY <1>2, AllocatedType DEF RunningPreempt
  <2>3. PICK v \in Requests :
          /\ Others(v) /\ v # r /\ sch'.budget = sch.budget + sch.num[v]
          /\ sch'.continued = sch.continued \ {v}
          /\ sch'.request = r /\ sch'.new_tokens = sch.new_tokens
    BY <1>2, <2>1, RunningPreemptEffect
  <2>4. sch.num[v] \in Nat /\ sch.budget \in Int /\ sch.new_tokens \in Int
    BY CountsAreNatural, ScheduleFields
  <2>5. req'[r] = req[r]
    BY <2>2, <2>3 DEF Others
  <2>6. /\ r \notin sch.continued
        /\ 0 < sch.new_tokens /\ sch.new_tokens <= sch.budget
        /\ req[r].computed + sch.new_tokens
              <= req[r].tokens + req[r].placeholders + req[r].spec
        /\ req[r].computed + sch.new_tokens < MaxModelLen
    BY <2>2 DEF AllocationFits
  <2> HIDE DEF r
  <2>7. sch'.new_tokens <= sch'.budget /\ r \notin sch'.continued
    BY <2>3, <2>4, <2>6
  <2>8. QED BY <2>3, <2>5, <2>6, <2>7 DEF AllocationFits
<1>3. CASE UNCHANGED vars \/ \E r \in Requests : GrammarReady(r)
  BY <1>3 DEF AllocationFits, vars, requestVars, GrammarReady
<1>4. CASE /\ ~RunningPick /\ ~RunningPreempt /\ ~UNCHANGED vars
           /\ ~\E r \in Requests : GrammarReady(r)
  <2>1. phase' # "allocate"
    BY <1>4 DEF Next, ScheduleStep, UpdateStep, ResetStep, ClientStep, BeginSchedule,
       RunningSkip, RunningSchedule, RunningDone, WaitingGrammar, WaitingSkip, WaitingAdmit,
       WaitingBlocked, WaitingDone, LeaveWaitingLoop, EndSchedule, InRunningLoop,
       InWaitingLoop, BeginUpdate, UpdateSkip, UpdateContinue, UpdateFinish, UpdateSession,
       EndUpdate, BeginReset, ResetPreempt, EndReset, AddRequest, FinishRequests,
       StreamingUpdate, BetweenSteps, Visit
  <2>2. QED BY <2>1 DEF AllocationFits
<1>5. QED BY <1>1, <1>2, <1>3, <1>4

\* The drafts among the tokens of a request are those beyond what is known and awaited.
LEMMA CountsOfRunningSchedule ==
    ASSUME IInv, DraftsBounded, Flights, PlaceholdersAwaited, WorkLeft, AllocationFits,
           phase = "allocate"
    PROVE  LET r == sch.request
               n == sch.new_tokens
               d == ScheduledDrafts(r, n)
               end == req[r].tokens + req[r].placeholders + d
           IN  /\ d \in Nat /\ d < n
               /\ req[r].computed + n <= end
               /\ d > 0 => req[r].computed + n = end
<1> USE DEF IInv
<1> DEFINE r == sch.request
           n == sch.new_tokens
           d == ScheduledDrafts(r, n)
<1>1. r \in Requests /\ req[r].status = "RUNNING"
  BY AllocatedType DEF LoopIndex, RunningAgreement
<1>2. /\ n \in Int /\ 0 < n
      /\ req[r].computed + n <= req[r].tokens + req[r].placeholders + req[r].spec
  BY ScheduleFields DEF AllocationFits
<1>3. /\ req[r].tokens \in Int /\ req[r].computed \in Int /\ req[r].placeholders \in Int
      /\ req[r].spec \in Nat
  BY <1>1, RequestFields
<1>4. /\ req[r].computed <= req[r].tokens + req[r].placeholders
      /\ req[r].spec > 0 => req[r].computed < req[r].tokens + req[r].placeholders
  BY <1>1, KnownNotPassed DEF InSchedule
<1> DEFINE x == n + req[r].computed - req[r].tokens - req[r].placeholders
<1>5. d = Most(0, Least(req[r].spec, x))
  BY DEF ScheduledDrafts
<1>6. x \in Int /\ x <= req[r].spec
  BY <1>2, <1>3
<1> HIDE DEF r, n, d, x
<1>7. d = IF x > 0 THEN x ELSE 0
  BY <1>3, <1>5, <1>6 DEF Most, Least
<1>8. d \in Nat /\ d < n
  BY <1>2, <1>3, <1>4, <1>6, <1>7 DEF x
<1>9. /\ req[r].computed + n <= req[r].tokens + req[r].placeholders + d
      /\ d > 0 => req[r].computed + n = req[r].tokens + req[r].placeholders + d
  BY <1>2, <1>3, <1>6, <1>7 DEF x
<1>10. QED BY <1>8, <1>9 DEF r, n, d

Counts(s) ==
    /\ s \notin Scheduled => sch.spec[s] = 0
    /\ s \in Scheduled =>
          LET end == req[s].tokens + req[s].placeholders + sch.spec[s]
          IN  /\ sch.num[s] > sch.spec[s]
              /\ req[s].computed + sch.num[s] <= end
              /\ sch.spec[s] > 0 => req[s].computed + sch.num[s] = end

LEMMA CountsOfAll ==
    ASSUME IInv
    PROVE  ScheduledCounts <=> \A s \in Requests : Counts(s)
<1>1. Scheduled \subseteq Requests
  BY ScheduleFields DEF IInv, Scheduled
<1>2. QED BY <1>1 DEF ScheduledCounts, Counts

LEMMA ScheduledCountsStep ==
    ASSUME IInv, IInv', DraftsBounded, Flights, PlaceholdersAwaited, WorkLeft,
           ScheduledCounts, AllocationFits, SlotsHeld, [Next]_vars
    PROVE  \A s \in Requests : Counts(s)'
<1> USE DEF IInv
<1> SUFFICES ASSUME NEW s \in Requests PROVE Counts(s)'
  OBVIOUS
<1>1. Counts(s)
  BY CountsOfAll
<1>2. CASE phase' \notin InSchedule
  <2>1. sch' = NoSchedule
    BY <1>2 DEF ScheduleStages, TypeOK, Phases, InSchedule
  <2>2. s \notin Scheduled' /\ sch'.spec[s] = 0
    BY <2>1, NoScheduleFields DEF Scheduled, NoSchedule
  <2>3. QED BY <2>2 DEF Counts
<1>3. CASE BeginSchedule
  <2>1. s \notin Scheduled' /\ sch'.spec[s] = 0
    BY <1>3 DEF BeginSchedule, NoSchedule, Scheduled
  <2>2. QED BY <2>1 DEF Counts
<1>4. CASE RunningSchedule
  <2> DEFINE r == sch.request
             n == sch.new_tokens
             d == ScheduledDrafts(r, n)
  <2>1. /\ r \in Requests /\ Others(r) /\ req'[r].tokens = req[r].tokens
        /\ req'[r].computed = req[r].computed
        /\ req'[r].placeholders = req[r].placeholders
        /\ sch'.num = [sch.num EXCEPT ![r] = n]
        /\ sch'.spec = [sch.spec EXCEPT ![r] = d]
        /\ Scheduled' = Scheduled \cup {r}
    BY <1>4, RunningScheduleEffect DEF SameTokens, Scheduled
  <2>2. LET end == req[r].tokens + req[r].placeholders + d
        IN  /\ d < n
            /\ req[r].computed + n <= end
            /\ d > 0 => req[r].computed + n = end
    BY <1>4, CountsOfRunningSchedule DEF RunningSchedule
  <2>3. /\ sch'.num[r] = n /\ sch'.spec[r] = d
        /\ s # r => sch'.num[s] = sch.num[s] /\ sch'.spec[s] = sch.spec[s]
    BY <2>1, ScheduleFields
  <2>4. n \in Int /\ d \in Nat
    BY <2>1, ScheduleFields, ScheduledDraftsType
  <2> HIDE DEF r, n, d
  <2>5. CASE s = r
    BY <2>1, <2>2, <2>3, <2>4, <2>5 DEF Counts
  <2>6. CASE s # r
    BY <1>1, <2>1, <2>3, <2>6 DEF Counts, Others
  <2>7. QED BY <2>5, <2>6
<1>5. CASE RunningPreempt
  <2>1. PICK v \in Requests :
          LET out == Policy = "priority" /\ v \in sch.continued
          IN  /\ Others(v) /\ req[v].status = "RUNNING" /\ req'[v].status = "PREEMPTED"
              /\ sch.num[v] # 0 => out
              /\ sch'.num = [sch.num EXCEPT ![v] = 0]
              /\ sch'.spec = IF out THEN [sch.spec EXCEPT ![v] = 0] ELSE sch.spec
              /\ sch'.new = sch.new /\ sch'.resumed = sch.resumed
              /\ sch'.continued = sch.continued \ {v}
    BY <1>5, RunningPreemptEffect
  <2>2. v \notin Scheduled'
    BY <2>1 DEF ScheduledAreRunning
  <2>3. Scheduled' = Scheduled \ {v}
    BY <2>1, <2>2 DEF Scheduled
  <2>4. sch'.spec[v] = 0
    <3>1. CASE sch.num[v] # 0
      BY <2>1, <3>1, ScheduleFields
    <3>2. CASE sch.num[v] = 0
      <4>1. v \notin Scheduled
        <5>1. v \in Scheduled => sch.num[v] > sch.spec[v] /\ sch.spec[v] \in Nat
          BY ScheduleFields DEF ScheduledCounts
        <5>2. QED BY <3>2, <5>1
      <4>2. sch.spec[v] = 0
        BY <4>1 DEF ScheduledCounts
      <4>3. QED BY <2>1, <4>2, ScheduleFields
    <3>3. QED BY <3>1, <3>2
  <2>5. s # v => sch'.num[s] = sch.num[s] /\ sch'.spec[s] = sch.spec[s]
    BY <2>1, ScheduleFields
  <2>6. CASE s = v
    BY <2>2, <2>4, <2>6 DEF Counts
  <2>7. CASE s # v
    BY <1>1, <2>1, <2>3, <2>5, <2>7 DEF Counts, Others
  <2>8. QED BY <2>6, <2>7
<1>6. CASE WaitingAdmit
  <2>1. PICK i \in DOMAIN waiting : \E computed \in CachedTokens(waiting[i]) : \E n \in Int :
          LET r == waiting[i]
          IN  /\ n = Least(NumPrefillTokens(r, computed), sch.budget)
              /\ r \in Requests /\ req[r].status \in {"WAITING", "PREEMPTED"}
              /\ Others(r) /\ SameTokens(req'[r], req[r])
              /\ req'[r].computed = computed
              /\ req'[r].placeholders = req[r].placeholders
              /\ sch'.num = [sch.num EXCEPT ![r] = n] /\ sch'.spec = sch.spec
              /\ sch'.continued = sch.continued
              /\ sch'.new \cup sch'.resumed = sch.new \cup sch.resumed \cup {r}
    BY <1>6, WaitingAdmitEffect
  <2> DEFINE r == waiting[i]
  <2> HIDE DEF r
  <2>2. PICK computed \in CachedTokens(r), n \in Int :
          /\ n = Least(NumPrefillTokens(r, computed), sch.budget)
          /\ r \in Requests /\ req[r].status \in {"WAITING", "PREEMPTED"}
          /\ Others(r) /\ req'[r].tokens = req[r].tokens
          /\ req'[r].computed = computed /\ req'[r].placeholders = req[r].placeholders
          /\ sch'.num = [sch.num EXCEPT ![r] = n] /\ sch'.spec = sch.spec
          /\ Scheduled' = Scheduled \cup {r}
    BY <2>1 DEF SameTokens, Scheduled, r
  <2>3. n \in Nat /\ 0 < n /\ computed \in Nat /\ computed + n <= req[r].tokens
    BY <1>6, <2>2, AdmittedCount DEF WaitingAdmit
  <2>4. r \notin Scheduled /\ sch.spec[r] = 0
    BY <2>2, CountsAreNatural
  <2>5. req[r].placeholders \in Nat /\ req[r].tokens \in Int
    BY <2>2, FS_CardinalityType, RequestFields DEF PlaceholdersAwaited, Sum
  <2>6. sch'.num[r] = n /\ (s # r => sch'.num[s] = sch.num[s])
    BY <2>2, ScheduleFields
  <2>7. CASE s = r
    BY <2>2, <2>3, <2>4, <2>5, <2>6, <2>7 DEF Counts
  <2>8. CASE s # r
    BY <1>1, <2>2, <2>6, <2>8 DEF Counts, Others
  <2>9. QED BY <2>7, <2>8
<1>7. CASE SameCounts
  BY <1>1, <1>7 DEF SameCounts, Counts
<1>8. QED BY <1>2, <1>3, <1>4, <1>5, <1>6, <1>7, SchedulingSteps

\* The slots of the blocks that hold a tokens.
LEMMA CeilDivCovers ==
    ASSUME NEW a \in Int, NEW b \in Nat, b > 0
    PROVE  CeilDiv(a, b) \in Int /\ a <= CeilDiv(a, b) * b
<1> DEFINE x == a + b - 1
           q == x \div b
<1>1. x \in Int
  OBVIOUS
<1> HIDE DEF x
<1>2. q \in Int /\ x < (q + 1) * b
  BY <1>1
<1> HIDE DEF q
<1>3. (q + 1) * b = q * b + b
  BY <1>2
<1>4. q * b \in Int
  BY <1>2
<1>5. a <= q * b
  BY <1>2, <1>3, <1>4 DEF x
<1>6. QED BY <1>2, <1>5 DEF CeilDiv, q, x

\* allocate_slots leaves a request with a slot for each of its tokens.
LEMMA MissingCovers ==
    ASSUME TypeOK, NEW r \in Requests, NEW computed \in Int, NEW n \in Int,
           NEW lookahead \in Nat, computed + n <= MaxModelLen,
           TakeBlocks(r, Missing(r, computed, n, lookahead))
    PROVE  computed + n <= blocks'[r] * BlockSize
<1> DEFINE upto == Least(computed + n + lookahead, MaxModelLen)
           c == CeilDiv(upto, BlockSize)
           m == Missing(r, computed, n, lookahead)
<1>1. /\ MaxModelLen \in Nat /\ BlockSize \in Nat /\ BlockSize > 0
      /\ blocks \in [Requests -> Nat] /\ blocks[r] \in Nat
  BY ConstantTypes DEF TypeOK
<1>2. upto \in Int /\ computed + n <= upto
  BY <1>1 DEF Least
<1> HIDE DEF upto
<1>3. c \in Int /\ upto <= c * BlockSize
  BY <1>1, <1>2, CeilDivCovers
<1>4. m = Most(0, c - blocks[r])
  BY DEF Missing, upto
<1> HIDE DEF c, m
<1>5. m \in Int /\ c <= blocks[r] + m
  BY <1>1, <1>3, <1>4 DEF Most
<1>6. blocks'[r] = blocks[r] + m
  BY <1>1 DEF TakeBlocks, m
<1>7. \A a, b \in Int : a <= b => a * BlockSize <= b * BlockSize
  BY <1>1
<1>8. c * BlockSize <= blocks'[r] * BlockSize
  BY <1>1, <1>3, <1>5, <1>6, <1>7
<1>9. c * BlockSize \in Int /\ blocks'[r] * BlockSize \in Int
  BY <1>1, <1>3, <1>5, <1>6
<1>10. QED BY <1>2, <1>3, <1>8, <1>9

\* A running request keeps the blocks it holds.
LEMMA BlocksOfRunning ==
    ASSUME TypeOK, BlockMoves, NEW s \in Requests, req'[s].status = "RUNNING"
    PROVE  blocks'[s] \in Nat /\ blocks'[s] >= blocks[s]
<1>1. blocks \in [Requests -> Nat]
  BY DEF TypeOK
<1>2. CASE \E r \in Requests : \E m \in Nat : TakeBlocks(r, m)
  BY <1>1, <1>2 DEF TakeBlocks
<1>3. CASE \E r \in Requests : FreeBlocks(r) /\ req'[r].status # "RUNNING"
  BY <1>1, <1>3 DEF FreeBlocks
<1>4. CASE UNCHANGED cacheVars
  BY <1>1, <1>4 DEF cacheVars
<1>5. QED BY <1>2, <1>3, <1>4 DEF BlockMoves

Slots(s) ==
    /\ req[s].status \notin {"RUNNING", "FINISHED"} => req[s].computed = 0
    /\ req[s].status = "RUNNING" =>
          LET end == req[s].computed + sch.num[s]
          IN  end < MaxModelLen /\ end <= blocks[s] * BlockSize

\* A live request is shorter than the model allows.
LEMMA LiveIsShort ==
    ASSUME Resumable = {}, ServiceInv, NEW r \in Requests, Live(r)
    PROVE  req[r].tokens < MaxModelLen
<1>1. r \in Ordinary
  BY DEF Ordinary
<1>2. /\ req[r].outputs < AnswerLimit[r] /\ req[r].tokens = PromptLen[r] + req[r].outputs
      /\ req[r].outputs \in Int
  BY <1>1, RequestFields DEF ServiceInv, IInv, OrdinaryAnswers
<1>3. /\ AnswerLimit[r] = Least(MaxTokens[r], MaxModelLen - PromptLen[r])
      /\ MaxTokens[r] \in Int /\ PromptLen[r] \in Int /\ MaxModelLen \in Int
  BY <1>1, AnswerLimitType, ConstantTypes
<1>4. AnswerLimit[r] <= MaxModelLen - PromptLen[r] /\ AnswerLimit[r] \in Int
  BY <1>3 DEF Least
<1>5. QED BY <1>2, <1>3, <1>4

\* The step gives a running request tokens within its blocks, or leaves its end where it
\* was, or before.
LEMMA EndMoves ==
    ASSUME Resumable = {}, ServiceInv, IInv', Flights, ScheduledCounts, AllocationFits,
           SlotsHeld, [Next]_vars, NEW s \in Requests, req'[s].status = "RUNNING",
           TokenMove(s)
    PROVE  \/ LET end == req'[s].computed + sch'.num[s]
              IN  end < MaxModelLen /\ end <= blocks'[s] * BlockSize
           \/ /\ req[s].status = "RUNNING"
              /\ req'[s].computed + sch'.num[s] <= req[s].computed + sch.num[s]
<1> USE DEF ServiceInv, IInv
<1>1. CASE EndSchedule
  <2>1. /\ req[s].status = "RUNNING" /\ req'[s].computed = req[s].computed + sch.num[s]
    BY <1>1, AdvancesOfEndSchedule DEF Advances
  <2>2. sch'.num[s] = 0
    BY <1>1, NoScheduleFields DEF EndSchedule
  <2>3. QED BY <2>1, <2>2, RequestFields, ScheduleFields
<1>2. CASE RunningSchedule
  <2> DEFINE r == sch.request
             n == sch.new_tokens
  <2>1. /\ r \in Requests /\ Others(r) /\ req'[r].computed = req[r].computed
        /\ TakeBlocks(r, MissingForRunning) /\ n \in Int
        /\ sch'.num = [sch.num EXCEPT ![r] = n]
    BY <1>2, RunningScheduleEffect
  <2>2. req[r].computed + n < MaxModelLen
    BY <1>2 DEF RunningSchedule, AllocationFits
  <2>3. req[r].computed + n <= blocks'[r] * BlockSize
    <3>1. TakeBlocks(r, Missing(r, req[r].computed, n, NumLookahead))
      BY <2>1 DEF MissingForRunning
    <3>2. req[r].computed \in Int /\ NumLookahead \in Nat /\ MaxModelLen \in Nat
      BY <2>1, RequestFields, ConstantTypes
    <3> HIDE DEF r, n
    <3>3. req[r].computed + n <= MaxModelLen
      BY <2>1, <2>2, <3>2
    <3>4. QED BY <2>1, <3>1, <3>2, <3>3, MissingCovers
  <2>4. sch'.num[r] = n /\ (s # r => sch'.num[s] = sch.num[s])
    BY <2>1, ScheduleFields
  <2> HIDE DEF r, n
  <2>5. CASE s = r
    BY <2>1, <2>2, <2>3, <2>4, <2>5
  <2>6. CASE s # r
    BY <2>1, <2>4, <2>6, RequestFields, ScheduleFields DEF Others
  <2>7. QED BY <2>5, <2>6
<1>3. CASE WaitingAdmit
  <2>1. PICK i \in DOMAIN waiting : \E computed \in CachedTokens(waiting[i]) :
          LET r == waiting[i]
              n == Least(NumPrefillTokens(r, computed), sch.budget)
          IN  /\ r \in Requests /\ req[r].status \in {"WAITING", "PREEMPTED"}
              /\ Others(r) /\ req'[r].computed = computed
              /\ TakeBlocks(r, MissingForWaiting(r, computed))
              /\ sch'.num = [sch.num EXCEPT ![r] = n]
    BY <1>3, WaitingAdmitEffect
  <2> DEFINE r == waiting[i]
  <2> HIDE DEF r
  <2>2. PICK computed \in CachedTokens(r) :
          /\ r \in Requests /\ req[r].status \in {"WAITING", "PREEMPTED"}
          /\ Others(r) /\ req'[r].computed = computed
          /\ TakeBlocks(r, MissingForWaiting(r, computed))
          /\ sch'.num = [sch.num EXCEPT
                           ![r] = Least(NumPrefillTokens(r, computed), sch.budget)]
    BY <2>1 DEF r
  <2> DEFINE n == Least(NumPrefillTokens(r, computed), sch.budget)
             a == IF req[r].computed = 0 THEN 0 ELSE NumLookahead
  <2>3. n \in Nat /\ computed \in Nat /\ computed + n <= req[r].tokens
    BY <1>3, <2>2, AdmittedCount DEF WaitingAdmit
  <2>4. TakeBlocks(r, Missing(r, computed, n, a)) /\ a \in Nat
    BY <2>2, ConstantTypes DEF MissingForWaiting
  <2>5. sch'.num[r] = n /\ (s # r => sch'.num[s] = sch.num[s])
    BY <2>2, ScheduleFields
  <2> HIDE DEF n, a
  <2>6. req[r].tokens < MaxModelLen /\ req[r].tokens \in Int /\ MaxModelLen \in Nat
    BY <2>2, LiveIsShort, RequestFields, ConstantTypes DEF Live
  <2>7. computed + n < MaxModelLen /\ computed + n <= MaxModelLen
    BY <2>3, <2>6
  <2>8. computed + n <= blocks'[r] * BlockSize
    BY <2>2, <2>3, <2>4, <2>7, MissingCovers
  <2>9. CASE s = r
    BY <2>2, <2>5, <2>7, <2>8, <2>9
  <2>10. CASE s # r
    BY <2>2, <2>5, <2>10, RequestFields, ScheduleFields DEF Others
  <2>11. QED BY <2>9, <2>10
<1>4. CASE ~EndSchedule /\ ~WaitingAdmit /\ ~RunningSchedule
  <2>1. sch'.num[s] <= sch.num[s] /\ sch'.num[s] \in Int /\ sch.num[s] \in Int
    <3>1. sch.num[s] \in Nat
      BY CountsAreNatural
    <3>2. CASE phase' \notin InSchedule \/ BeginSchedule
      <4>1. sch'.num[s] = 0
        BY <3>2, NoScheduleFields DEF ScheduleStages, TypeOK, Phases, InSchedule,
           BeginSchedule, NoSchedule
      <4>2. QED BY <3>1, <4>1
    <3>3. CASE RunningPreempt
      <4>1. PICK v \in Requests : sch'.num = [sch.num EXCEPT ![v] = 0]
        BY <3>3, RunningPreemptEffect
      <4>2. QED BY <3>1, <4>1, ScheduleFields
    <3>4. CASE SameCounts
      BY <3>1, <3>4 DEF SameCounts
    <3>5. QED BY <1>4, <3>2, <3>3, <3>4, SchedulingSteps
  <2>2. req[s].status = "RUNNING" /\ req'[s].computed <= req[s].computed
        /\ req[s].computed \in Int /\ req'[s].computed \in Int
    <3>1. req[s].computed \in Int
      BY RequestFields
    <3>2. CASE Keeps(s)
      BY <3>1, <3>2 DEF Keeps
    <3>3. CASE Answers(s)
      <4>1. Head(batch_queue).spec[s] \in Nat
        BY <3>3, AnswerInProgress DEF Answers
      <4>2. PICK g \in 1 .. 1 + Head(batch_queue).spec[s] :
              req'[s].computed =
                 IF req[s].computed > 0
                 THEN req[s].computed - (1 + Head(batch_queue).spec[s] - g)
                 ELSE req[s].computed
        BY <3>3 DEF Answers
      <4>3. req[s].status = "RUNNING"
        BY <3>3 DEF Answers
      <4>4. QED BY <3>1, <4>1, <4>2, <4>3
    <3>4. ~Advances(s) /\ ~Preempts(s) /\ ~Admits(s) /\ ~Ends(s)
      BY <1>4 DEF Advances, Preempts, Admits, Ends
    <3>5. QED BY <3>2, <3>3, <3>4 DEF TokenMove
  <2>3. QED BY <2>1, <2>2
<1>5. QED BY <1>1, <1>2, <1>3, <1>4

LEMMA SlotsStep ==
    ASSUME Resumable = {}, ServiceInv, IInv', BlockInv, Flights, ScheduledCounts,
           AllocationFits, SlotsHeld, [Next]_vars
    PROVE  \A s \in Requests : Slots(s)'
<1> USE DEF ServiceInv, IInv
<1> SUFFICES ASSUME NEW s \in Requests PROVE Slots(s)'
  OBVIOUS
<1>1. Slots(s)
  BY DEF SlotsHeld, Slots
<1>2. TokenMove(s)
  BY TokenMoves
<1>3. req[s].computed \in Int /\ sch.num[s] \in Nat
      /\ (req[s].status # "RUNNING" => sch.num[s] = 0)
  BY RequestFields, CountsAreNatural
<1>4. ASSUME req'[s].status \notin {"RUNNING", "FINISHED"}
      PROVE  req'[s].computed = 0
  <2>1. CASE Keeps(s)
    BY <1>1, <1>4, <2>1 DEF Keeps, Slots
  <2>2. CASE Advances(s)
    BY <1>1, <1>3, <1>4, <2>2 DEF Advances, Slots
  <2>3. CASE Preempts(s)
    BY <2>3 DEF Preempts
  <2>4. CASE Answers(s)
    <3>1. req[s].computed = 0
      BY <1>1, <1>4, <2>4 DEF Answers, Slots
    <3>2. QED BY <2>4, <3>1 DEF Answers
  <2>5. CASE Admits(s) \/ Ends(s)
    BY <1>4, <2>5 DEF Admits, Ends
  <2>6. QED BY <1>2, <2>1, <2>2, <2>3, <2>4, <2>5 DEF TokenMove
<1>5. ASSUME req'[s].status = "RUNNING"
      PROVE  LET end == req'[s].computed + sch'.num[s]
             IN  end < MaxModelLen /\ end <= blocks'[s] * BlockSize
  <2>1. \/ LET end == req'[s].computed + sch'.num[s]
           IN  end < MaxModelLen /\ end <= blocks'[s] * BlockSize
        \/ /\ req[s].status = "RUNNING"
           /\ req'[s].computed + sch'.num[s] <= req[s].computed + sch.num[s]
    BY <1>2, <1>5, EndMoves
  <2>2. SUFFICES ASSUME /\ req[s].status = "RUNNING"
                        /\ req'[s].computed + sch'.num[s] <= req[s].computed + sch.num[s]
                 PROVE  LET end == req'[s].computed + sch'.num[s]
                        IN  end < MaxModelLen /\ end <= blocks'[s] * BlockSize
    BY <2>1
  <2> DEFINE x == req'[s].computed + sch'.num[s]
             y == req[s].computed + sch.num[s]
  <2>3. y < MaxModelLen /\ y <= blocks[s] * BlockSize /\ y \in Int /\ x <= y
    BY <1>1, <1>3, <2>2 DEF Slots
  <2>4. x \in Int
    <3>1. req'[s].computed \in Int /\ sch'.num[s] \in Int
      BY DEF TypeOK, RequestType, ScheduleType
    <3>2. QED BY <3>1
  <2>5. blocks'[s] \in Nat /\ blocks'[s] >= blocks[s] /\ blocks[s] \in Nat
    BY <1>5, BlockStep, BlocksOfRunning DEF TypeOK
  <2>6. BlockSize \in Nat /\ MaxModelLen \in Nat
    BY ConstantTypes
  <2>7. \A a, b \in Int : a <= b => a * BlockSize <= b * BlockSize
    BY <2>6
  <2>8. /\ blocks[s] * BlockSize <= blocks'[s] * BlockSize
        /\ blocks[s] * BlockSize \in Int /\ blocks'[s] * BlockSize \in Int
    BY <2>5, <2>6, <2>7
  <2> HIDE DEF x, y
  <2>9. x < MaxModelLen /\ x <= blocks'[s] * BlockSize
    BY <2>3, <2>4, <2>6, <2>8
  <2>10. QED BY <2>9 DEF x
<1>6. QED BY <1>4, <1>5 DEF Slots

--------------------------------------------------------------------------------
(* Answers in flight *)

\* An answer awaited after a step was awaited before it, or the step has just been
\* scheduled.
LEMMA AwaitsBefore ==
    ASSUME Resumable = {}, IInv, Flights, [Next]_vars,
           NEW s \in Requests, NEW i \in DOMAIN batch_queue', Awaits(i, s)'
    PROVE  \/ /\ EndSchedule /\ i = Len(batch_queue) + 1 /\ Samples(s)
              /\ batch_queue'[i] = StepOutput
           \/ LET k == IF EndUpdate THEN i + 1 ELSE i
              IN  /\ k \in DOMAIN batch_queue /\ batch_queue'[i] = batch_queue[k]
                  /\ Awaits(k, s) /\ ~(Visit(s) /\ k = 1)
<1> USE DEF IInv
<1>1. /\ s \in batch_queue'[i].sampled /\ Live(s)'
      /\ phase' = "update" /\ i = 1 => s \in pending'
  BY DEF Awaits, Unvisited
<1>2. req[s].status # "NONE" => Live(s)
  BY <1>1, TokenMoves
  DEF TokenMove, Keeps, Advances, Preempts, Admits, Answers, Ends, Live
<1>3. CASE EndSchedule
  <2>1. /\ DOMAIN batch_queue = 1 .. Len(batch_queue) /\ Len(batch_queue) \in Nat
        /\ DOMAIN batch_queue' = 1 .. Len(batch_queue) + 1
        /\ \A k \in DOMAIN batch_queue : batch_queue'[k] = batch_queue[k]
        /\ batch_queue'[Len(batch_queue) + 1] = StepOutput
    BY <1>3, AppendedStep
  <2>2. phase = "close" /\ ~EndUpdate
    BY <1>3 DEF EndSchedule, EndUpdate
  <2>3. CASE i \in DOMAIN batch_queue
    <3>1. s \in batch_queue[i].sampled /\ req[s].status # "NONE"
      BY <1>1, <2>1, <2>3 DEF Flights
    <3>2. Awaits(i, s) /\ ~Visit(s)
      BY <1>2, <2>2, <2>3, <3>1 DEF Awaits, Unvisited, Visit
    <3>3. QED BY <2>1, <2>2, <2>3, <3>2
  <2>4. CASE i = Len(batch_queue) + 1
    <3>1. Samples(s)
      BY <1>1, <2>1, <2>4 DEF StepOutput
    <3>2. QED BY <1>3, <2>1, <2>4, <3>1
  <2>5. QED BY <2>1, <2>3, <2>4
<1>4. CASE EndUpdate
  <2> DEFINE k == i + 1
  <2>1. k \in DOMAIN batch_queue /\ batch_queue'[i] = batch_queue[k] /\ k # 1
    BY <1>4, AnsweredStep
  <2> HIDE DEF k
  <2>2. s \in batch_queue[k].sampled /\ req[s].status # "NONE"
    BY <1>1, <2>1 DEF Flights
  <2>3. Awaits(k, s)
    BY <1>2, <2>1, <2>2 DEF Awaits, Unvisited
  <2>4. QED BY <1>4, <2>1, <2>3 DEF k
<1>5. CASE ~EndSchedule /\ ~EndUpdate
  <2>1. batch_queue' = batch_queue
    BY <1>5, SameSteps
  <2>2. i \in DOMAIN batch_queue /\ s \in batch_queue[i].sampled
    BY <1>1, <2>1
  <2>3. Unvisited(i, s)' <=> Unvisited(i, s) /\ ~(Visit(s) /\ i = 1)
    BY <1>5, <2>2, UnvisitedSteps
  <2>4. Unvisited(i, s)'
    BY <1>1 DEF Unvisited
  <2>5. req[s].status # "NONE"
    BY <2>2 DEF Flights
  <2>6. QED BY <1>2, <1>5, <2>1, <2>2, <2>3, <2>4, <2>5 DEF Awaits
<1>6. QED BY <1>3, <1>4, <1>5

\* An awaited answer stays awaited, unless it comes or its request ends.
LEMMA AwaitsAfter ==
    ASSUME IInv, Flights, [Next]_vars,
           NEW s \in Requests, NEW k \in DOMAIN batch_queue, Awaits(k, s),
           ~(Visit(s) /\ k = 1), req'[s].status \notin {"NONE", "FINISHED"}
    PROVE  \E i \in DOMAIN batch_queue' :
              Awaits(i, s)' /\ batch_queue'[i] = batch_queue[k]
<1> USE DEF IInv
<1>1. s \in batch_queue[k].sampled /\ Unvisited(k, s)
  BY DEF Awaits
<1>2. CASE EndSchedule
  <2>1. k \in DOMAIN batch_queue' /\ batch_queue'[k] = batch_queue[k]
    BY <1>2, AppendedStep
  <2>2. phase' = "engine"
    BY <1>2 DEF EndSchedule
  <2>3. Awaits(k, s)'
    BY <1>1, <2>1, <2>2 DEF Awaits, Live, Unvisited
  <2>4. QED BY <2>1, <2>3
<1>3. CASE EndUpdate
  <2>1. phase = "update" /\ phase' = "engine" /\ pending = {}
    BY <1>3 DEF EndUpdate
  <2>2. k # 1
    BY <1>1, <2>1 DEF Unvisited
  <2> DEFINE i == k - 1
  <2>3. i \in DOMAIN batch_queue' /\ batch_queue'[i] = batch_queue[k]
    BY <1>3, <2>2, AnsweredStep
  <2> HIDE DEF i
  <2>4. Awaits(i, s)'
    BY <1>1, <2>1, <2>3 DEF Awaits, Live, Unvisited
  <2>5. QED BY <2>3, <2>4
<1>4. CASE ~EndSchedule /\ ~EndUpdate
  <2>1. batch_queue' = batch_queue
    BY <1>4, SameSteps
  <2>2. Unvisited(k, s)'
    BY <1>1, <1>4, UnvisitedSteps
  <2>3. Awaits(k, s)'
    BY <1>1, <2>1, <2>2 DEF Awaits, Live
  <2>4. QED BY <2>1, <2>3
<1>5. QED BY <1>2, <1>3, <1>4

LEMMA AwaitsScheduled ==
    ASSUME IInv, EndSchedule, NEW s \in Requests, Samples(s)
    PROVE  \E i \in DOMAIN batch_queue' :
              Awaits(i, s)' /\ batch_queue'[i].spec[s] = sch.spec[s]
<1> USE DEF IInv
<1>1. PICK i \in DOMAIN batch_queue' : batch_queue'[i] = StepOutput
  BY AppendedStep
<1>2. s \in batch_queue'[i].sampled /\ batch_queue'[i].spec[s] = sch.spec[s]
  BY <1>1 DEF StepOutput
<1>3. req[s].status = "RUNNING"
  BY DEF Samples, ScheduledAreRunning
<1>4. req'[s].status = "RUNNING" /\ phase' = "engine"
  BY <1>3, AdvancesOfEndSchedule DEF Advances, EndSchedule
<1>5. Awaits(i, s)'
  BY <1>1, <1>2, <1>4 DEF Awaits, Live, Unvisited
<1>6. QED BY <1>1, <1>2, <1>5

LEMMA AwaitsVisited ==
    ASSUME IInv, NEW s \in Requests, Answers(s)
    PROVE  /\ 1 \in DOMAIN batch_queue /\ Awaits(1, s)
           /\ Head(batch_queue) = batch_queue[1]
  BY AnswerInProgress DEF Answers, Awaits, Unvisited, Visit

\* The placeholders cover each awaited answer.
LEMMA PlaceholdersCover ==
    ASSUME IInv, PlaceholdersAwaited, NEW s \in Requests,
           NEW i \in DOMAIN batch_queue, Awaits(i, s)
    PROVE  /\ batch_queue[i].spec[s] \in Nat
           /\ Async => 1 + batch_queue[i].spec[s] <= req[s].placeholders
<1> USE DEF IInv
<1>1. batch_queue[i] \in OutputType
  BY DEF TypeOK
<1>2. batch_queue[i].spec[s] \in Nat
  BY <1>1 DEF OutputType
<1>3. /\ Awaited(s) \in [DOMAIN batch_queue -> Nat]
      /\ Awaited(s)[i] = 1 + batch_queue[i].spec[s]
  BY AwaitedType DEF Awaits, AwaitedIn
<1>4. IsFiniteSet(Units(Awaited(s))) /\ (Async => req[s].placeholders = Sum(Awaited(s)))
  BY DEF PlaceholdersAwaited, Awaits, Live
<1>5. QED BY <1>2, <1>3, <1>4, SumTerm

\* Only one step is in flight where drafts are handed over between two steps.
LEMMA NoDraftsInPipeline ==
    ASSUME IInv, DraftsBounded, Flights, ~Async, NEW s \in Requests,
           NEW i \in DOMAIN batch_queue, i # 1
    PROVE  batch_queue[i].spec[s] = 0 /\ NumSpecTokens = 0
<1> USE DEF IInv
<1>1. batch_queue[i] \in OutputType
  BY DEF TypeOK
<1>2. batch_queue[i].spec[s] \in Nat /\ batch_queue[i].spec[s] <= NumSpecTokens
  BY <1>1 DEF OutputType, DraftsBounded
<1>3. Len(batch_queue) \in Nat /\ DOMAIN batch_queue = 1 .. Len(batch_queue)
      /\ PipelineDepth \in Nat
  BY ConfigAssumption DEF TypeOK, PositiveNat
<1>4. PipelineDepth # 1
  BY <1>3 DEF Flights
<1>5. NumSpecTokens = 0
  BY <1>4, ConstantTypes, EngineAssumption
<1>6. QED BY <1>2, <1>5

\* What is taken off and what is added when an answer comes with g tokens: the rejected
\* drafts x, and the placeholders of the answer.
LEMMA AnswerCounts ==
    ASSUME IInv, PlaceholdersAwaited, NEW s \in Requests, Answers(s)
    PROVE  /\ batch_queue[1].spec[s] \in Nat
           /\ \E x \in Nat : \E g \in Nat :
                /\ 0 < g /\ x + g = 1 + batch_queue[1].spec[s]
                /\ req'[s].tokens = req[s].tokens + g
                /\ req'[s].computed = IF req[s].computed > 0 THEN req[s].computed - x
                                      ELSE req[s].computed
                /\ IF Async THEN /\ x + g <= req[s].placeholders
                                 /\ req'[s].placeholders = req[s].placeholders - x - g
                   ELSE req[s].placeholders = 0 /\ req'[s].placeholders = 0
<1> USE DEF IInv
<1> DEFINE d == batch_queue[1].spec[s]
<1>1. /\ 1 \in DOMAIN batch_queue /\ Awaits(1, s) /\ Head(batch_queue) = batch_queue[1]
  BY AwaitsVisited
<1>2. d \in Nat /\ (Async => 1 + d <= req[s].placeholders)
  BY <1>1, PlaceholdersCover
<1>3. PICK g \in 1 .. 1 + d :
         LET x == 1 + d - g
             p == IF req[s].placeholders > 0 THEN req[s].placeholders - x
                  ELSE req[s].placeholders
         IN  /\ req'[s].tokens = req[s].tokens + g
             /\ req'[s].computed = IF req[s].computed > 0 THEN req[s].computed - x
                                   ELSE req[s].computed
             /\ req'[s].placeholders = IF Async THEN p - g ELSE p
  BY <1>1 DEF Answers
<1>4. ~Async => req[s].placeholders = 0
  BY DEF PlaceholdersAwaited, Answers, Live
<1>5. req[s].placeholders \in Int
  BY RequestFields
<1> HIDE DEF d
<1> DEFINE x == 1 + d - g
<1>6. g \in Nat /\ 0 < g /\ x \in Nat /\ x + g = 1 + d
  BY <1>2
<1> HIDE DEF x
<1>7. /\ req'[s].tokens = req[s].tokens + g
      /\ req'[s].computed = IF req[s].computed > 0 THEN req[s].computed - x
                            ELSE req[s].computed
      /\ req'[s].placeholders =
            LET p == IF req[s].placeholders > 0 THEN req[s].placeholders - x
                     ELSE req[s].placeholders
            IN  IF Async THEN p - g ELSE p
  BY <1>3 DEF x
<1>8. IF Async THEN /\ x + g <= req[s].placeholders
                    /\ req'[s].placeholders = req[s].placeholders - x - g
      ELSE req[s].placeholders = 0 /\ req'[s].placeholders = 0
  BY <1>2, <1>4, <1>5, <1>6, <1>7
<1>9. QED BY <1>2, <1>6, <1>7, <1>8 DEF d

\* A step reaches the end of what is known and awaited of a request, and samples it,
\* or stays short of that.
LEMMA AdvanceCounts ==
    ASSUME IInv, ScheduledCounts, NEW s \in Requests
    PROVE  LET known == req[s].tokens + req[s].placeholders
               next == req[s].computed + sch.num[s]
           IN  /\ sch.num[s] \in Nat /\ sch.spec[s] \in Nat
               /\ Samples(s) => sch.num[s] > sch.spec[s] /\ next = known + sch.spec[s]
               /\ sch.num[s] > 0 /\ ~Samples(s) => next < known
<1>1. /\ req[s].tokens \in Int /\ req[s].placeholders \in Int /\ req[s].computed \in Int
      /\ sch.num[s] \in Nat /\ sch.spec[s] \in Nat
  BY RequestFields, CountsAreNatural DEF IInv
<1>2. sch.num[s] > 0 =>
        LET end == req[s].tokens + req[s].placeholders + sch.spec[s]
        IN  /\ sch.num[s] > sch.spec[s]
            /\ req[s].computed + sch.num[s] <= end
            /\ sch.spec[s] > 0 => req[s].computed + sch.num[s] = end
  <2>1. sch.num[s] > 0 => s \in Scheduled
    BY DEF IInv, ScheduledAreRunning
  <2>2. QED BY <2>1 DEF ScheduledCounts
<1>3. QED BY <1>1, <1>2 DEF Samples

--------------------------------------------------------------------------------
(* Something is left to compute *)

LEMMA AdmittedWork ==
    ASSUME IInv, PlaceholdersAwaited, SlotsHeld, NEW s \in Requests, Admits(s)
    PROVE  /\ req[s].placeholders \in Nat
           /\ req'[s].computed \in Nat /\ req'[s].computed < req[s].tokens
<1> USE DEF IInv
<1>1. req[s].computed = 0
  BY DEF Admits, SlotsHeld
<1>2. PICK h \in CacheHits :
        req'[s].computed = h * BlockSize /\ h * BlockSize < req[s].tokens
  BY <1>1 DEF CachedTokens, Admits
<1>3. h \in Nat /\ BlockSize \in Nat
  BY ConstantTypes
<1>4. req[s].placeholders \in Nat
  BY FS_CardinalityType DEF PlaceholdersAwaited, Sum, Admits
<1>5. QED BY <1>2, <1>3, <1>4

LEMMA AsyncWorkStep ==
    ASSUME Resumable = {}, ServiceInv, PlaceholdersAwaited, ScheduledCounts, SlotsHeld,
           WorkLeft, Async, NEW s \in Requests, TokenMove(s), req'[s].status = "RUNNING"
    PROVE  req'[s].computed < req'[s].tokens + req'[s].placeholders
<1> USE DEF ServiceInv, IInv
<1>1. /\ req[s].tokens \in Int /\ req[s].placeholders \in Int /\ req[s].computed \in Int
  BY RequestFields
<1>2. req[s].status = "RUNNING" => req[s].computed < req[s].tokens + req[s].placeholders
  BY DEF WorkLeft
<1>3. CASE Keeps(s)
  BY <1>2, <1>3 DEF Keeps
<1>4. CASE Advances(s)
  <2>1. req[s].status = "RUNNING" /\ req'[s].tokens = req[s].tokens
        /\ req'[s].computed = req[s].computed + sch.num[s]
        /\ req'[s].placeholders = IF Samples(s) THEN req[s].placeholders + 1 + sch.spec[s]
                                  ELSE req[s].placeholders
    BY <1>4 DEF Advances
  <2>2. LET known == req[s].tokens + req[s].placeholders
            next == req[s].computed + sch.num[s]
        IN  /\ sch.num[s] \in Nat /\ sch.spec[s] \in Nat
            /\ Samples(s) => next = known + sch.spec[s]
            /\ sch.num[s] > 0 /\ ~Samples(s) => next < known
    BY AdvanceCounts
  <2>3. QED BY <1>1, <1>2, <2>1, <2>2
<1>5. CASE Admits(s)
  <2>1. req'[s].tokens = req[s].tokens /\ req'[s].placeholders = req[s].placeholders
    BY <1>5 DEF Admits
  <2>2. QED BY <1>1, <1>5, <2>1, AdmittedWork
<1>6. CASE Answers(s)
  <2>1. req[s].status = "RUNNING" /\ Live(s)
    BY <1>6 DEF Answers
  <2>2. PICK x \in Nat, g \in Nat :
          /\ 0 < g /\ req'[s].tokens = req[s].tokens + g
          /\ req'[s].computed = IF req[s].computed > 0 THEN req[s].computed - x
                                ELSE req[s].computed
          /\ x + g <= req[s].placeholders
          /\ req'[s].placeholders = req[s].placeholders - x - g
    BY <1>6, AnswerCounts
  <2>3. req[s].tokens > 0
    <3>1. s \in Ordinary /\ PromptLen[s] \in Nat \ {0} /\ req[s].outputs \in Int
      BY RequestsAssumption, RequestFields DEF Ordinary, PositiveNat
    <3>2. QED BY <3>1 DEF OrdinaryAnswers
  <2>4. QED BY <1>1, <1>2, <2>1, <2>2, <2>3
<1>7. CASE Preempts(s) \/ Ends(s)
  BY <1>7 DEF Preempts, Ends
<1>8. QED BY <1>3, <1>4, <1>5, <1>6, <1>7 DEF TokenMove

LEMMA SyncWorkStep ==
    ASSUME Resumable = {}, ServiceInv, Flights, PlaceholdersAwaited, ScheduledCounts,
           SlotsHeld, WorkLeft, [Next]_vars, ~Async,
           NEW s \in Requests, TokenMove(s), req'[s].status = "RUNNING"
    PROVE  \/ req'[s].computed < req'[s].tokens
           \/ \E i \in DOMAIN batch_queue' :
                 /\ Awaits(i, s)'
                 /\ req'[s].computed <= req'[s].tokens + batch_queue'[i].spec[s]
<1> USE DEF ServiceInv, IInv
<1>1. req[s].tokens \in Int /\ req[s].computed \in Int
  BY RequestFields
<1>2. req[s].status = "RUNNING" =>
        \/ req[s].computed < req[s].tokens
        \/ \E k \in DOMAIN batch_queue :
              Awaits(k, s) /\ req[s].computed <= req[s].tokens + batch_queue[k].spec[s]
  BY DEF WorkLeft
<1>3. ASSUME req[s].status = "RUNNING", req'[s].tokens = req[s].tokens,
             req'[s].computed = req[s].computed, ~(Visit(s) /\ Awaits(1, s))
      PROVE  \/ req'[s].computed < req'[s].tokens
             \/ \E i \in DOMAIN batch_queue' :
                   /\ Awaits(i, s)'
                   /\ req'[s].computed <= req'[s].tokens + batch_queue'[i].spec[s]
  <2>1. CASE req[s].computed < req[s].tokens
    BY <1>3, <2>1
  <2>2. CASE ~(req[s].computed < req[s].tokens)
    <3>1. PICK k \in DOMAIN batch_queue :
            Awaits(k, s) /\ req[s].computed <= req[s].tokens + batch_queue[k].spec[s]
      BY <1>2, <1>3, <2>2
    <3>2. \E i \in DOMAIN batch_queue' : Awaits(i, s)' /\ batch_queue'[i] = batch_queue[k]
      BY <1>3, <3>1, AwaitsAfter
    <3>3. QED BY <1>3, <3>1, <3>2
  <2>3. QED BY <2>1, <2>2
<1>4. CASE Keeps(s)
  <2>1. ~(Visit(s) /\ Awaits(1, s))
    BY <1>4, AnswerInProgress DEF Keeps, Awaits
  <2>2. QED BY <1>3, <1>4, <2>1 DEF Keeps
<1>5. CASE Advances(s)
  <2>1. req[s].status = "RUNNING" /\ req'[s].tokens = req[s].tokens
        /\ req'[s].computed = req[s].computed + sch.num[s] /\ EndSchedule
    BY <1>5 DEF Advances
  <2>2. LET known == req[s].tokens + req[s].placeholders
            next == req[s].computed + sch.num[s]
        IN  /\ sch.num[s] \in Nat /\ sch.spec[s] \in Nat
            /\ Samples(s) => next = known + sch.spec[s]
            /\ sch.num[s] > 0 /\ ~Samples(s) => next < known
    BY AdvanceCounts
  <2>3. req[s].placeholders = 0
    BY <2>1 DEF PlaceholdersAwaited
  <2>4. CASE sch.num[s] = 0
    <3>1. ~Visit(s)
      BY <2>1 DEF EndSchedule, Visit
    <3>2. QED BY <1>1, <1>3, <2>1, <2>4, <3>1
  <2>5. CASE Samples(s)
    <3>1. PICK i \in DOMAIN batch_queue' :
            Awaits(i, s)' /\ batch_queue'[i].spec[s] = sch.spec[s]
      BY <2>1, <2>5, AwaitsScheduled
    <3>2. req'[s].computed <= req'[s].tokens + batch_queue'[i].spec[s]
      BY <1>1, <2>1, <2>2, <2>3, <2>5, <3>1
    <3>3. QED BY <3>1, <3>2
  <2>6. CASE sch.num[s] # 0 /\ ~Samples(s)
    BY <1>1, <2>1, <2>2, <2>3, <2>6
  <2>7. QED BY <2>4, <2>5, <2>6
<1>6. CASE Admits(s)
  <2>1. req'[s].tokens = req[s].tokens
    BY <1>6 DEF Admits
  <2>2. QED BY <1>6, <2>1, AdmittedWork
<1>7. CASE Answers(s)
  <2>1. req[s].status = "RUNNING" /\ Live(s)
    BY <1>7 DEF Answers
  <2>2. /\ batch_queue[1].spec[s] \in Nat
        /\ \E x \in Nat : \E g \in Nat :
             /\ 0 < g /\ x + g = 1 + batch_queue[1].spec[s]
             /\ req'[s].tokens = req[s].tokens + g
             /\ req'[s].computed = IF req[s].computed > 0 THEN req[s].computed - x
                                   ELSE req[s].computed
    BY <1>7, AnswerCounts
  <2>3. PICK x \in Nat, g \in Nat :
          /\ 0 < g /\ x + g = 1 + batch_queue[1].spec[s]
          /\ req'[s].tokens = req[s].tokens + g
          /\ req'[s].computed = IF req[s].computed > 0 THEN req[s].computed - x
                                ELSE req[s].computed
    BY <2>2
  <2>4. req[s].tokens > 0
    <3>1. s \in Ordinary /\ PromptLen[s] \in Nat \ {0} /\ req[s].outputs \in Int
      BY RequestsAssumption, RequestFields DEF Ordinary, PositiveNat
    <3>2. QED BY <2>1, <3>1 DEF OrdinaryAnswers
  <2>5. CASE req[s].computed <= req[s].tokens
    BY <1>1, <2>3, <2>4, <2>5
  <2>6. CASE ~(req[s].computed <= req[s].tokens)
    <3>1. PICK k \in DOMAIN batch_queue :
            Awaits(k, s) /\ req[s].computed <= req[s].tokens + batch_queue[k].spec[s]
      BY <1>1, <1>2, <2>1, <2>6
    <3>2. k = 1
      BY <1>1, <2>6, <3>1, NoDraftsInPipeline
    <3>3. req[s].computed <= req[s].tokens + batch_queue[1].spec[s]
      BY <3>1, <3>2
    <3>4. QED BY <1>1, <2>2, <2>3, <2>4, <3>3
  <2>7. QED BY <2>5, <2>6
<1>8. CASE Preempts(s) \/ Ends(s)
  BY <1>8 DEF Preempts, Ends
<1>9. QED BY <1>4, <1>5, <1>6, <1>7, <1>8 DEF TokenMove

LEMMA WorkStep ==
    ASSUME Resumable = {}, ServiceInv, Flights, PlaceholdersAwaited, ScheduledCounts,
           SlotsHeld, WorkLeft, [Next]_vars
    PROVE  WorkLeft'
<1>1. \A s \in Requests : TokenMove(s)
  BY TokenMoves DEF ServiceInv
<1>2. QED BY <1>1, AsyncWorkStep, SyncWorkStep DEF WorkLeft

--------------------------------------------------------------------------------
(* Preemption while an answer is in flight *)

LEMMA PreemptedListed ==
    ASSUME IInv, RunningPreempt
    PROVE  \E v \in Requests : Others(v) /\ sch'.preempted = sch.preempted \cup {v}
<1> USE DEF IInv
<1>1. PICK i \in DOMAIN running :
        LET v == running[i]
        IN  /\ req' = [req EXCEPT ![v] = Preempted(@)]
            /\ IF v = sch.request
               THEN sch' = [Unschedule(v) EXCEPT !.request = NoRequest, !.new_tokens = 0]
               ELSE sch' = Unschedule(v)
  BY DEF RunningPreempt
<1> DEFINE v == running[i]
           u == Unschedule(v)
<1>2. v \in Requests
  BY RunningElements
<1>3. u \in ScheduleType /\ u.preempted = sch.preempted \cup {v}
  BY <1>2, UnscheduleFields
<1>4. Others(v)
  BY <1>1, <1>2 DEF TypeOK, Others
<1> HIDE DEF u
<1>5. sch'.preempted = u.preempted
  BY <1>1, <1>3 DEF ScheduleType, u
<1>6. QED BY <1>2, <1>3, <1>4, <1>5

\* A request preempted by a call of schedule() stays listed until it returns.
LEMMA StaysListed ==
    ASSUME IInv, [Next]_vars, ~EndSchedule, NEW s, s \in sch.preempted
    PROVE  s \in sch'.preempted
<1> USE DEF IInv
<1>1. sch # NoSchedule
  BY NoScheduleFields
<1>2. phase \in InSchedule
  BY <1>1 DEF ScheduleStages, TypeOK, Phases, InSchedule
<1>3. CASE RunningPreempt
  BY <1>3, PreemptedListed
<1>4. CASE RunningSkip \/ RunningPick \/ RunningSchedule \/ WaitingSkip \/ WaitingAdmit
           \/ LeaveWaitingLoop
  BY <1>4, ScheduleFields DEF RunningSkip, RunningPick, RunningSchedule, WaitingSkip,
     WaitingAdmit, LeaveWaitingLoop, ScheduleType
<1>5. CASE \/ RunningDone \/ WaitingGrammar \/ UNCHANGED vars
           \/ \E r \in Requests : GrammarReady(r)
  BY <1>5 DEF RunningDone, WaitingGrammar, vars, GrammarReady
<1>6. ASSUME BeginSchedule \/ UpdateStep \/ ResetStep
             \/ \E r \in Requests : AddRequest(r) \/ FinishRequests(r) \/ StreamingUpdate(r)
      PROVE  FALSE
  <2>1. CASE phase = "engine" \/ phase = "update" \/ phase = "reset"
    BY <1>2, <2>1 DEF InSchedule
  <2>2. QED
    BY <1>6, <2>1 DEF BeginSchedule, UpdateStep, ResetStep, BeginUpdate, UpdateSkip,
       UpdateContinue, UpdateFinish, UpdateSession, EndUpdate, BeginReset, ResetPreempt,
       EndReset, AddRequest, FinishRequests, StreamingUpdate, BetweenSteps, Visit
<1>7. WaitingBlocked \/ WaitingDone => LeaveWaitingLoop
  BY DEF WaitingBlocked, WaitingDone
<1>8. QED BY <1>3, <1>4, <1>5, <1>6, <1>7 DEF Next, ScheduleStep, ClientStep

\* A request preempted inside schedule() is listed by that call.
LEMMA PreemptsListed ==
    ASSUME IInv, [Next]_vars, NEW s \in Requests, Preempts(s), phase = "allocate"
    PROVE  s \in sch'.preempted
<1> USE DEF IInv
<1>1. req'[s].status # req[s].status
  BY DEF Preempts
<1>2. CASE RunningPreempt
  <2>1. PICK v \in Requests : Others(v) /\ sch'.preempted = sch.preempted \cup {v}
    BY <1>2, PreemptedListed
  <2>2. s = v
    BY <1>1, <2>1 DEF Others
  <2>3. QED BY <2>1, <2>2
<1>3. CASE RunningSchedule
  <2>1. PICK r \in Requests : Others(r) /\ req'[r].status = req[r].status
    BY <1>3, RunningScheduleEffect
  <2>2. QED BY <1>1, <2>1 DEF Others
<1>4. CASE UNCHANGED vars \/ \E r \in Requests : GrammarReady(r)
  BY <1>1, <1>4 DEF vars, requestVars, GrammarReady
<1>5. ASSUME ~RunningPreempt, ~RunningSchedule, ~UNCHANGED vars,
             ~\E r \in Requests : GrammarReady(r)
      PROVE  FALSE
  BY <1>5 DEF Next, ScheduleStep, UpdateStep, ResetStep, ClientStep, BeginSchedule,
     RunningSkip, RunningPick, RunningDone, WaitingGrammar, WaitingSkip, WaitingAdmit,
     WaitingBlocked, WaitingDone, EndSchedule, InRunningLoop, InWaitingLoop, BeginUpdate,
     UpdateSkip, UpdateContinue, UpdateFinish, UpdateSession, EndUpdate, BeginReset,
     ResetPreempt, EndReset, AddRequest, FinishRequests, StreamingUpdate, BetweenSteps,
     Visit
<1>6. QED BY <1>2, <1>3, <1>4, <1>5

\* How many steps are in flight at most.
LEMMA OrderlyDepth ==
    ASSUME IInv, Flights, Orderly
    PROVE  /\ Len(batch_queue) \in Nat /\ DOMAIN batch_queue = 1 .. Len(batch_queue)
           /\ Len(batch_queue) <= 2
           /\ phase \notin {"engine", "update"} => Len(batch_queue) <= 1
           /\ phase = "reset" => Len(batch_queue) = 0
<1>1. /\ Len(batch_queue) \in Nat /\ DOMAIN batch_queue = 1 .. Len(batch_queue)
      /\ PipelineDepth \in Nat /\ MaxResets \in Nat
  BY ConfigAssumption DEF IInv, TypeOK, PositiveNat
<1>2. QED BY <1>1 DEF Flights, Orderly

LEMMA AwaitedRunsStep ==
    ASSUME Resumable = {}, IInv, Flights, Orderly, AwaitedRuns, [Next]_vars
    PROVE  AwaitedRuns'
<1> USE DEF IInv
<1> DEFINE Goal(s, i) ==
      \/ req'[s].status = "RUNNING"
      \/ /\ req'[s].status = "PREEMPTED"
         /\ s \in sch'.preempted \/ (Len(batch_queue') = 2 /\ i = 1)
<1> SUFFICES ASSUME NEW s \in Requests, NEW i \in DOMAIN batch_queue', Awaits(i, s)'
             PROVE  Goal(s, i)
  BY DEF AwaitedRuns
<1>1. TokenMove(s)
  BY TokenMoves
<1>2. Live(s)'
  BY DEF Awaits
<1>3. CASE EndSchedule /\ i = Len(batch_queue) + 1 /\ Samples(s)
  <2>1. req[s].status = "RUNNING"
    BY <1>3 DEF Samples, ScheduledAreRunning
  <2>2. QED BY <1>3, <2>1, AdvancesOfEndSchedule DEF Advances
<1>4. ASSUME NEW k \in DOMAIN batch_queue, k = IF EndUpdate THEN i + 1 ELSE i,
             Awaits(k, s), ~(Visit(s) /\ k = 1)
      PROVE  Goal(s, i)
  <2>1. \/ req[s].status = "RUNNING"
        \/ /\ req[s].status = "PREEMPTED"
           /\ s \in sch.preempted \/ (Len(batch_queue) = 2 /\ k = 1)
    BY <1>4 DEF AwaitedRuns
  <2>2. /\ Len(batch_queue) \in Nat /\ DOMAIN batch_queue = 1 .. Len(batch_queue)
        /\ phase \notin {"engine", "update"} => Len(batch_queue) <= 1
        /\ phase = "reset" => Len(batch_queue) = 0
        /\ k \in 1 .. Len(batch_queue) /\ i \in Nat \ {0}
    <3>1. batch_queue' \in Seq(OutputType)
      BY StepIInv DEF TypeOK
    <3>2. DOMAIN batch_queue' \subseteq Nat \ {0}
      BY <3>1
    <3>3. QED BY <3>2, OrderlyDepth
  <2>3. CASE Keeps(s)
    <3>1. req'[s].status = req[s].status /\ ~EndSchedule
      BY <2>1, <2>3 DEF Keeps
    <3>2. CASE s \in sch.preempted
      BY <2>1, <3>1, <3>2, StaysListed
    <3>3. CASE Len(batch_queue) = 2 /\ k = 1
      <4>1. ~EndUpdate /\ i = 1
        BY <1>4, <2>2, <3>3
      <4>2. QED BY <2>1, <3>1, <3>3, <4>1, SameSteps
    <3>4. QED BY <2>1, <3>1, <3>2, <3>3
  <2>4. CASE Advances(s)
    <3>1. req'[s].status = req[s].status /\ EndSchedule
      BY <2>4 DEF Advances
    <3>2. phase = "close" /\ Len(batch_queue') = Len(batch_queue) + 1 /\ ~EndUpdate
      BY <3>1, AppendedStep DEF EndSchedule, EndUpdate
    <3>3. Len(batch_queue') = 2 /\ i = 1
      BY <1>4, <2>2, <3>2
    <3>4. QED BY <2>1, <3>1, <3>3
  <2>5. CASE Preempts(s)
    <3>1. phase = "allocate"
      BY <2>2, <2>5 DEF Preempts
    <3>2. s \in sch'.preempted
      BY <2>5, <3>1, PreemptsListed
    <3>3. QED BY <2>5, <3>2 DEF Preempts
  <2>6. CASE Admits(s)
    BY <2>6 DEF Admits
  <2>7. CASE Answers(s)
    <3>1. phase = "update" /\ k # 1 /\ req'[s].status = req[s].status
      BY <1>4, <2>7 DEF Answers, Visit
    <3>2. s \notin sch.preempted
      BY <3>1, NoScheduleFields DEF ScheduleStages
    <3>3. QED BY <2>1, <3>1, <3>2
  <2>8. CASE Ends(s)
    BY <1>2, <2>8 DEF Ends, Live
  <2>9. QED BY <1>1, <2>3, <2>4, <2>5, <2>6, <2>7, <2>8 DEF TokenMove
<1>5. QED BY <1>3, <1>4, AwaitsBefore

\* A synchronous step samples no request that has an answer in flight.
LEMMA OneAwaitedStep ==
    ASSUME Resumable = {}, IInv, Flights, PlaceholdersAwaited, ScheduledCounts, OneAwaited,
           AwaitedAreComputed, [Next]_vars
    PROVE  OneAwaited'
<1> USE DEF IInv
<1> SUFFICES ASSUME ~Async, NEW s \in Requests,
                    NEW i \in DOMAIN batch_queue', NEW j \in DOMAIN batch_queue',
                    Awaits(i, s)', Awaits(j, s)'
             PROVE  i = j
  BY DEF OneAwaited
<1>1. ASSUME Samples(s), NEW k \in DOMAIN batch_queue, Awaits(k, s)
      PROVE  FALSE
  <2>1. req[s].status = "RUNNING"
    BY <1>1 DEF Samples, ScheduledAreRunning
  <2>2. req[s].placeholders = 0
    BY <2>1 DEF PlaceholdersAwaited
  <2>3. batch_queue[k].spec[s] \in Nat
    BY <1>1, PlaceholdersCover
  <2>4. req[s].computed >= req[s].tokens + batch_queue[k].spec[s]
    BY <1>1, <2>1 DEF AwaitedAreComputed
  <2>5. req[s].tokens \in Int /\ req[s].computed \in Int
    BY RequestFields
  <2>6. LET known == req[s].tokens + req[s].placeholders
            next == req[s].computed + sch.num[s]
        IN  /\ sch.num[s] \in Nat /\ sch.spec[s] \in Nat
            /\ sch.num[s] > sch.spec[s] /\ next = known + sch.spec[s]
    BY <1>1, AdvanceCounts
  <2>7. QED BY <2>2, <2>3, <2>4, <2>5, <2>6
<1> DEFINE Is(m) == EndSchedule /\ m = Len(batch_queue) + 1 /\ Samples(s)
           Was(m) == \E k \in DOMAIN batch_queue :
                        k = (IF EndUpdate THEN m + 1 ELSE m) /\ Awaits(k, s)
<1>2. (Is(i) \/ Was(i)) /\ (Is(j) \/ Was(j))
  BY AwaitsBefore
<1>3. i \in Int /\ j \in Int
  <2>1. batch_queue' \in Seq(OutputType)
    BY StepIInv DEF TypeOK
  <2>2. DOMAIN batch_queue' \subseteq Int
    BY <2>1
  <2>3. QED BY <2>2
<1>4. CASE Was(i) /\ Was(j)
  <2>1. PICK k \in DOMAIN batch_queue :
          k = (IF EndUpdate THEN i + 1 ELSE i) /\ Awaits(k, s)
    BY <1>4
  <2>2. PICK m \in DOMAIN batch_queue :
          m = (IF EndUpdate THEN j + 1 ELSE j) /\ Awaits(m, s)
    BY <1>4
  <2>3. k = m
    BY <2>1, <2>2 DEF OneAwaited
  <2>4. QED BY <1>3, <2>1, <2>2, <2>3
<1>5. QED BY <1>1, <1>2, <1>4

\* What is known of a running request, with the drafts of an answer in flight, stays
\* computed until that answer comes.
LEMMA AwaitedAreComputedStep ==
    ASSUME Resumable = {}, ServiceInv, Flights, PlaceholdersAwaited, ScheduledCounts,
           Orderly, AwaitedRuns, OneAwaited, AwaitedAreComputed, [Next]_vars
    PROVE  AwaitedAreComputed'
<1> USE DEF ServiceInv, IInv
<1> SUFFICES ASSUME NEW s \in Requests, NEW i \in DOMAIN batch_queue',
                    req'[s].status = "RUNNING", Awaits(i, s)'
             PROVE  IF Async THEN req'[s].computed = req'[s].tokens + req'[s].placeholders - 1
                    ELSE req'[s].computed >= req'[s].tokens + batch_queue'[i].spec[s]
  BY DEF AwaitedAreComputed
<1>1. TokenMove(s)
  BY TokenMoves
<1>2. req[s].tokens \in Int /\ req[s].placeholders \in Int /\ req[s].computed \in Int
  BY RequestFields
<1>3. LET known == req[s].tokens + req[s].placeholders
          next == req[s].computed + sch.num[s]
      IN  /\ sch.num[s] \in Nat /\ sch.spec[s] \in Nat
          /\ Samples(s) => next = known + sch.spec[s]
          /\ sch.num[s] > 0 /\ ~Samples(s) => next < known
  BY AdvanceCounts
<1>4. CASE EndSchedule /\ Samples(s) /\ batch_queue'[i] = StepOutput
  <2>1. /\ req'[s].status = req[s].status /\ req'[s].tokens = req[s].tokens
        /\ req'[s].computed = req[s].computed + sch.num[s]
        /\ req'[s].placeholders = IF Async THEN req[s].placeholders + 1 + sch.spec[s]
                                  ELSE req[s].placeholders
    BY <1>4, AdvancesOfEndSchedule DEF Advances
  <2>2. ~Async => req[s].placeholders = 0
    BY <2>1 DEF PlaceholdersAwaited
  <2>3. batch_queue'[i].spec[s] = sch.spec[s]
    BY <1>4 DEF StepOutput
  <2>4. QED BY <1>2, <1>3, <1>4, <2>1, <2>2, <2>3
<1>5. ASSUME NEW k \in DOMAIN batch_queue, batch_queue'[i] = batch_queue[k], Awaits(k, s),
             ~(Visit(s) /\ k = 1)
      PROVE  IF Async THEN req'[s].computed = req'[s].tokens + req'[s].placeholders - 1
             ELSE req'[s].computed >= req'[s].tokens + batch_queue'[i].spec[s]
  <2>1. req[s].status = "RUNNING" =>
          IF Async THEN req[s].computed = req[s].tokens + req[s].placeholders - 1
          ELSE req[s].computed >= req[s].tokens + batch_queue'[i].spec[s]
    BY <1>5 DEF AwaitedAreComputed
  <2>2. batch_queue'[i].spec[s] \in Nat
    BY <1>5, PlaceholdersCover
  <2>3. CASE Keeps(s)
    BY <2>1, <2>3 DEF Keeps
  <2>4. CASE Advances(s)
    <3>1. /\ req[s].status = "RUNNING" /\ req'[s].tokens = req[s].tokens
          /\ req'[s].computed = req[s].computed + sch.num[s]
          /\ req'[s].placeholders = IF Async /\ Samples(s)
                                    THEN req[s].placeholders + 1 + sch.spec[s]
                                    ELSE req[s].placeholders
      BY <2>4 DEF Advances
    <3>2. CASE Async
      <4>1. req[s].computed = req[s].tokens + req[s].placeholders - 1
        BY <2>1, <3>1, <3>2
      <4>2. CASE Samples(s)
        BY <1>2, <1>3, <3>1, <3>2, <4>2
      <4>3. CASE ~Samples(s)
        BY <1>2, <1>3, <3>1, <3>2, <4>1, <4>3
      <4>4. QED BY <4>2, <4>3
    <3>3. CASE ~Async
      BY <1>2, <1>3, <2>1, <2>2, <3>1, <3>3
    <3>4. QED BY <3>2, <3>3
  <2>5. ~Admits(s)
    <3>1. SUFFICES ASSUME Admits(s) PROVE FALSE
      OBVIOUS
    <3>2. phase = "waiting" /\ req[s].status # "RUNNING"
      BY <3>1 DEF Admits
    <3>3. s \notin sch.preempted /\ Len(batch_queue) <= 1 /\ Len(batch_queue) \in Nat
      BY <3>2, OrderlyDepth DEF ScheduleStages
    <3>4. s \in sch.preempted \/ Len(batch_queue) = 2
      BY <1>5, <3>2 DEF AwaitedRuns
    <3>5. QED BY <3>3, <3>4
  <2>6. CASE Answers(s)
    <3>1. Visit(s) /\ Awaits(1, s) /\ 1 \in DOMAIN batch_queue /\ req[s].status = "RUNNING"
      BY <2>6, AwaitsVisited DEF Answers
    <3>2. Async
      BY <1>5, <3>1 DEF OneAwaited
    <3>3. PICK x \in Nat, g \in Nat :
            /\ 0 < g /\ req'[s].tokens = req[s].tokens + g
            /\ req'[s].computed = IF req[s].computed > 0 THEN req[s].computed - x
                                  ELSE req[s].computed
            /\ x + g <= req[s].placeholders
            /\ req'[s].placeholders = req[s].placeholders - x - g
      BY <2>6, <3>2, AnswerCounts
    <3>4. req[s].tokens > 0
      <4>1. s \in Ordinary /\ PromptLen[s] \in Nat \ {0} /\ req[s].outputs \in Int
        BY RequestsAssumption, RequestFields DEF Ordinary, PositiveNat
      <4>2. QED BY <4>1 DEF OrdinaryAnswers
    <3>5. req[s].computed = req[s].tokens + req[s].placeholders - 1
      BY <2>1, <3>1, <3>2
    <3>6. QED BY <1>2, <3>2, <3>3, <3>4, <3>5
  <2>7. ~Preempts(s) /\ ~Ends(s)
    BY DEF Preempts, Ends
  <2>8. QED BY <1>1, <2>3, <2>4, <2>5, <2>6, <2>7 DEF TokenMove
<1>6. QED BY <1>4, <1>5, AwaitsBefore

\* Rejected drafts are taken off tokens they are part of.
LEMMA ComputedNatStep ==
    ASSUME Resumable = {}, ServiceInv, PlaceholdersAwaited, ScheduledCounts,
           SlotsHeld, ComputedNat, Orderly \/ NumSpecTokens = 0,
           Orderly => AwaitedAreComputed, [Next]_vars
    PROVE  ComputedNat'
<1> USE DEF ServiceInv, IInv
<1> SUFFICES ASSUME NEW s \in Requests, req'[s].status # "FINISHED"
             PROVE  req'[s].computed >= 0
  BY DEF ComputedNat
<1>1. TokenMove(s)
  BY TokenMoves
<1>2. /\ req[s].tokens \in Int /\ req[s].placeholders \in Int /\ req[s].computed \in Int
      /\ sch.num[s] \in Nat
  BY RequestFields, CountsAreNatural
<1>3. req[s].status # "FINISHED" => req[s].computed >= 0
  BY DEF ComputedNat
<1>4. CASE Keeps(s) \/ Advances(s)
  BY <1>2, <1>3, <1>4 DEF Keeps, Advances
<1>5. CASE Admits(s)
  BY <1>5, AdmittedWork
<1>6. CASE Answers(s)
  <2>1. /\ Live(s) /\ Awaits(1, s) /\ 1 \in DOMAIN batch_queue
        /\ batch_queue[1].spec[s] \in Nat
    BY <1>6, AwaitsVisited, AnswerCounts DEF Answers
  <2>2. PICK x \in Nat, g \in Nat :
          /\ 0 < g /\ x + g = 1 + batch_queue[1].spec[s]
          /\ req'[s].computed = IF req[s].computed > 0 THEN req[s].computed - x
                                ELSE req[s].computed
          /\ Async => x + g <= req[s].placeholders
    BY <1>6, AnswerCounts
  <2>3. req[s].computed >= 0
    BY <1>3, <2>1 DEF Live
  <2>4. CASE req[s].computed = 0
    BY <2>2, <2>4
  <2>5. CASE NumSpecTokens = 0
    <3>1. batch_queue[1].spec[s] = 0
      BY <2>1, <2>5 DEF DraftsBounded
    <3>2. x = 0
      BY <2>2, <3>1
    <3>3. QED BY <1>2, <2>2, <2>3, <3>2
  <2>6. CASE Orderly /\ req[s].computed # 0
    <3>1. req[s].status = "RUNNING"
      BY <2>1, <2>6 DEF SlotsHeld, Live
    <3>2. IF Async THEN req[s].computed = req[s].tokens + req[s].placeholders - 1
          ELSE req[s].computed >= req[s].tokens + batch_queue[1].spec[s]
      BY <2>1, <2>6, <3>1 DEF AwaitedAreComputed
    <3>3. req[s].tokens > 0
      <4>1. s \in Ordinary /\ PromptLen[s] \in Nat \ {0} /\ req[s].outputs \in Int
        BY RequestsAssumption, RequestFields DEF Ordinary, PositiveNat
      <4>2. QED BY <2>1, <4>1 DEF OrdinaryAnswers
    <3>4. QED BY <1>2, <2>1, <2>2, <3>2, <3>3
  <2>7. QED BY <2>4, <2>5, <2>6
<1>7. CASE Preempts(s) \/ Ends(s)
  BY <1>7 DEF Preempts, Ends
<1>8. QED BY <1>1, <1>4, <1>5, <1>6, <1>7 DEF TokenMove

--------------------------------------------------------------------------------
(* The invariant of token accounting *)

LEMMA InitTokenInv == Init => TokenInv
<1> SUFFICES ASSUME Init PROVE TokenInv
  OBVIOUS
<1>1. ServiceInv
  BY InitServiceInv
<1>2. BlockInv
  <2>1. IsFiniteSet(Units(blocks)) /\ Sum(blocks) = 0
    BY SumOfNothing DEF Init
  <2>2. BlockAccounting
    BY <2>1, ConstantTypes DEF Init, BlockAccounting
  <2>3. QED BY <1>1, <2>1, <2>2 DEF BlockInv, ServiceInv
<1>3. /\ batch_queue = <<>> /\ Len(batch_queue) = 0 /\ DOMAIN batch_queue = {}
      /\ running = <<>> /\ Len(running) = 0 /\ phase = "engine" /\ sch = NoSchedule
  BY DEF Init
<1>4. \A r \in Requests : /\ req[r].status = "NONE" /\ req[r].computed = 0
                          /\ req[r].placeholders = 0
  BY DEF Init, NewRequest
<1>5. Flights
  BY <1>3, ConfigAssumption DEF Flights, PositiveNat
<1>6. PlaceholdersAwaited
  <2> SUFFICES ASSUME NEW r \in Requests
               PROVE  IsFiniteSet(Units(Awaited(r))) /\ Sum(Awaited(r)) = 0
    BY <1>4 DEF PlaceholdersAwaited
  <2>1. Awaited(r) = [i \in {} |-> 0]
    BY <1>3 DEF Awaited
  <2>2. QED BY <2>1, SumOfNothing
<1>7. BudgetInv
  BY <1>3, ConstantTypes DEF BudgetInv
<1>8. ScheduledCounts
  BY <1>3, NoScheduleFields DEF ScheduledCounts, Scheduled, NoSchedule
<1>9. LoopBehind /\ AllocationFits
  BY <1>3 DEF LoopBehind, AllocationFits
<1>10. SlotsHeld /\ WorkLeft /\ ComputedNat
  BY <1>4 DEF SlotsHeld, WorkLeft, ComputedNat
<1>11. AwaitedRuns /\ OneAwaited /\ AwaitedAreComputed
  BY <1>3 DEF AwaitedRuns, OneAwaited, AwaitedAreComputed
<1>12. QED
  BY <1>1, <1>2, <1>5, <1>6, <1>7, <1>8, <1>9, <1>10, <1>11 DEF TokenInv

LEMMA StepTokenInv ==
    ASSUME Resumable = {}, TokenInv, [Next]_vars
    PROVE  TokenInv'
<1> USE DEF TokenInv
<1>1. ServiceInv' /\ IInv /\ DraftsBounded
  BY StepServiceInv DEF ServiceInv
<1>2. IInv' /\ TypeOK'
  BY <1>1 DEF ServiceInv, IInv
<1>3. BlockInv'
  BY <1>2, BlockStep, BlockMovesKeep DEF BlockInv, IInv
<1>4. Flights' /\ PlaceholdersAwaited' /\ BudgetInv' /\ LoopBehind' /\ AllocationFits'
  BY <1>1, <1>2, FlightsStep, PlaceholdersStep, BudgetStep, LoopBehindStep, AllocationStep
<1>5. ScheduledCounts'
  <2>1. \A s \in Requests : Counts(s)'
    BY <1>1, <1>2, ScheduledCountsStep
  <2>2. Scheduled' \subseteq Requests
    BY <1>2 DEF TypeOK, ScheduleType, Scheduled
  <2>3. QED BY <2>1, <2>2 DEF ScheduledCounts, Counts
<1>6. SlotsHeld'
  BY <1>2, SlotsStep DEF SlotsHeld, Slots
<1>7. WorkLeft'
  BY WorkStep
<1>8. ASSUME Orderly
      PROVE  AwaitedRuns' /\ OneAwaited' /\ AwaitedAreComputed'
  BY <1>1, <1>8, AwaitedRunsStep, OneAwaitedStep, AwaitedAreComputedStep
<1>9. ASSUME Orderly \/ NumSpecTokens = 0
      PROVE  ComputedNat'
  BY <1>9, ComputedNatStep
<1>10. Orderly' <=> Orderly
  BY DEF Orderly
<1>11. QED
  BY <1>1, <1>3, <1>4, <1>5, <1>6, <1>7, <1>8, <1>9, <1>10

\* The accounts of tokens, drafts, placeholders and slots, step by step, of every
\* engine without sessions: what update_from_output() takes off and adds undoes or
\* completes what _update_after_schedule() counted in advance.
THEOREM TokenInvariant ==
    ASSUME Resumable = {}
    PROVE  Spec => []TokenInv
<1>1. Init => TokenInv
  BY InitTokenInv
<1>2. TokenInv /\ [Next]_vars => TokenInv'
  BY StepTokenInv
<1>3. QED BY <1>1, <1>2, PTL DEF Spec

\* No list of running requests is shorter than the step scheduled for it.
LEMMA ScheduledFitRunning ==
    ASSUME IInv
    PROVE  Cardinality(Scheduled) <= Len(running)
<1> USE DEF IInv
<1>1. /\ running \in Seq(Requests) /\ Len(running) \in Nat
      /\ DOMAIN running = 1 .. Len(running)
  BY DEF TypeOK
<1> DEFINE T == {running[i] : i \in 1 .. Len(running)}
           f == [i \in 1 .. Len(running) |-> running[i]]
<1>2. f \in Surjection(1 .. Len(running), T)
  BY DEF Surjection
<1>3. IsFiniteSet(1 .. Len(running)) /\ Cardinality(1 .. Len(running)) = Len(running)
  BY <1>1, FS_Interval
<1> HIDE DEF f
<1>4. IsFiniteSet(T) /\ Cardinality(T) <= Len(running)
  <2> DEFINE D == 1 .. Len(running)
  <2> HIDE DEF D, T
  <2>1. IsFiniteSet(T) /\ Cardinality(T) <= Cardinality(D)
    BY <1>2, <1>3, FS_Surjection DEF D
  <2>2. QED BY <1>3, <2>1 DEF D
<1>5. Scheduled \subseteq T
  <2>1. Scheduled \subseteq Requests
    BY ScheduleFields DEF Scheduled
  <2>2. \A r \in Scheduled : r \in ToSet(running)
    BY <2>1 DEF ScheduledAreRunning, RunningAgreement
  <2>3. QED BY <1>1, <2>2 DEF ToSet
<1> HIDE DEF T
<1>6. IsFiniteSet(Scheduled) /\ Cardinality(Scheduled) <= Cardinality(T)
  BY <1>4, <1>5, FS_Subset
<1>7. Cardinality(Scheduled) \in Nat /\ Cardinality(T) \in Nat
  BY <1>4, <1>6, FS_CardinalityType
<1>8. QED BY <1>1, <1>4, <1>6, <1>7

\* The assertions that end schedule() hold, through every preemption that refunds
\* tokens, for both policies and both schedules, without sessions.
THEOREM ScheduleAssertionsHold ==
    ASSUME Resumable = {}
    PROVE  Spec => []ScheduleAssertions
<1>1. TokenInv => ScheduleAssertions
  <2> SUFFICES ASSUME TokenInv PROVE ScheduleAssertions
    OBVIOUS
  <2>1. IInv /\ BudgetInv /\ ScheduledCounts
    BY DEF TokenInv, ServiceInv
  <2>2. Cardinality(Scheduled) <= Len(running)
    BY <2>1, ScheduledFitRunning
  <2>3. \A r \in Scheduled : sch.spec[r] < sch.num[r]
    BY <2>1, ScheduleFields DEF ScheduledCounts, IInv, Scheduled
  <2>4. QED BY <2>1, <2>2, <2>3 DEF BudgetInv, ScheduleAssertions
<1>2. QED BY <1>1, TokenInvariant, PTL

\* Every token counted as computed, also in advance of the answers in flight, has a
\* slot in a block its request holds, without sessions.
THEOREM ComputedTokensStayInSlots ==
    ASSUME Resumable = {}
    PROVE  Spec => []ComputedTokensHaveSlots
<1>1. TokenInv => ComputedTokensHaveSlots
  <2> SUFFICES ASSUME TokenInv, NEW r \in Requests, Live(r)
               PROVE  req[r].computed <= blocks[r] * BlockSize
    BY DEF ComputedTokensHaveSlots
  <2>1. IInv /\ ScheduledCounts /\ SlotsHeld
    BY DEF TokenInv, ServiceInv
  <2>2. /\ req[r].computed \in Int /\ sch.num[r] \in Nat /\ blocks[r] \in Nat
        /\ BlockSize \in Nat
    BY <2>1, RequestFields, CountsAreNatural, ConstantTypes DEF IInv, TypeOK
  <2> DEFINE slots == blocks[r] * BlockSize
  <2>3. slots \in Nat
    BY <2>2
  <2>4. CASE req[r].status = "RUNNING"
    <3>1. req[r].computed + sch.num[r] <= slots
      BY <2>1, <2>4 DEF SlotsHeld
    <3> HIDE DEF slots
    <3>2. req[r].computed <= slots
      BY <2>2, <2>3, <3>1
    <3>3. QED BY <3>2 DEF slots
  <2>5. CASE req[r].status # "RUNNING"
    <3>1. req[r].computed = 0
      BY <2>1, <2>5 DEF SlotsHeld, Live
    <3>2. QED BY <2>3, <3>1
  <2>6. QED BY <2>4, <2>5
<1>2. QED BY <1>1, TokenInvariant, PTL

\* With one step in flight, or with two and no reset, no request is sampled twice at
\* one position: a request with an answer in flight has computed all that is known.
THEOREM AwaitedStayComputed ==
    ASSUME Resumable = {}, Orderly
    PROVE  Spec => []AwaitedAreComputed
<1>1. TokenInv => AwaitedAreComputed
  BY DEF TokenInv
<1>2. QED BY <1>1, TokenInvariant, PTL

\* A request no step in flight concerns has exactly its placeholders settled and
\* something left to compute, in every synchronous engine, and in an asynchronous one
\* of at most two steps or without drafts.
THEOREM SettledRequestsHaveWork ==
    ASSUME Resumable = {}, ~Async \/ PipelineDepth <= 2 \/ NumSpecTokens = 0
    PROVE  Spec => []SettledRequestHasWork
<1>1. Orderly \/ NumSpecTokens = 0
  BY ConfigAssumption, EngineAssumption DEF Orderly, PositiveNat
<1>2. TokenInv => SettledRequestHasWork
  <2> SUFFICES ASSUME TokenInv, NEW r \in Requests, req[r].status = "RUNNING", ~InFlight(r)
               PROVE  /\ req[r].placeholders = 0
                      /\ 0 <= req[r].computed /\ req[r].computed < req[r].tokens
    BY DEF SettledRequestHasWork
  <2>1. IInv /\ Flights /\ PlaceholdersAwaited /\ WorkLeft /\ ComputedNat
    BY <1>1 DEF TokenInv, ServiceInv
  <2>2. \A i \in DOMAIN batch_queue : r \notin batch_queue[i].sampled
    BY <2>1 DEF Flights, InFlight
  <2>3. Awaited(r) = [i \in DOMAIN batch_queue |-> 0]
    BY <2>2 DEF Awaited, AwaitedIn
  <2>4. req[r].placeholders = 0
    BY <2>1, <2>3, SumOfNothing DEF PlaceholdersAwaited
  <2>5. req[r].tokens \in Int /\ req[r].computed \in Int
    BY <2>1, RequestFields DEF IInv
  <2>6. req[r].computed < req[r].tokens
    <3>1. CASE Async
      BY <2>1, <2>4, <2>5, <3>1 DEF WorkLeft
    <3>2. CASE ~Async
      BY <2>1, <2>2, <3>2 DEF WorkLeft, Awaits
    <3>3. QED BY <3>1, <3>2
  <2>7. 0 <= req[r].computed
    BY <2>1, <2>5 DEF ComputedNat
  <2>8. QED BY <2>4, <2>6, <2>7
<1>3. QED BY <1>2, TokenInvariant, PTL
================================================================================
