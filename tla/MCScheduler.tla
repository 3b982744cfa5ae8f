------------------------------ MODULE MCScheduler ------------------------------
(***************************************************************************)
(* Small instances of the scheduler: three requests on a cache that holds  *)
(* about two.                                                              *)
(***************************************************************************)
EXTENDS SchedulerProperties

CONSTANTS r1, r2, r3

Trio == {r1, r2, r3}

\* r1 fills more than a block, r2 a block, r3 one token of a block.
Prompts == [r \in Requests |-> IF r = r1 THEN 3 ELSE IF r = r2 THEN 2 ELSE 1]
Outputs == [r \in Requests |-> IF r = r1 THEN 3 ELSE IF r = r2 THEN 2 ELSE 1]
\* The last to arrive has the highest priority.
Ranks == [r \in Requests |-> IF r = r1 THEN 2 ELSE IF r = r2 THEN 1 ELSE 0]

None == {}
First == {r1}
Second == {r2}
Third == {r3}
MaybeHit == {0, 1}
OneToken == {1}
================================================================================
