------------------------------ MODULE MCKVTransfer ------------------------------
(* Instances of KVTransfer for TLC. *)
EXTENDS KVTransfer, TLC

CONSTANTS r1, r2

TwoRequests == {r1, r2}
Prompts == (r1 :> 4) @@ (r2 :> 3)
OneOutput == (r1 :> 2) @@ (r2 :> 1)

\* Scarce blocks and loads inside the steps; scarce blocks for whatever
\* a failed load leaves; loads beside the steps with room for all.
PassingConfigs ==
    {[blocks |-> 4, recompute |-> FALSE, async |-> FALSE, abort |-> TRUE,
      resumed_load |-> FALSE, delay |-> TRUE, shared |-> 0],
     [blocks |-> 7, recompute |-> TRUE, async |-> FALSE, abort |-> FALSE,
      resumed_load |-> FALSE, delay |-> FALSE, shared |-> 2],
     [blocks |-> 7, recompute |-> TRUE, async |-> TRUE, abort |-> FALSE,
      resumed_load |-> TRUE, delay |-> FALSE, shared |-> 2],
     [blocks |-> 7, recompute |-> FALSE, async |-> TRUE, abort |-> TRUE,
      resumed_load |-> TRUE, delay |-> FALSE, shared |-> 2]}
================================================================================
