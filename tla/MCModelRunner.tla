----------------------------- MODULE MCModelRunner -----------------------------
(* Instances of ModelRunner for TLC. *)
EXTENDS ModelRunner, TLC

CONSTANTS r1, r2, r3

AllRequests == {r1, r2, r3}
Prompts == (r1 :> 3) @@ (r2 :> 2) @@ (r3 :> 1)
Outputs == (r1 :> 2) @@ (r2 :> 2) @@ (r3 :> 4)
Sizes == {1, 2, 4, 6, 16}

\* Drafts after whole prefills, with requests that are preempted; steps in flight
\* with chunked prefills and no drafts; batches of three requests, whose draft step
\* is padded, with requests that are aborted.
PassingConfigs ==
    {[spec |-> 2, async |-> FALSE, aborts |-> FALSE, chunk |-> 8, cut |-> "drafts",
      preemptions |-> 1, mode |-> "FULL", clients |-> {r1, r3}, hits |-> {0, 2}],
     [spec |-> 0, async |-> TRUE, aborts |-> TRUE, chunk |-> 2, cut |-> "any",
      preemptions |-> 1, mode |-> "FULL_DECODE_ONLY", clients |-> {r1, r2}, hits |-> {0}],
     [spec |-> 2, async |-> FALSE, aborts |-> TRUE, chunk |-> 8, cut |-> "nothing",
      preemptions |-> 0, mode |-> "FULL", clients |-> {r1, r2, r3}, hits |-> {0, 1}]}
================================================================================
