---------------------------- MODULE MCSparseBackend ----------------------------
(* Instances of SparseBackend for TLC. *)
EXTENDS SparseBackend

CONSTANTS r1, r2

TwoRequests == {r1, r2}

\* One request: the best key of each of five blocks, and where in its block it is.
AnyKeys ==
    {[r \in {r1} |-> [p \in 0 .. 8 |-> IF p % 2 = h THEN s[p \div 2] ELSE 0]] :
        s \in [0 .. 4 -> 1 .. 2], h \in 0 .. 1}

\* Two requests with different keys.
TwoKeys(n) ==
    {(r1 :> [p \in 0 .. n - 1 |-> (p * 2) % 3]) @@ (r2 :> [p \in 0 .. n - 1 |-> 2 - (p \div 3)])}

Base ==
    [block |-> 2, tile |-> 4, qtile |-> 2, lanes |-> 4, topk |-> 2, grid |-> 8,
     most |-> 4, context |-> 9, init |-> 0, local |-> 1, drafts |-> 0, graphs |-> {},
     batch |-> 1, chunk |-> 9, keys |-> AnyKeys]

\* Eager decode, eager verification, and verification in a graph, of one request; recorded
\* decode, verification in graphs, and more requests than a graph takes, of two.
PassingConfigs ==
    {Base,
     [Base EXCEPT !.drafts = 3, !.chunk = 4, !.context = 6],
     [Base EXCEPT !.graphs = {1}, !.drafts = 2, !.chunk = 3, !.local = 0,
                  !.context = 7],
     [Base EXCEPT !.graphs = {2}, !.batch = 2, !.chunk = 2, !.context = 6, !.keys = TwoKeys(6)],
     [Base EXCEPT !.graphs = {1, 2}, !.batch = 2, !.chunk = 1, !.drafts = 2, !.context = 5,
                  !.init = 1, !.topk = 3, !.lanes = 8, !.keys = TwoKeys(7)],
     [Base EXCEPT !.graphs = {1}, !.batch = 2, !.chunk = 1, !.drafts = 3, !.context = 2,
                  !.keys = TwoKeys(5)]}
================================================================================
