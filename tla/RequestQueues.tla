----------------------------- MODULE RequestQueues -----------------------------
(***************************************************************************)
(* The operations on the scheduler's queues of requests that the community *)
(* modules do not have.                                                    *)
(***************************************************************************)
EXTENDS Integers, SequencesExt

\* No request is queued twice.
NoDuplicates(s) == \A i, j \in DOMAIN s : s[i] = s[j] => i = j

\* RequestQueue.remove_requests and remove_all, for a request queued once.
Without(q, r) ==
    IF \E i \in DOMAIN q : q[i] = r
    THEN RemoveAt(q, CHOOSE i \in DOMAIN q : q[i] = r)
    ELSE q

\* The requests of a queue that belong to a set, in their order.
Only(q, some) ==
    FoldLeft(LAMBDA kept, r : IF r \in some THEN Append(kept, r) ELSE kept, <<>>, q)

================================================================================
