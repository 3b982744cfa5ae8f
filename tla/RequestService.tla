---------------------------- MODULE RequestService ----------------------------
(***************************************************************************)
(* What the engine promises the clients of ordinary requests, whatever     *)
(* happens inside: a request that was accepted is answered in portions     *)
(* that follow each other, is never answered beyond its limit, ends once,  *)
(* and ends with the limit, a stop token or the client's abort only.       *)
(***************************************************************************)
EXTENDS Naturals

CONSTANTS
    Clients,      \* one request of each client
    Limit,        \* [Clients -> Nat \ {0}], tokens of the longest answer
    StopsEarly,   \* clients whose answer may end before its limit
    MayAbort,     \* clients that may give up
    Portion       \* tokens one portion has at most

VARIABLES
    state,        \* [Clients -> {"idle", "open", "closed"}]
    received      \* [Clients -> Nat], tokens of the answer so far

vars == <<state, received>>

Init ==
    /\ state = [c \in Clients |-> "idle"]
    /\ received = [c \in Clients |-> 0]

Accept(c) ==
    /\ state[c] = "idle"
    /\ state' = [state EXCEPT ![c] = "open"]
    /\ UNCHANGED received

\* A portion that leaves the answer open is short of the limit.
Deliver(c) ==
    /\ state[c] = "open"
    /\ \E n \in 1 .. Portion :
         /\ received[c] + n < Limit[c]
         /\ received' = [received EXCEPT ![c] = @ + n]
    /\ UNCHANGED state

\* The last portion ends the answer at its limit, or at a stop token before it.
Complete(c) ==
    /\ state[c] = "open"
    /\ \E n \in 1 .. Portion :
         /\ received[c] + n = Limit[c] \/ (c \in StopsEarly /\ received[c] + n < Limit[c])
         /\ received' = [received EXCEPT ![c] = @ + n]
    /\ state' = [state EXCEPT ![c] = "closed"]

Abort(c) ==
    /\ c \in MayAbort /\ state[c] = "open"
    /\ state' = [state EXCEPT ![c] = "closed"]
    /\ UNCHANGED received

Next == \E c \in Clients : Accept(c) \/ Deliver(c) \/ Complete(c) \/ Abort(c)

Spec == Init /\ [][Next]_vars
================================================================================
