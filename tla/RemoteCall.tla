------------------------------ MODULE RemoteCall ------------------------------
(***************************************************************************)
(* What a request through the client promises about the provider's side:   *)
(* when it may be executed, how often, and what an outcome tells of that.  *)
(***************************************************************************)
EXTENDS Naturals

CONSTANT Calls

VARIABLES
    stage,      \* "idle", "open" or "closed"
    safe,       \* whether the method may be executed more than once
    executed,   \* how often the provider has executed the call
    outcome     \* what the call returned

vars == <<stage, safe, executed, outcome>>

Init ==
    /\ stage = [c \in Calls |-> "idle"]
    /\ safe \in [Calls -> BOOLEAN]
    /\ executed = [c \in Calls |-> 0]
    /\ outcome = [c \in Calls |-> "none"]

Open(c) ==
    /\ stage[c] = "idle"
    /\ stage' = [stage EXCEPT ![c] = "open"]
    /\ UNCHANGED <<safe, executed, outcome>>

\* An unsafe call is executed once at most.  After it has returned, anything may still be
\* executed of it only if it returned a transport error or its method is a safe one, and
\* nothing at all if it was rejected.
Execute(c) ==
    /\ stage[c] # "idle"
    /\ outcome[c] # "rejected"
    /\ ~safe[c] => executed[c] = 0 /\ outcome[c] \in {"none", "transport"}
    /\ executed' = [executed EXCEPT ![c] = @ + 1]
    /\ UNCHANGED <<stage, safe, outcome>>

\* A value is the answer to an execution, a rejection the promise of none.
Close(c) ==
    /\ stage[c] = "open"
    /\ stage' = [stage EXCEPT ![c] = "closed"]
    /\ \E o \in {"value", "rejected", "transport", "status", "body", "schema"} :
        /\ o \in {"value", "body", "schema"} => executed[c] > 0
        /\ o = "rejected" => executed[c] = 0
        /\ outcome' = [outcome EXCEPT ![c] = o]
    /\ UNCHANGED <<safe, executed>>

Next == \E c \in Calls : Open(c) \/ Execute(c) \/ Close(c)

Spec == Init /\ [][Next]_vars /\ \A c \in Calls : WF_vars(Close(c))
================================================================================
