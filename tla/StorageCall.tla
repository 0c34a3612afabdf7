------------------------------ MODULE StorageCall ------------------------------
(***************************************************************************)
(* What services/storage_service.cpp promises each caller: its transaction *)
(* is run at most once and the caller gets the outcome of that run, or the *)
(* caller is refused and the transaction is never run.                     *)
(***************************************************************************)
CONSTANTS Requests, Outcomes

VARIABLES phase,   \* of each request: "none", "submitted", "run", "returned", "refused"
          outcome  \* what its transaction returned

vars == <<phase, outcome>>

\* A phase and an outcome per request.
TypeOK ==
    /\ phase \in [Requests -> {"none", "submitted", "run", "returned", "refused"}]
    /\ outcome \in [Requests -> Outcomes \cup {"none"}]

Init ==
    /\ phase = [r \in Requests |-> "none"]
    /\ outcome = [r \in Requests |-> "none"]

Step(r, from, to) ==
    /\ phase[r] = from
    /\ phase' = [phase EXCEPT ![r] = to]

Submit(r) == Step(r, "none", "submitted") /\ UNCHANGED outcome

Run(r, result) ==
    /\ Step(r, "submitted", "run")
    /\ outcome' = [outcome EXCEPT ![r] = result]

Return(r) == Step(r, "run", "returned") /\ UNCHANGED outcome

Refuse(r) == Step(r, "submitted", "refused") /\ UNCHANGED outcome

Next ==
    \E r \in Requests :
        \/ Submit(r)
        \/ \E result \in Outcomes : Run(r, result)
        \/ Return(r)
        \/ Refuse(r)

Spec == Init /\ [][Next]_vars
================================================================================
