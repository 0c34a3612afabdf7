------------------------------- MODULE LeaseGate -------------------------------
(***************************************************************************)
(* What the sleep coordinator of components/power_runtime promises to the  *)
(* rest of the firmware: a gate that is open, closed for an idle sleep, or *)
(* closed for a battery emergency.  Work is admitted only through an open  *)
(* gate, and the idle closure succeeds only when no work is left.          *)
(***************************************************************************)
CONSTANT Tasks

VARIABLES holders,  \* the tasks whose lease still blocks sleep
          gate      \* "open", "idle" or "emergency"

vars == <<holders, gate>>

\* Holders are tasks and the gate has three positions.
TypeOK ==
    /\ holders \subseteq Tasks
    /\ gate \in {"open", "idle", "emergency"}

Init ==
    /\ holders = {}
    /\ gate = "open"

Admit(t) ==
    /\ gate = "open"
    /\ t \notin holders
    /\ holders' = holders \cup {t}
    /\ UNCHANGED gate

Finish(t) ==
    /\ t \in holders
    /\ holders' = holders \ {t}
    /\ UNCHANGED gate

CloseForIdle ==
    /\ gate = "open"
    /\ holders = {}
    /\ gate' = "idle"
    /\ UNCHANGED holders

CloseForEmergency ==
    /\ gate = "open"
    /\ gate' = "emergency"
    /\ UNCHANGED holders

Reopen ==
    /\ gate = "idle"
    /\ gate' = "open"
    /\ UNCHANGED holders

\* Deep sleep ends in a reset: every task starts again with nothing held.
Sleep ==
    /\ gate # "open"
    /\ holders' = {}
    /\ gate' = "open"

Next ==
    \/ \E t \in Tasks : Admit(t) \/ Finish(t)
    \/ CloseForIdle
    \/ CloseForEmergency
    \/ Reopen
    \/ Sleep

Spec == Init /\ [][Next]_vars
================================================================================
