---------------------------- MODULE ObservationLog ----------------------------
(***************************************************************************)
(* What the word-study store promises across power losses: an observation  *)
(* once recorded stays pending until the server has given its verdict on   *)
(* it, and one dropped after its verdict never comes back.                 *)
(***************************************************************************)
CONSTANT Ids

VARIABLES pending,  \* the observations a reboot would still upload
          judged    \* those the server accepted or refused for good

vars == <<pending, judged>>

\* Both sets hold observations.
TypeOK == pending \subseteq Ids /\ judged \subseteq Ids

Init == pending = {} /\ judged = {}

Record ==
    \E id \in Ids \ (pending \cup judged) :
        UNCHANGED judged /\ pending' = pending \cup {id}

Judge ==
    \E id \in pending \ judged :
        judged' = judged \cup {id} /\ UNCHANGED pending

Drop ==
    \E id \in pending \cap judged :
        UNCHANGED judged /\ pending' = pending \ {id}

Next == Record \/ Judge \/ Drop

Spec == Init /\ [][Next]_vars
================================================================================
