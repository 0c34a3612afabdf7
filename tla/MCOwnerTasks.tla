----------------------------- MODULE MCOwnerTasks -----------------------------
(***************************************************************************)
(* For TLC, one at a time: the sleep gate (three tasks compete for two     *)
(* lease records), and tasks that own a part of the device: the panel      *)
(* driver of the EPD task, the audio service, the connectivity service,    *)
(* the sync task with identity and checkpoint (DeviceControl), the tasks   *)
(* of a spoken dialogue (FlashSession).  They share no variable here, so   *)
(* an initial state chooses the part that runs: the others stay as they    *)
(* started, and the instance is the disjoint union of the parts.           *)
(***************************************************************************)
EXTENDS SleepCoordinator, EpdPanel, DeviceControl, AudioService, Connectivity,
        FlashSession

CONSTANTS t1, t2, t3, c1, c2, w1

VARIABLE part

\* Two turns with a failure, two turns with a spoken reply, and a session of one
\* turn, its reply and its end with two failures.
DialogueBounds ==
    CASE part = "dialogue" -> past'.blocks = 0 /\ past'.faults <= 1
      [] part = "spoken" -> past'.faults = 0
      [] part = "failing" -> past'.gestures <= 1

\* Two identities with a page each, and one with two, which the problem page shows.
ControlBounds ==
    CASE part = "control" -> uiList' = {} /\ round'.answer.page <= 1
      [] part = "cache" -> keys' <= 1 /\ other' = 0

all == <<part, vars, epdVars, audioVars, netVars, control, flashVars>>

OwnersInit ==
    /\ part \in {"gate", "panel", "audio", "connectivity", "control", "cache",
                "dialogue", "spoken", "failing"}
    /\ Init
    /\ PanelInit /\ ControlInit /\ AudioInit
    /\ NetInit /\ (part # "connectivity" => ~known)
    /\ FlashInit

OwnersNext ==
    \/ /\ part = "gate" /\ Next
       /\ UNCHANGED <<part, epdVars, audioVars, netVars, control, flashVars>>
    \/ /\ part = "panel" /\ PanelNext
       /\ UNCHANGED <<part, vars, audioVars, netVars, control, flashVars>>
    \/ /\ part = "audio" /\ AudioNext
       /\ UNCHANGED <<part, vars, epdVars, netVars, control, flashVars>>
    \/ /\ part = "connectivity" /\ NetNext
       /\ UNCHANGED <<part, vars, epdVars, audioVars, control, flashVars>>
    \/ /\ part \in {"control", "cache"} /\ ControlNext /\ ControlBounds
       /\ UNCHANGED <<part, vars, epdVars, audioVars, netVars, flashVars>>
    \/ /\ part \in {"dialogue", "spoken", "failing"} /\ FlashNext /\ DialogueBounds
       /\ UNCHANGED <<part, vars, epdVars, audioVars, netVars, control>>

OwnersSpec == OwnersInit /\ [][OwnersNext]_all
================================================================================
