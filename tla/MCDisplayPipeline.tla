--------------------------- MODULE MCDisplayPipeline ---------------------------
(***************************************************************************)
(* For TLC, one at a time: the way of a frame to the panel                 *)
(* (DisplayPipeline), and the commands its EPD task serves while it is     *)
(* idle (EpdCommands).  They share no variable here: the one that does not *)
(* run stays as it started.                                                *)
(***************************************************************************)
EXTENDS DisplayPipeline, EpdCommands

CONSTANTS f1, f2

VARIABLE part

all == <<part, vars, commandVars>>

EpdInit ==
    /\ part \in {"commands", "pipeline"}
    /\ Init /\ CommandsInit
    /\ part = "commands" => desired = f1

EpdNext ==
    \/ part = "commands" /\ CommandsNext /\ UNCHANGED <<part, vars>>
    \/ part = "pipeline" /\ Next /\ UNCHANGED <<part, commandVars>>

EpdSpec == EpdInit /\ [][EpdNext]_all /\ (part = "pipeline" => Fairness)

--------------------------------------------------------------------------------
\* DisplayPipeline: the panel comes to show the page of the UI.
PipelineConverges == part = "pipeline" => PanelConverges
================================================================================
