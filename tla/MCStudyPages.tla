----------------------------- MODULE MCStudyPages -----------------------------
(***************************************************************************)
(* For TLC, one at a time: the word-study store under its page and its     *)
(* upload (WordStudy), the lanes of the cloud runner alone, and under the  *)
(* note-browsing page (CloudRunner, NoteSession), and the verdicts on      *)
(* problems (ProblemOutbox).  They share no variable, so an initial state  *)
(* chooses the part that runs: each stays as it is while another runs, and *)
(* the instance is the disjoint union of the parts.                        *)
(***************************************************************************)
EXTENDS WordStudy, NoteSession, ProblemOutbox

VARIABLE part
all == <<part, vars, noteVars, outboxVars>>

\* Two notes are opened, or a third request is made.
NoteBounds ==
    /\ part = "note" => requests' <= 2
    /\ part = "pages" => opened' <= 1

\* A third verdict is given, or a second fault happens.
VerdictBounds ==
    /\ part = "problem" => outboxFaults' <= 1
    /\ part = "faulty" => given' <= 2

PagesInit ==
    /\ part \in {"word", "cloud", "note", "pages", "problem", "faulty"}
    /\ Init
    /\ NoteInit
    /\ OutboxInit

PagesNext ==
    \/ part = "word" /\ Next /\ UNCHANGED <<part, noteVars, outboxVars>>
    \/ part = "cloud" /\ CloudNext /\ UNCHANGED <<part, vars, pageVars, files, uiPc, write,
                                                 journalVars, started, opened, boots, opens,
                                                 astray, outboxVars>>
    \/ part \in {"note", "pages"} /\ NoteNext /\ NoteBounds /\ UNCHANGED <<part, vars, outboxVars>>
    \/ part \in {"problem", "faulty"} /\ OutboxNext /\ VerdictBounds
                                      /\ UNCHANGED <<part, vars, noteVars>>

PagesSpec == PagesInit /\ [][PagesNext]_all
================================================================================
