----------------------------- MODULE ProblemOutbox -----------------------------
(***************************************************************************)
(* The verdicts on problems: the problem page (main/problem_app.cpp and    *)
(* its gates in main/ui_model.cpp), the journal of the verdicts            *)
(* (main/problem_store.cpp), and the loop of the sync task that uploads    *)
(* them (main/services/sync_service.cpp).  The page, the persist worker    *)
(* and the sync task take turns; a storage transaction is one step         *)
(* (StorageService and StorageCall say why), cut by a power loss between   *)
(* two file operations of it.                                              *)
(*                                                                         *)
(* A line of the journal holds the record it decodes to, mentions every    *)
(* request whose id is somewhere in its text, and is closed when its       *)
(* newline was written: an append goes behind a line that is not, and the  *)
(* parser takes the first record of what becomes of the two.               *)
(***************************************************************************)
EXTENDS Integers, Sequences, SequencesExt, Places

CONSTANTS
    Sets,               \* number of problem sets
    Problems,           \* number of problems in each of them
    VerdictCapacity,    \* kProblemObservationOutboxCapacity
    MaxVerdicts,        \* bound on the verdicts given
    MaxOutboxFaults     \* bound on power losses and failed writes

ASSUME OutboxAssumption ==
    /\ {Sets, Problems, VerdictCapacity} \subseteq Nat \ {0}
    /\ {MaxVerdicts, MaxOutboxFaults} \subseteq Nat

VARIABLES
    active,         \* ProblemAppState::active
    problemMode,    \* "list", "view" or "verdict"
    set,            \* set_order, the set that is open
    selected,       \* list_selected
    current,        \* the problem that was loaded, NoProblem for none
    unlocked,       \* answer_unlocked
    verdictCommit,  \* commit_state
    pendingVerdict, \* pending_verdict
    effectReady,    \* verdict_effect_ready
    verdictOp,      \* pending_persist_operation_id, 0 for none
    verdictWrite,   \* the operation of the persist worker
    verdicts,       \* po_outbox.jsonl
    upload,         \* place of the upload loop, with the head it is busy with
    retry,          \* request of the retry backoff, 0 for none
    given,          \* number of verdicts given, which names them
    told,           \* ghost: verdicts reported as recorded
    applied,        \* ghost: verdicts the server applied, in order
    refused,        \* ghost: verdicts the server refused for good
    damaged,        \* ghost: verdicts that a cut rewrite, a torn line or an answer that
                    \* nobody could read took
    outboxFaults

problemPage == <<active, problemMode, set, selected, current, unlocked, verdictCommit,
                 pendingVerdict, effectReady, verdictOp>>
ghosts == <<told, applied, refused>>
outboxVars == <<problemPage, verdictWrite, verdicts, upload, retry, given, ghosts, damaged,
                outboxFaults>>

NoProblem == [set |-> 0, index |-> 0]
NoVerdict == [id |-> 0, problem |-> NoProblem]
NoWrite == [op |-> 0, id |-> 0, result |-> "none"]
Idle == [at |-> "idle", id |-> 0, answer |-> "none"]

--------------------------------------------------------------------------------
(* The journal *)

Line(id) == [holds |-> id, mentions |-> {id}, closed |-> TRUE]

\* What a failed append leaves of a record: a part, with its id or without, or all
\* of it without the newline.
TornLine(id) ==
    {[holds |-> 0, mentions |-> {}, closed |-> FALSE],
     [holds |-> 0, mentions |-> {id}, closed |-> FALSE],
     [holds |-> id, mentions |-> {id}, closed |-> FALSE]}

\* Appending behind a line that was not closed makes one line of the two.
Glued(line, next) ==
    [holds |-> line.holds, mentions |-> line.mentions \cup next.mentions,
     closed |-> next.closed]

AppendLine(lines, next) ==
    IF lines # <<>> /\ ~Last(lines).closed
    THEN Append(Front(lines), Glued(Last(lines), next))
    ELSE Append(lines, next)

Held(lines) == {lines[i].holds : i \in DOMAIN lines} \ {0}

\* The record an append of next would lose.
Swallowed(lines, next) == {next.holds} \ (Held(AppendLine(lines, next)) \cup {0})

Mentioned(id) == \E i \in DOMAIN verdicts : id \in verdicts[i].mentions

\* CommitTransaction: a request that is mentioned is taken for recorded.
CommitVerdict(id) ==
    \/ /\ Mentioned(id)
       /\ verdictWrite' = [verdictWrite EXCEPT !.result = "ok"] /\ told' = told \cup {id}
       /\ UNCHANGED <<verdicts, damaged, outboxFaults>>
    \/ /\ ~Mentioned(id) /\ Len(verdicts) < VerdictCapacity
       /\ verdicts' = AppendLine(verdicts, Line(id))
       /\ damaged' = damaged \cup Swallowed(verdicts, Line(id))
       /\ verdictWrite' = [verdictWrite EXCEPT !.result = "ok"] /\ told' = told \cup {id}
       /\ UNCHANGED outboxFaults
    \/ /\ ~Mentioned(id) /\ Len(verdicts) >= VerdictCapacity
       /\ verdictWrite' = [verdictWrite EXCEPT !.result = "failed"]
       /\ UNCHANGED <<verdicts, damaged, outboxFaults, told>>
    \/ /\ outboxFaults < MaxOutboxFaults
       /\ outboxFaults' = outboxFaults + 1
       /\ \/ UNCHANGED verdicts
          \/ /\ ~Mentioned(id) /\ Len(verdicts) < VerdictCapacity
             /\ \E t \in TornLine(id) \cup {Line(id)} : verdicts' = AppendLine(verdicts, t)
       /\ verdictWrite' = [verdictWrite EXCEPT !.result = "failed"]
       /\ UNCHANGED <<damaged, told>>

\* The lines that decode.
Records == {i \in DOMAIN verdicts : verdicts[i].holds # 0}

\* PeekTransaction: the first of them.
FirstRecord == verdicts[Min(Records)].holds

\* RemoveTransaction: in their order, the lines that decode without the record.
Retained(id) == RecordsAt(verdicts, {i \in Records : verdicts[i].holds # id})

\* WriteOutboxLines: a new file takes the name of the old one; an empty journal is no
\* file.
Rewrite(lines) ==
    /\ verdicts' = [i \in DOMAIN lines |-> [lines[i] EXCEPT !.closed = TRUE]]
    /\ UNCHANGED <<damaged, outboxFaults>>

\* The old file is removed before the new one has its name: a failed rename leaves none.
LoseAll(lines) ==
    /\ lines # <<>>
    /\ verdicts' = <<>>
    /\ damaged' = damaged \cup Held(lines)

\* The new file is not written or the old one not removed, or the rename fails.
RewriteFails(lines) ==
    /\ outboxFaults < MaxOutboxFaults /\ outboxFaults' = outboxFaults + 1
    /\ LoseAll(lines) \/ UNCHANGED <<verdicts, damaged>>

--------------------------------------------------------------------------------
(* The page *)

PageStep == UNCHANGED <<verdictWrite, verdicts, upload, retry, ghosts, damaged, outboxFaults>>

\* ActivateProblemBrowse, from the list of the notebooks.
OpenSet(s) ==
    /\ ~active /\ verdictCommit # "persisting"
    /\ active' = TRUE /\ problemMode' = "list" /\ set' = s /\ selected' = 1
    /\ UNCHANGED <<current, unlocked, verdictCommit, pendingVerdict, effectReady,
                   verdictOp, given>>
    /\ PageStep

\* Up and Down in the list of titles.
MoveInList(to) ==
    /\ active /\ problemMode = "list"
    /\ to \in 1..Problems /\ to \in {selected - 1, selected + 1}
    /\ selected' = to
    /\ UNCHANGED <<active, problemMode, set, current, unlocked, verdictCommit,
                   pendingVerdict, effectReady, verdictOp, given>>
    /\ PageStep

\* LoadCurrentProblem, which may fail to read the pack.
LoadCurrentProblem(index) ==
    /\ current' \in {NoProblem, [set |-> set, index |-> index]}
    /\ unlocked' = FALSE

\* Confirm in the list opens a problem.
OpenProblem ==
    /\ active /\ problemMode = "list"
    /\ problemMode' = "view"
    /\ LoadCurrentProblem(selected)
    /\ UNCHANGED <<active, set, selected, verdictCommit, pendingVerdict, effectReady,
                   verdictOp, given>>
    /\ PageStep

\* Confirm in a problem shows its answer first, then asks for the verdict.
ConfirmView ==
    /\ active /\ problemMode = "view" /\ verdictCommit # "persisting"
    /\ \/ ~unlocked /\ current # NoProblem /\ unlocked' = TRUE /\ problemMode' = problemMode
       \/ unlocked /\ problemMode' = "verdict" /\ UNCHANGED unlocked
    /\ UNCHANGED <<active, set, selected, current, verdictCommit, pendingVerdict,
                   effectReady, verdictOp, given>>
    /\ PageStep

\* Confirm in the window: the verdict waits for the persist worker.
GiveVerdict ==
    /\ active /\ problemMode = "verdict" /\ verdictCommit # "persisting" /\ current # NoProblem
    /\ given < MaxVerdicts
    /\ given' = given + 1
    /\ pendingVerdict' = [id |-> given + 1, problem |-> current]
    /\ effectReady' = TRUE /\ verdictCommit' = "persisting" /\ problemMode' = "view"
    /\ UNCHANGED <<active, set, selected, current, unlocked, verdictOp>>
    /\ PageStep

\* Mutant of MayLeave: the page is left while a verdict is being written.
MayLeaveAlways == TRUE

\* The gate in front of every way out of the page.
MayLeave == verdictCommit # "persisting"

\* Long confirm: from the window to the problem, to the list, out of the set.
Escape ==
    /\ active /\ MayLeave
    /\ IF problemMode = "verdict"
       THEN problemMode' = "view" /\ UNCHANGED <<active, current, unlocked>>
       ELSE IF problemMode = "view"
       THEN /\ problemMode' = "list" /\ current' = NoProblem /\ unlocked' = FALSE
            /\ UNCHANGED active
       ELSE active' = FALSE /\ UNCHANGED <<problemMode, current, unlocked>>
    /\ UNCHANGED <<set, selected, verdictCommit, pendingVerdict, effectReady, verdictOp, given>>
    /\ PageStep

\* PumpProblemVerdictCommit with TakeProblemVerdictEffect: reserve, take, enqueue.
PumpVerdictCommit ==
    /\ effectReady /\ verdictWrite = NoWrite
    /\ effectReady' = FALSE
    /\ verdictOp' = pendingVerdict.id
    /\ verdictWrite' = [op |-> pendingVerdict.id, id |-> pendingVerdict.id, result |-> "none"]
    /\ UNCHANGED <<active, problemMode, set, selected, current, unlocked, verdictCommit,
                   pendingVerdict, verdicts, upload, retry, given, ghosts, damaged,
                   outboxFaults>>

\* AdvanceAfterVerdict: the next problem of the set, or the list after the last one.
AdvanceAfterVerdict ==
    IF selected < Problems
    THEN /\ selected' = selected + 1 /\ problemMode' = "view"
         /\ LoadCurrentProblem(selected + 1)
    ELSE /\ problemMode' = "list" /\ current' = NoProblem /\ unlocked' = FALSE
         /\ UNCHANGED selected

\* DispatchProblemVerdictPersistResult and the acknowledgement of the result.
TakeVerdictResult ==
    /\ verdictWrite.result # "none"
    /\ verdictWrite' = NoWrite
    /\ IF verdictCommit # "persisting" \/ verdictOp # verdictWrite.op
       THEN UNCHANGED problemPage
       ELSE /\ verdictOp' = 0
            /\ UNCHANGED <<active, set, effectReady>>
            /\ IF verdictWrite.result = "ok"
               THEN /\ pendingVerdict' = NoVerdict /\ verdictCommit' = "cloudPending"
                    /\ AdvanceAfterVerdict
               ELSE /\ verdictCommit' = "failed"
                    /\ UNCHANGED <<pendingVerdict, problemMode, selected, current, unlocked>>
    /\ UNCHANGED <<verdicts, upload, retry, given, ghosts, damaged, outboxFaults>>

\* DispatchSyncResult with RefreshProblemOutboxState: the event of a round that succeeded
\* is left in its queue while something is being persisted, then an empty journal
\* acknowledges.
RefreshOutboxState ==
    /\ verdictCommit # "persisting" /\ verdictWrite = NoWrite
    /\ Records = {} /\ verdictCommit = "cloudPending"
    /\ verdictCommit' = "cloudAcknowledged"
    /\ UNCHANGED <<active, problemMode, set, selected, current, unlocked, pendingVerdict,
                   effectReady, verdictOp, given>>
    /\ PageStep

--------------------------------------------------------------------------------
(* The other tasks *)

\* The persist worker runs the transaction.
PersistVerdict ==
    /\ verdictWrite.op # 0 /\ verdictWrite.result = "none"
    /\ CommitVerdict(verdictWrite.id)
    /\ UNCHANGED <<problemPage, upload, retry, given, applied, refused>>

\* A round of the upload loop looks at the head; an empty journal, a head that is
\* deferred, or an interaction of the user ends it.
PeekVerdict ==
    /\ upload.at = "idle"
    /\ Records # {}
    /\ upload' = [Idle EXCEPT !.at = "submit", !.id = FirstRecord]
    /\ retry' = IF retry = FirstRecord THEN retry ELSE 0
    /\ UNCHANGED <<problemPage, verdictWrite, verdicts, given, ghosts, damaged, outboxFaults>>

Apply(id) == IF id \in Range(applied) THEN applied ELSE Append(applied, id)

\* Mutant of Terminal: an answer that was lost counts as a refusal.
TerminalOrLost == {"refused", "unreadable", "lost"}

\* The answers after which the verdict is not sent again.  An answer that is none of the
\* protocol (401, or a page of a gateway) has no error code that says "retryable", and
\* counts as a refusal.
Terminal == {"refused", "unreadable"}

\* SubmitProblemReviewObservationV1: the server applies or refuses, or is not reached;
\* its answer may be lost, or be replaced on its way.  Without one the head is deferred.
SubmitVerdict ==
    /\ upload.at = "submit"
    /\ \E answer \in {"applied", "refused", "lost", "unreadable"} :
        /\ answer = "refused" => upload.id \notin Range(applied)
        /\ applied' \in CASE answer = "applied" -> {Apply(upload.id)}
                          [] answer = "refused" -> {applied}
                          [] answer \in {"lost", "unreadable"} -> {applied, Apply(upload.id)}
        /\ refused' = IF answer = "refused" THEN refused \cup {upload.id} ELSE refused
        /\ damaged' = IF answer = "unreadable" /\ upload.id \notin Range(applied')
                      THEN damaged \cup {upload.id} ELSE damaged
        /\ IF answer \in Terminal \cup {"applied"}
           THEN upload' = [upload EXCEPT !.at = "remove", !.answer = answer] /\ UNCHANGED retry
           ELSE upload' = Idle /\ retry' = upload.id
    /\ UNCHANGED <<problemPage, verdictWrite, verdicts, given, told, outboxFaults>>

\* AcknowledgeProblemObservation and QuarantinePendingProblemObservation.
RemoveVerdict ==
    /\ upload.at = "remove"
    /\ upload' = Idle
    /\ \/ Rewrite(Retained(upload.id)) /\ retry' = 0
       \/ /\ RewriteFails(Retained(upload.id))
          /\ retry' = IF upload.answer = "applied" THEN upload.id ELSE 0
    /\ UNCHANGED <<problemPage, verdictWrite, given, ghosts>>

FreshProblemPage ==
    /\ active' = FALSE /\ problemMode' = "list" /\ set' = 1 /\ selected' = 1
    /\ current' = NoProblem /\ unlocked' = FALSE /\ verdictCommit' = "idle"
    /\ pendingVerdict' = NoVerdict /\ effectReady' = FALSE /\ verdictOp' = 0

\* The program starts again, with what an append under way has left, or a rewrite.
PowerLossOfVerdicts ==
    /\ outboxFaults < MaxOutboxFaults /\ outboxFaults' = outboxFaults + 1
    /\ FreshProblemPage
    /\ verdictWrite' = NoWrite /\ upload' = Idle /\ retry' = 0
    /\ \/ UNCHANGED <<verdicts, damaged>>
       \/ /\ verdictWrite.op # 0 /\ verdictWrite.result = "none"
          /\ ~Mentioned(verdictWrite.id) /\ Len(verdicts) < VerdictCapacity
          /\ \E t \in TornLine(verdictWrite.id) : verdicts' = AppendLine(verdicts, t)
          /\ UNCHANGED damaged
       \/ /\ upload.at = "remove"
          /\ LoseAll(Retained(upload.id))
    /\ UNCHANGED <<given, ghosts>>

--------------------------------------------------------------------------------

OutboxInit ==
    /\ active = FALSE /\ problemMode = "list" /\ set = 1 /\ selected = 1
    /\ current = NoProblem /\ unlocked = FALSE /\ verdictCommit = "idle"
    /\ pendingVerdict = NoVerdict /\ effectReady = FALSE /\ verdictOp = 0
    /\ verdictWrite = NoWrite /\ verdicts = <<>> /\ upload = Idle /\ retry = 0
    /\ given = 0 /\ told = {} /\ applied = <<>> /\ refused = {} /\ damaged = {}
    /\ outboxFaults = 0

OutboxNext ==
    \/ \E s \in 1..Sets : OpenSet(s)
    \/ \E i \in 1..Problems : MoveInList(i)
    \/ OpenProblem \/ ConfirmView \/ GiveVerdict \/ Escape
    \/ PumpVerdictCommit \/ TakeVerdictResult \/ RefreshOutboxState
    \/ PersistVerdict \/ PeekVerdict \/ SubmitVerdict \/ RemoveVerdict \/ PowerLossOfVerdicts

OutboxSpec == OutboxInit /\ [][OutboxNext]_outboxVars

--------------------------------------------------------------------------------
(* Properties *)

\* A rewrite of the journal is atomic: a step takes no record but the one the upload
\* loop is done with (main/problem_store.cpp:5-6, "ack/quarantine rewrite the file
\* atomically").
RewriteIsAtomic == [][Held(verdicts) \ {upload.id} \subseteq Held(verdicts')]_outboxVars

\* A verdict that was reported as recorded is in the journal, or the server has applied
\* or refused it: only a rewrite that was cut, an append behind a torn line, or an answer
\* nobody could read loses one.
LostOnlyByDamage == told \subseteq Held(verdicts) \cup Range(applied) \cup refused \cup damaged

\* The server gets the verdicts in the order they were given.
DeliveredInOrder == \A i \in 1..Len(applied) - 1 : applied[i] < applied[i + 1]

\* The page shows its last verdict as delivered only when it is.
AcknowledgedMeansDelivered ==
    verdictCommit = "cloudAcknowledged" =>
        told \subseteq Range(applied) \cup refused \cup damaged

\* While a verdict is being written the page stays on its problem, so that the result
\* moves it to the problem that follows.
WaitsOnItsProblem ==
    verdictCommit = "persisting" =>
        /\ active /\ problemMode = "view" /\ current = pendingVerdict.problem
        /\ current # NoProblem /\ current = [set |-> set, index |-> selected]
        /\ \/ effectReady
           \/ verdictOp = pendingVerdict.id /\ verdictWrite.op = pendingVerdict.id

\* A verdict is on its way to the server from the moment it is reported as recorded,
\* and the page tells no more of it than what is so.
VerdictsAccounted ==
    /\ Len(verdicts) <= VerdictCapacity
    /\ LostOnlyByDamage /\ DeliveredInOrder /\ AcknowledgedMeansDelivered /\ WaitsOnItsProblem
================================================================================
