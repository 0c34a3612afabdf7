------------------------------ MODULE NoteSession ------------------------------
(***************************************************************************)
(* A note-browsing session: the note page (main/note_app.cpp, the note     *)
(* parts of main/device_ui.cpp and main/ui/ui_runtime.cpp), the requests   *)
(* of its domain (main/ui/note_cloud.cpp, over CloudRunner), the write of  *)
(* an opened note and the note store (main/note_store.cpp).                *)
(*                                                                         *)
(* Three tasks write the one session file: the lane that starts a session, *)
(* the UI task that appends a page of candidates, and the upload loop that *)
(* checkpoints the cursor before it compacts the journal; the persist      *)
(* worker writes the journal beside it.  A storage transaction is one step *)
(* (StorageService and StorageCall say why), a save of the session file is *)
(* also cut by a power loss between its two renames.  The persist worker   *)
(* is the abstract operation PersistWorker implements: reserve, write,     *)
(* result, acknowledgement.                                                *)
(*                                                                         *)
(* A session is named by the request that created it.  The list of a       *)
(* notebook is 1..ListLength and comes in pages of one item; the cursor of *)
(* the server is the number of items delivered.                            *)
(*                                                                         *)
(* An append of the journal that fails may leave its record, or a part of  *)
(* it, in the file: the transactions work on the records in memory         *)
(* (outbox), a start of the program on those of the file (filed).  An      *)
(* acknowledgement that fails with its record in the file is one that the  *)
(* upload makes after the next start.                                      *)
(***************************************************************************)
EXTENDS CloudRunner, FiniteSetsExt

CONSTANTS
    ListLength,         \* items in the list of a session
    OutboxCapacity,     \* kNoteObservationOutboxCapacity
    CompactThreshold,   \* kRuntimeCompactAckThreshold
    MaxNoteSessions,        \* bound on the session starts
    MaxOpens,           \* bound on the notes opened
    MaxBoots,           \* bound on the power losses
    MaxAppendFaults     \* bound on the failed appends that leave something

Sessions == [session : Nat, next : Nat, position : Nat, items : Seq(Nat)]
Opens == [id : Nat, session : Nat, sequence : Nat, item : Nat, position : Nat]
Writes == [op : Nat, observation : Opens, session : Sessions, result : {Nil, "ok", "failed"}]
StartAnswers ==
    [status : {"ok"}, session : Sessions] \cup [status : {"failed", "unsaved"}]
PageAnswers ==
    [status : {"ok"}, session : Nat, cursor : Nat, items : Seq(Nat)]
        \cup [status : {"failed", "invalid"}]
SyncAnswers == [status : {"ok"}]
Journals == [pending : Seq(Opens), acknowledged : Seq(Opens)]

\* A saved open must have room, a list more than its first item.
ASSUME NoteAssumption ==
    /\ {ListLength, OutboxCapacity, CompactThreshold} \subseteq Nat \ {0}
    /\ {MaxNoteSessions, MaxOpens, MaxBoots, MaxAppendFaults} \subseteq Nat
    /\ "note" \in Domains
    /\ Nil \notin Sessions \cup Opens \cup Writes \cup {"ok", "failed"}
    /\ Nil \notin StartAnswers \cup PageAnswers \cup SyncAnswers \cup Journals

VARIABLES
    uiPc,           \* place of the UI task in its round
    onNote,         \* the note screen is shown
    mode,           \* NoteAppState::mode
    session,        \* session.persisted of the page, Nil when it is not active
    createId,       \* session.create_request_id, 0 for none
    startExpected,  \* session.start_result_expected
    pageRequested,  \* session.page_requested
    pageInFlight,   \* session.page_in_flight
    commit,         \* session.commit_state
    effect,         \* session.pending_observation with observation_effect_ready
    advanced,       \* session.pending_advanced_session
    boundOp,        \* session.pending_persist_operation_id
    write,          \* the operation of the persist worker, Nil when its kind is free
    primary,        \* the session file, Nil when it does not exist
    backup,         \* its backup
    outbox,         \* pending and acknowledged records of g_outbox_cache
    filed,          \* the pending records of the journal file
    tail,           \* its bytes: "whole", a part of a record at the end ("torn"), a part with
                    \* records behind it ("buried"), a file that a start could not read ("unread")
    aside,          \* the journal's backup: what the file held before it was compacted, or Nil
    started,        \* number of session starts
    opened,         \* number of notes opened; names observations and operations
    boots,          \* number of power losses
    appendFaults,   \* number of failed appends that left something
    opens,       \* ghost: <<session, sequence>> of every durable record, in order
    astray          \* ghost: a Clear removed the session file and left its backup, or a start
                    \* read a journal with what failed appends had left

pageVars == <<onNote, mode, session, createId, startExpected, pageRequested, pageInFlight,
              commit, effect, advanced, boundOp>>
files == <<primary, backup>>
journalVars == <<outbox, filed, tail, aside, appendFaults>>
noteVars == <<cloudVars, uiPc, pageVars, write, files, journalVars, started, opened, boots,
              opens, astray>>

--------------------------------------------------------------------------------
(* The store *)

\* The session the files hold.
Stored == IF primary # Nil THEN primary ELSE backup

\* AtomicWrite: the primary becomes the backup, the new file the primary.
SaveSession(value) ==
    /\ backup' = IF primary # Nil THEN primary ELSE backup
    /\ primary' = value

Journal == outbox.acknowledged \o outbox.pending

\* ReconcileSession, for a session that there is: the records are read in order, and one
\* that is not behind the cursor moves it.
Moving(records, s) ==
    {i \in DOMAIN records :
        /\ records[i].session = s.session
        /\ records[i].sequence >= s.next
        /\ \A j \in 1..(i - 1) :
            records[j].session = s.session => records[j].sequence < records[i].sequence}
Placing(records, s) == {i \in Moving(records, s) : records[i].position <= Len(s.items)}
Moved(records, s) ==
    LET moving == Moving(records, s)  placing == Placing(records, s) IN
    [s EXCEPT !.next = IF moving = {} THEN @ ELSE records[Max(moving)].sequence + 1,
              !.position = IF placing = {} THEN @ ELSE records[Max(placing)].position]
RepairedBy(records, s) == IF s = Nil THEN Nil ELSE Moved(records, s)
Reconcile(s) == RepairedBy(Journal, s)

\* What an append makes of the end of the file: behind a part of a record it is misplaced.
TailAfter == IF tail = "whole" THEN "whole" ELSE "buried"

\* The append of a record that fails once a part of it is in the file; two parts may have
\* the size of a record.
LeavesPart ==
    /\ appendFaults < MaxAppendFaults /\ appendFaults' = appendFaults + 1
    /\ tail' \in (IF tail = "whole" THEN {"torn"} ELSE {tail, "buried"})

\* ScanOutboxFile accepts a file that ends in a part of a record, and no more records
\* than the journal takes.
Legible(records, bytes) == bytes \in {"whole", "torn"} /\ Len(records) <= OutboxCapacity

\* The file differs from what the program believes.
Marred == filed # outbox.pending \/ tail \notin {"whole", "torn"}

\* The records without the first one that is o.
Unfiled(records, o) ==
    LET k == CHOOSE k \in DOMAIN records :
                records[k] = o /\ \A j \in 1..(k - 1) : records[j] # o
    IN  [i \in 1..(Len(records) - 1) |-> records[IF i < k THEN i ELSE i + 1]]

\* CompactOutbox: the file holds the records in memory, the old one is its backup.
CompactOutbox(records, acknowledged_, bytes) ==
    /\ filed' = outbox'.pending /\ tail' = "whole"
    /\ aside' = IF Legible(records, bytes)
                THEN [pending |-> records, acknowledged |-> acknowledged_] ELSE Nil

\* CommitObservationTransaction finds the record that it should append, or room for it.
Recorded(o) == \E i \in DOMAIN Journal : Journal[i].id = o.id
MayAppend(o) == tail # "unread" /\ ~Recorded(o) /\ Len(outbox.pending) < OutboxCapacity

\* CommitObservationTransaction: idempotent by request id; a fresh record is appended
\* and the session file is left to the journal.
CommitOpen(o, session_) ==
    \/ /\ Recorded(o) /\ tail # "unread"
       /\ SaveSession(session_)
       /\ UNCHANGED <<journalVars, opens>>
    \/ /\ MayAppend(o)
       /\ outbox' = [outbox EXCEPT !.pending = Append(@, o)]
       /\ filed' = Append(filed, o) /\ tail' = TailAfter
       /\ opens' = Append(opens, <<o.session, o.sequence>>)
       /\ UNCHANGED <<aside, appendFaults, files>>

\* The append fails: the record is in the file, or a part of it is.
AppendFails(o) ==
    /\ MayAppend(o)
    /\ \/ /\ appendFaults < MaxAppendFaults /\ appendFaults' = appendFaults + 1
          /\ filed' = Append(filed, o) /\ tail' = TailAfter
       \/ LeavesPart /\ UNCHANGED filed
    /\ UNCHANGED <<outbox, aside, opens, files>>

\* Mutant of CheckpointSessionFromOutbox: the records go without it.
CheckpointForgotten == UNCHANGED files

\* The session file takes over what the records say before they go.
CheckpointSessionFromOutbox ==
    IF Reconcile(Stored) = Stored THEN UNCHANGED files ELSE SaveSession(Reconcile(Stored))

\* AckObservationTransaction and QuarantineObservationTransaction: the head of the
\* journal is acknowledged; enough acknowledgements are compacted.
AckObservation ==
    LET head == Head(outbox.pending)
        next == [pending |-> Tail(outbox.pending),
                 acknowledged |-> Append(outbox.acknowledged, head)]
    IN
    /\ outbox.pending # <<>> /\ tail # "unread"
    /\ IF Len(next.acknowledged) < CompactThreshold
       THEN /\ outbox' = next
            /\ filed' = Unfiled(filed, head) /\ tail' = TailAfter
            /\ UNCHANGED <<files, aside>>
       ELSE /\ outbox' = [next EXCEPT !.acknowledged = <<>>]
            /\ CheckpointSessionFromOutbox
            /\ CompactOutbox(Unfiled(filed, head), next.acknowledged, TailAfter)
    /\ UNCHANGED <<cloudVars, uiPc, pageVars, write, started, opened, boots, opens,
                   appendFaults, astray>>

\* A part of the acknowledgement is in the file; the upload comes back to the head.
AckFails ==
    /\ outbox.pending # <<>> /\ tail # "unread"
    /\ LeavesPart
    /\ UNCHANGED <<cloudVars, uiPc, pageVars, write, files, outbox, filed, aside, started, opened,
                   boots, opens, astray>>

\* PrepareOutboxForSleepTransaction: acknowledged records go; past the deadline the
\* checkpoint alone is made, or nothing.
PrepareOutboxForSleep ==
    /\ outbox.acknowledged # <<>> /\ tail # "unread"
    /\ CheckpointSessionFromOutbox
    /\ \/ /\ outbox' = [outbox EXCEPT !.acknowledged = <<>>]
          /\ CompactOutbox(filed, outbox.acknowledged, tail)
          /\ UNCHANGED appendFaults
       \/ UNCHANGED journalVars
    /\ UNCHANGED <<cloudVars, uiPc, pageVars, write, started, opened, boots, opens, astray>>

--------------------------------------------------------------------------------
(* The page: input *)

Unmoved == UNCHANGED <<uiPc, write, files, journalVars, boots, opens, astray>>

\* TakeNoteCandidatePageRequest could find something to ask for.
WantsMore(s) == s # Nil /\ Len(s.items) < ListLength

\* RequestNoteCandidatePageIfNeeded.
NeedsPage(s, phase) == WantsMore(s) /\ phase # "persisting"

\* A notebook is confirmed: a new session is asked for, or the page stays on the list
\* of notebooks because the request is refused.
ConfirmNotebook ==
    /\ uiPc = "input" /\ onNote /\ mode = "notebooks"
    /\ \/ /\ started < MaxNoteSessions
          /\ QueueRequest(Job("note", "start", started + 1))
          /\ started' = started + 1
          /\ createId' = started + 1 /\ startExpected' = TRUE /\ mode' = "starting"
       \/ /\ RefuseRequest
          /\ createId' = 0 /\ startExpected' = FALSE
          /\ UNCHANGED <<started, mode>>
    /\ UNCHANGED <<onNote, session, pageRequested, pageInFlight, commit, effect, advanced,
                   boundOp, opened>>
    /\ Unmoved

\* CancelNoteSessionStartResult: the answer that is under way will not be used.
CancelStart ==
    /\ uiPc = "input" /\ onNote /\ mode = "starting"
    /\ startExpected' = FALSE /\ createId' = 0 /\ mode' = "notebooks"
    /\ UNCHANGED <<cloudVars, onNote, session, pageRequested, pageInFlight, commit, effect,
                   advanced, boundOp, started, opened>>
    /\ Unmoved

\* ArmOpenObservation: a note is opened; its record is ready for the worker.
OpenNote(i) ==
    /\ uiPc = "input" /\ onNote /\ mode = "list"
    /\ i \in DOMAIN session.items
    /\ commit # "persisting"
    /\ opened < MaxOpens
    /\ opened' = opened + 1
    /\ effect' = [id |-> opened + 1, session |-> session.session, sequence |-> session.next,
                  item |-> session.items[i], position |-> i]
    /\ commit' = "persisting" /\ mode' = "view"
    /\ UNCHANGED <<cloudVars, onNote, session, createId, startExpected, pageRequested,
                   pageInFlight, advanced, boundOp, started>>
    /\ Unmoved

\* The list is scrolled down: more of it may be asked for.
ScrollDown ==
    /\ uiPc = "input" /\ onNote /\ mode = "list"
    /\ NeedsPage(session, commit) /\ ~pageInFlight
    /\ pageRequested' = TRUE
    /\ UNCHANGED <<cloudVars, onNote, mode, session, createId, startExpected, pageInFlight,
                   commit, effect, advanced, boundOp, started, opened>>
    /\ Unmoved

\* Back from the note to the list, from the list to the notebooks.
GoBack ==
    /\ uiPc = "input" /\ onNote /\ mode \in {"view", "list"}
    /\ mode' = IF mode = "view" THEN "list" ELSE "notebooks"
    /\ UNCHANGED <<cloudVars, onNote, session, createId, startExpected, pageRequested,
                   pageInFlight, commit, effect, advanced, boundOp, started, opened>>
    /\ Unmoved

\* The screen is left or entered; entering may ask for a synchronisation of the packs.
SwitchScreen ==
    /\ uiPc = "input"
    /\ onNote' = ~onNote
    /\ \/ RefuseRequest
       \/ ~onNote /\ QueueRequest(Job("note", "packSync", 0))
    /\ UNCHANGED <<mode, session, createId, startExpected, pageRequested, pageInFlight, commit,
                   effect, advanced, boundOp, started, opened>>
    /\ Unmoved

Poll ==
    /\ uiPc = "input"
    /\ uiPc' = "scan"
    /\ UNCHANGED <<cloudVars, pageVars, write, files, journalVars, started, opened, boots, opens,
                   astray>>

--------------------------------------------------------------------------------
(* The page: results *)

FreshPage ==
    [session |-> Nil, createId |-> 0, startExpected |-> FALSE, pageRequested |-> FALSE,
     pageInFlight |-> FALSE, commit |-> "idle", effect |-> Nil, advanced |-> Nil, boundOp |-> 0]

\* ApplyNoteSessionStartResult, or the cancellation of a start whose page is gone.
ApplyStart(answer) ==
    /\ startExpected' = FALSE
    /\ IF ~onNote \/ ~startExpected
       THEN /\ createId' = IF onNote THEN createId ELSE 0
            /\ mode' = IF onNote THEN mode ELSE "notebooks"
            /\ UNCHANGED <<session, pageRequested, pageInFlight, commit>>
       ELSE IF answer.status # "ok"
       THEN /\ mode' = "notebooks"
            /\ UNCHANGED <<createId, session, pageRequested, pageInFlight, commit>>
       ELSE /\ session' = answer.session
            /\ commit' = "idle" /\ createId' = 0 /\ mode' = "list"
            /\ pageInFlight' = FALSE
            /\ pageRequested' = NeedsPage(answer.session, "idle")
    /\ UNCHANGED <<onNote, effect, advanced, boundOp, files, astray>>

\* The candidates that follow the ones of the page are appended.
Extended(page) == [session EXCEPT !.items = @ \o page.items]

\* ApplyNoteCandidatePageResult: a page that continues this list is saved, then shown.
ApplyPage(page) ==
    /\ pageInFlight' = FALSE
    /\ IF session = Nil
       THEN UNCHANGED <<session, pageRequested, files>>
       ELSE IF page.status # "ok"
       THEN pageRequested' = FALSE /\ UNCHANGED <<session, files>>
       ELSE IF page.session # session.session \/ page.cursor # Len(session.items)
       THEN UNCHANGED <<session, pageRequested, files>>
       ELSE \/ /\ SaveSession(Extended(page))
               /\ session' = Extended(page)
               /\ pageRequested' = (pageRequested \/ NeedsPage(Extended(page), commit))
            \/ UNCHANGED <<session, pageRequested, files>>   \* the save fails
    /\ UNCHANGED <<onNote, mode, createId, startExpected, commit, effect, advanced, boundOp,
                   astray>>

\* ResetNoteSessionForServerInvalid: the page forgets the session whatever becomes of
\* its file; a Clear that fails half-way leaves the backup.
ResetForServerInvalid ==
    /\ \/ primary' = Nil /\ backup' = Nil /\ UNCHANGED astray
       \/ primary' = Nil /\ backup # Nil /\ astray' = TRUE /\ UNCHANGED backup
       \/ UNCHANGED <<files, astray>>
    /\ session' = FreshPage.session /\ createId' = FreshPage.createId
    /\ startExpected' = FreshPage.startExpected /\ pageRequested' = FreshPage.pageRequested
    /\ pageInFlight' = FreshPage.pageInFlight /\ commit' = FreshPage.commit
    /\ effect' = FreshPage.effect /\ advanced' = FreshPage.advanced
    /\ boundOp' = FreshPage.boundOp
    /\ mode' = "notebooks"
    /\ UNCHANGED onNote

\* Mutant of Deferred: a note result is applied while an open is being written.
DeferredNever(d) == FALSE

\* The scan leaves the result of a domain alone while its observation is pending.
Deferred(d) == d = "note" /\ commit = "persisting"

\* The scan takes a result of the note domain.
TakeNoteResult ==
    /\ uiPc = "scan" /\ ~Deferred("note")
    /\ AckResult("note")
    /\ LET taken == PeekedSlot("note") IN
        CASE taken.op = "start" -> ApplyStart(taken.result)
          [] taken.op = "page" /\ taken.result.status = "invalid" -> ResetForServerInvalid
          [] taken.op = "page" /\ taken.result.status # "invalid" -> ApplyPage(taken.result)
          [] OTHER -> UNCHANGED <<pageVars, files, astray>>
    /\ UNCHANGED <<uiPc, write, journalVars, started, opened, boots, opens>>

EndScan ==
    /\ uiPc = "scan"
    /\ HasResult("note") => Deferred("note")
    /\ uiPc' = "persist"
    /\ UNCHANGED <<cloudVars, pageVars, write, files, journalVars, started, opened, boots, opens,
                   astray>>

\* DispatchNoteObservationPersistResult and the acknowledgement: a result that is not
\* the one the page waits for is dropped.
TakePersistResult ==
    /\ uiPc = "persist"
    /\ uiPc' = "finish"
    /\ IF write = Nil \/ write.result = Nil
       THEN UNCHANGED <<write, session, commit, effect, advanced, boundOp>>
       ELSE /\ write' = Nil
            /\ IF commit # "persisting" \/ boundOp # write.op
               THEN UNCHANGED <<session, commit, effect, advanced, boundOp>>
               ELSE /\ boundOp' = 0
                    /\ IF write.result = "ok"
                       THEN /\ session' = advanced /\ advanced' = Nil /\ effect' = Nil
                            /\ commit' = "cloudPending"
                       ELSE /\ commit' = "failed"
                            /\ UNCHANGED <<session, effect, advanced>>
    /\ UNCHANGED <<cloudVars, onNote, mode, createId, startExpected, pageRequested, pageInFlight,
                   files, journalVars, started, opened, boots, opens, astray>>

EndRound ==
    /\ uiPc = "finish"
    /\ uiPc' = "pumpPage"
    /\ FinishRequests
    /\ UNCHANGED <<pageVars, write, files, journalVars, started, opened, boots, opens, astray>>

--------------------------------------------------------------------------------
(* The page: the pumps at the end of a round *)

\* PumpNoteCandidatePrefetch: the next page of this session; a refused request is
\* restored.
PumpCandidatePage ==
    /\ uiPc = "pumpPage"
    /\ uiPc' = "pumpCommit"
    /\ IF busy["note"] \/ ~pageRequested \/ pageInFlight \/ ~WantsMore(session)
       THEN UNCHANGED <<cloudVars, pageRequested, pageInFlight>>
       ELSE \/ /\ QueueRequest(Job("note", "page",
                     [session |-> session.session, cursor |-> Len(session.items)]))
               /\ pageRequested' = FALSE /\ pageInFlight' = TRUE
            \/ /\ RefuseRequest
               /\ pageRequested' = TRUE /\ pageInFlight' = FALSE
    /\ UNCHANGED <<onNote, mode, session, createId, startExpected, commit, effect, advanced,
                   boundOp, write, files, journalVars, started, opened, boots, opens, astray>>

\* The session with the cursor the observation moves it to.
Advance(s, o) == [s EXCEPT !.next = o.sequence + 1, !.position = o.position]

\* PumpNoteObservationCommit with TakeNoteObservationEffect: reserve, take the effect,
\* enqueue.  Without a reservation the effect stays armed.
PumpObservationCommit ==
    /\ uiPc = "pumpCommit"
    /\ uiPc' = "input"
    /\ IF write # Nil \/ commit # "persisting" \/ boundOp # 0
       THEN UNCHANGED <<write, commit, advanced, boundOp>>
       ELSE \/ IF effect.session # session.session \/ effect.sequence # session.next
               THEN commit' = "failed" /\ UNCHANGED <<write, advanced, boundOp>>
               ELSE /\ write' = [op |-> effect.id, observation |-> effect,
                                 session |-> Advance(session, effect), result |-> Nil]
                    /\ advanced' = Advance(session, effect)
                    /\ boundOp' = effect.id
                    /\ UNCHANGED commit
            \/ UNCHANGED <<write, commit, advanced, boundOp>>
    /\ UNCHANGED <<cloudVars, onNote, mode, session, createId, startExpected, pageRequested,
                   pageInFlight, effect, files, journalVars, started, opened, boots, opens,
                   astray>>

--------------------------------------------------------------------------------
(* The other tasks *)

\* Mutant of PersistWrite: an append that fails is reported made.
PersistWriteUnheard ==
    /\ write # Nil /\ write.result = Nil
    /\ \/ CommitOpen(write.observation, write.session)
       \/ AppendFails(write.observation)
    /\ write' = [write EXCEPT !.result = "ok"]
    /\ UNCHANGED <<cloudVars, uiPc, pageVars, started, opened, boots, astray>>

\* The persist worker runs the transaction: it succeeds, or it fails and leaves nothing,
\* its record or a part of it.
PersistWrite ==
    /\ write # Nil /\ write.result = Nil
    /\ \/ /\ CommitOpen(write.observation, write.session)
          /\ write' = [write EXCEPT !.result = "ok"]
       \/ /\ AppendFails(write.observation) \/ UNCHANGED <<journalVars, opens, files>>
          /\ write' = [write EXCEPT !.result = "failed"]
    /\ UNCHANGED <<cloudVars, uiPc, pageVars, started, opened, boots, astray>>

\* A lane takes its next job.
RunJob(l) ==
    /\ StartJob(l)
    /\ UNCHANGED <<uiPc, pageVars, write, files, journalVars, started, opened, boots, opens,
                   astray>>

\* The session a start returns: the first item of the list, nothing opened yet.
NewSession(id) == [session |-> id, next |-> 1, position |-> 0, items |-> <<1>>]

\* ExecuteNoteCloudRequest, kStartSession: the session is saved by the lane before the
\* page hears of it.  The request may fail, and so may the save.
ExecuteStart(l) ==
    /\ Working(l) /\ running[l].op = "start"
    /\ LET s == NewSession(running[l].arg) IN
        \/ FillSlot(l, [status |-> "ok", session |-> s]) /\ SaveSession(s)
        \/ /\ \E status \in {"failed", "unsaved"} : FillSlot(l, [status |-> status])
           /\ UNCHANGED files
    /\ UNCHANGED <<uiPc, pageVars, write, journalVars, started, opened, boots, opens, astray>>

\* The answers of the server to a request for the items after a cursor.
AnswersTo(asked) ==
    {[status |-> "ok", session |-> asked.session, cursor |-> asked.cursor,
      items |-> <<asked.cursor + 1>>],
     [status |-> "failed"], [status |-> "invalid"]}

\* kFetchSessionPage and kPackSync.
ExecuteOther(l) ==
    /\ Working(l) /\ running[l].op # "start"
    /\ IF running[l].op = "page"
       THEN \E answer \in AnswersTo(running[l].arg) : FillSlot(l, answer)
       ELSE FillSlot(l, [status |-> "ok"])
    /\ UNCHANGED <<uiPc, pageVars, write, files, journalVars, started, opened, boots, opens,
                   astray>>

PublishAnswer(l) ==
    /\ PublishResult(l)
    /\ UNCHANGED <<uiPc, pageVars, write, files, journalVars, started, opened, boots, opens,
                   astray>>

\* The journal that a start reads: the file, else its backup, else none.
JournalFound ==
    IF Legible(filed, tail) THEN [pending |-> filed, acknowledged |-> outbox.acknowledged]
    ELSE aside

\* ScanOutbox at a start: a damaged file, or the backup, is compacted before anything is
\* appended; without a journal every transaction fails.
ReadJournal ==
    IF JournalFound = Nil
    THEN tail' = "unread" /\ UNCHANGED <<outbox, filed, aside, opens>>
    ELSE LET found == JournalFound
             repairs == ~Legible(filed, tail) \/ tail = "torn"
             records == found.acknowledged \o found.pending
         IN  /\ outbox' = IF repairs THEN [found EXCEPT !.acknowledged = <<>>] ELSE found
             /\ filed' = found.pending /\ tail' = "whole"
             /\ aside' = IF repairs THEN found ELSE aside
             /\ opens' = IF ~Marred THEN opens
                         ELSE opens \o [i \in DOMAIN records |->
                                         <<records[i].session, records[i].sequence>>]

\* What a start makes of a session file: without the journal there is no session.
Restored(found) ==
    IF JournalFound = Nil THEN Nil
    ELSE RepairedBy(JournalFound.acknowledged \o JournalFound.pending, found)

\* The program starts again: LoadSessionTransaction repairs the cursor from the journal,
\* InitNoteApp resumes the session on its list.
Boot(file, old) ==
    LET found == IF file # Nil THEN file ELSE old
        resumed == Restored(found)
        repaired == IF JournalFound = Nil THEN found ELSE resumed
    IN
    /\ boots < MaxBoots
    /\ boots' = boots + 1
    /\ primary' = repaired
    /\ backup' = IF repaired # found THEN found ELSE old
    /\ session' = resumed
    /\ mode' = IF resumed = Nil THEN "notebooks" ELSE "list"
    /\ pageRequested' = NeedsPage(resumed, "idle")
    /\ onNote' = TRUE
    /\ createId' = FreshPage.createId /\ startExpected' = FreshPage.startExpected
    /\ pageInFlight' = FreshPage.pageInFlight /\ commit' = FreshPage.commit
    /\ effect' = FreshPage.effect /\ advanced' = FreshPage.advanced
    /\ boundOp' = FreshPage.boundOp
    /\ uiPc' = "input" /\ write' = Nil
    /\ ReadJournal
    /\ CloudReset
    /\ UNCHANGED <<started, opened, appendFaults>>

PowerLoss == Boot(primary, backup) /\ astray' = (astray \/ Marred)

\* Between the two renames of a save: by a lane, by the page, or by a checkpoint.
PowerLossInSave ==
    /\ primary # Nil
    /\ \/ \E l \in Lanes : Working(l) /\ running[l].op = "start"
       \/ uiPc = "scan" /\ HasResult("note") /\ ~Deferred("note") /\ PeekedSlot("note").op = "page"
       \/ outbox.acknowledged # <<>> /\ Reconcile(Stored) # Stored
    /\ Boot(Nil, primary)
    /\ astray' = (astray \/ Marred)

\* Between the removals of a Clear.
PowerLossInClear ==
    /\ uiPc = "scan" /\ HasResult("note") /\ ~Deferred("note")
    /\ PeekedSlot("note").op = "page" /\ PeekedSlot("note").result.status = "invalid"
    /\ backup # Nil
    /\ Boot(Nil, backup)
    /\ astray' = TRUE

--------------------------------------------------------------------------------

NoteInit ==
    /\ CloudInit
    /\ uiPc = "input" /\ onNote = TRUE /\ mode = "notebooks"
    /\ session = Nil /\ createId = 0 /\ startExpected = FALSE
    /\ pageRequested = FALSE /\ pageInFlight = FALSE
    /\ commit = "idle" /\ effect = Nil /\ advanced = Nil /\ boundOp = 0
    /\ write = Nil /\ primary = Nil /\ backup = Nil
    /\ outbox = [pending |-> <<>>, acknowledged |-> <<>>]
    /\ filed = <<>> /\ tail = "whole" /\ aside = Nil /\ appendFaults = 0
    /\ started = 0 /\ opened = 0 /\ boots = 0
    /\ opens = <<>> /\ astray = FALSE

NoteNext ==
    \/ ConfirmNotebook \/ CancelStart \/ (\E i \in 1..ListLength : OpenNote(i)) \/ ScrollDown
    \/ GoBack \/ SwitchScreen \/ Poll
    \/ TakeNoteResult \/ EndScan
    \/ TakePersistResult \/ EndRound \/ PumpCandidatePage \/ PumpObservationCommit
    \/ PersistWrite
    \/ \E l \in Lanes : RunJob(l) \/ ExecuteStart(l) \/ ExecuteOther(l) \/ PublishAnswer(l)
    \/ AckObservation \/ AckFails \/ PrepareOutboxForSleep
    \/ PowerLoss \/ PowerLossInSave \/ PowerLossInClear

NoteSpec == NoteInit /\ [][NoteNext]_noteVars

--------------------------------------------------------------------------------
(* Properties *)

\* Types, and what the page holds in each phase of an open.
NoteTypeOK ==
    /\ CloudTypeOK
    /\ mode \in {"notebooks", "starting", "list", "view"}
    /\ commit \in {"idle", "persisting", "cloudPending", "failed"}
    /\ mode \in {"list", "view"} => session # Nil
    /\ commit = "persisting" => effect # Nil
    /\ boundOp # 0 => commit = "persisting" /\ write # Nil /\ write.op = boundOp
    /\ Len(outbox.pending) <= OutboxCapacity

\* The page waits only for what is under way: a start it expects is the request it
\* made last, and a page in flight continues the list it shows.  While it shows
\* "opening the notebook" an answer is owed to it.
WaitsForItsOwn ==
    LET jobs == {JobAt(p) : p \in JobsUnderWay("note")}
        Owed(kind) == \/ \E job \in jobs : job.op = kind
                      \/ HasResult("note") /\ PeekedSlot("note").op = kind
    IN
    /\ mode = "starting" <=> startExpected
    /\ startExpected =>
        /\ Owed("start")
        /\ \A job \in jobs : job.arg = createId
    /\ pageInFlight =>
        /\ Owed("page")
        /\ \A job \in jobs :
            job.arg = [session |-> session.session, cursor |-> Len(session.items)]

\* What the requests of the page promise: one per domain with its lease, slot and
\* mailbox, and a page that waits only for its own.
RequestsAccounted == NoteTypeOK /\ OneRequestPerDomain /\ WaitsForItsOwn

\* A power loss never takes the page back: while a list or a note is shown, the session
\* a reboot would restore is the one in memory, cursor and list, or the one the write
\* under way will put there.  (A failed append may have left its record, or a part of one
\* with records behind it: until the journal is compacted a reboot restores what it reads.)
PageSurvivesReboot ==
    mode \in {"list", "view"} /\ ~Marred =>
        \/ Restored(Stored) = session
        \/ commit = "persisting" /\ boundOp # 0 /\ Restored(Stored) = advanced

\* Every session records its opened notes under the numbers 1, 2, 3 ..., each once,
\* over reboots, compactions, failed appends and abandoned starts: the server refuses any
\* other.  (A Clear that is cut brings an older session back, which the server has given
\* up; a start that reads what a failed append left may number a note like another.)
SequencesUnique ==
    ~astray =>
        \A i \in DOMAIN opens :
            opens[i][2] = Cardinality({j \in 1..i : opens[j][1] = opens[i][1]})

\* The page, its session file and the journal agree across power losses and failed appends:
\* neither the page nor the numbering of a session is taken back.
NoteSessionSound == PageSurvivesReboot /\ SequencesUnique
================================================================================
