------------------------------- MODULE WordStudy -------------------------------
(***************************************************************************)
(* The path of a word-study observation from the card to the server, over  *)
(* the store of WordStore: the UI that records it (main/word_app.cpp,      *)
(* ui/word_cloud.cpp), the upload loop of services/sync_service.cpp, sleep *)
(* preparation, and the server as the upload loop relies on it.            *)
(***************************************************************************)
EXTENDS WordStore

CONSTANTS MaxIds,       \* bound: observations created
          MaxSessions   \* bound: sessions started

ASSUME BoundAssumption == {MaxIds, MaxSessions} \subseteq Nat

VARIABLES ui,        \* the word page: state, its session, the observation it commits
          uploader,  \* the upload loop: state and the observation it holds
          server,    \* per session the next sequence, and the verdicts it gave
          created,   \* how many request ids and sessions exist
          recorded,  \* the observations the UI was told are saved
          dropped    \* the sessions that were cleared or replaced

vars == <<storeVars, ui, uploader, server, created, recorded, dropped>>

Ids == 1..MaxIds
Sids == 1..MaxSessions
NoSession == Session(0, 0, 0)
UiOff == [state |-> "off", session |-> NoSession, obs |-> None]
Uploader(state, obs) == [state |-> state, obs |-> obs]

Init ==
    /\ InitStore
    /\ ui = UiOff
    /\ uploader = Uploader("idle", None)
    /\ server = [next |-> [s \in Sids |-> 0], accepted |-> {}, refused |-> {}]
    /\ created = [ids |-> 0, sids |-> 0]
    /\ recorded = {}
    /\ dropped = {}

Done(kind) == op # None /\ op.kind = kind /\ result # "busy"
Release == op' = None /\ result' = "busy" /\ UNCHANGED <<disk, cache, todo, faults>>

--------------------------------------------------------------------------------
(* The word page. *)

\* Opening the page loads the stored session.
OpenPage ==
    /\ ui.state = "off"
    /\ BeginLoadSession
    /\ ui' = [ui EXCEPT !.state = "loading"]
    /\ UNCHANGED <<uploader, server, created, recorded, dropped>>

PageLoaded ==
    /\ Done("load")
    /\ ui' = IF result = "ok"
             THEN [UiOff EXCEPT !.state = "ready", !.session = disk.session.primary]
             ELSE UiOff
    /\ Release
    /\ UNCHANGED <<uploader, server, created, recorded, dropped>>

\* A new session replaces the slot; the runner saves it before the page gets it.
StartSession ==
    /\ ui.state = "off"
    /\ created.sids < MaxSessions
    /\ LET sid == created.sids + 1
       IN /\ BeginSaveSession(Session(sid, 0, 1))
          /\ ui' = [UiOff EXCEPT !.state = "starting", !.session = Session(sid, 0, 1)]
          /\ created' = [created EXCEPT !.sids = sid]
          /\ dropped' = dropped \cup 1..created.sids
    /\ UNCHANGED <<uploader, server, recorded>>

\* A candidate page is appended to a copy of the snapshot, which replaces the
\* page's own only once it is saved; the UI task holds the page back while an
\* observation is being committed.
Paged(s) == [s EXCEPT !.end = @ + 1]

ApplyCandidatePage ==
    /\ ui.state \in {"ready", "failed"}
    /\ ui.session.end < MaxIds
    /\ BeginSaveSession(Paged(ui.session))
    /\ ui' = [ui EXCEPT !.state = IF ui.state = "ready" THEN "saving" ELSE "savingFailed"]
    /\ UNCHANGED <<uploader, server, created, recorded, dropped>>

SessionSaved ==
    /\ Done("save")
    /\ ui' = IF ui.state = "starting"
             THEN IF result = "ok" THEN [ui EXCEPT !.state = "ready"] ELSE UiOff
             ELSE [ui EXCEPT
                      !.state = IF ui.state = "saving" THEN "ready" ELSE "failed",
                      !.session = IF result = "ok" THEN Paged(ui.session) ELSE @]
    /\ Release
    /\ UNCHANGED <<uploader, server, created, recorded, dropped>>

\* The user answers the card at the cursor: an observation of the next sequence.
Answer ==
    /\ ui.state = "ready"
    /\ ui.session.next < ui.session.end
    /\ created.ids < MaxIds
    /\ LET id == created.ids + 1
       IN /\ ui' = [ui EXCEPT !.state = "committing",
                              !.obs = Obs(id, ui.session.sid, ui.session.next)]
          /\ created' = [created EXCEPT !.ids = id]
    /\ UNCHANGED <<storeVars, uploader, server, recorded, dropped>>

\* Confirm after a failure sends the same observation again.
Retry ==
    /\ ui.state = "failed"
    /\ ui' = [ui EXCEPT !.state = "committing"]
    /\ UNCHANGED <<storeVars, uploader, server, created, recorded, dropped>>

\* The persist worker runs the commit; its result waits for the UI task.
CommitObservation ==
    /\ ui.state = "committing"
    /\ BeginCommit(ui.obs, [ui.session EXCEPT !.next = ui.obs.seq + 1])
    /\ ui' = [ui EXCEPT !.state = "persisting"]
    /\ UNCHANGED <<uploader, server, created, recorded, dropped>>

CommitReturned ==
    /\ Done("commit")
    /\ ui' = [ui EXCEPT !.state = IF result = "ok" THEN "saved" ELSE "unsaved"]
    /\ recorded' = IF result = "ok" THEN recorded \cup {ui.obs} ELSE recorded
    /\ Release
    /\ UNCHANGED <<uploader, server, created, dropped>>

ApplyCommitResult ==
    /\ ui.state \in {"saved", "unsaved"}
    /\ ui' = IF ui.state = "saved"
             THEN [ui EXCEPT !.state = "ready", !.session.next = ui.obs.seq + 1, !.obs = None]
             ELSE [ui EXCEPT !.state = "failed"]
    /\ UNCHANGED <<storeVars, uploader, server, created, recorded, dropped>>

\* The page is left, or reset to be loaded again after a sync.
LeavePage ==
    /\ ui.state \in {"ready", "failed"}
    /\ ui' = UiOff
    /\ UNCHANGED <<storeVars, uploader, server, created, recorded, dropped>>

\* The server no longer knows the session: the slot is cleared.
ClearSession ==
    /\ ui.state \in {"ready", "failed"}
    /\ BeginClearSession
    /\ ui' = [UiOff EXCEPT !.state = "clearing"]
    /\ dropped' = dropped \cup 1..created.sids
    /\ UNCHANGED <<uploader, server, created, recorded>>

SessionCleared ==
    /\ Done("clear")
    /\ ui' = UiOff
    /\ Release
    /\ UNCHANGED <<uploader, server, created, recorded, dropped>>

--------------------------------------------------------------------------------
(* The upload loop. *)

Peek ==
    /\ uploader.state = "idle"
    /\ BeginPeek
    /\ uploader' = Uploader("peeking", None)
    /\ UNCHANGED <<ui, server, created, recorded, dropped>>

\* Mutant of Peeked: the newest record is uploaded first.
PeekedNewest ==
    /\ Done("peek")
    /\ uploader' = IF result = "ok" THEN Uploader("holding", Last(cache.pending))
                   ELSE Uploader("idle", None)
    /\ Release
    /\ UNCHANGED <<ui, server, created, recorded, dropped>>

Peeked ==
    /\ Done("peek")
    /\ uploader' = IF result = "ok" THEN Uploader("holding", Head(cache.pending))
                   ELSE Uploader("idle", None)
    /\ Release
    /\ UNCHANGED <<ui, server, created, recorded, dropped>>

Verdict(obs) ==
    CASE obs.id \in server.accepted -> "accept"
      [] obs.id \notin server.accepted /\ obs.seq < server.next[obs.sid] -> "applied"
      [] obs.seq > server.next[obs.sid] -> "gap"
      [] OTHER -> "next"

\* Accepted, or replayed idempotently; the answer may be lost on the way.
Submit ==
    /\ uploader.state = "holding"
    /\ Verdict(uploader.obs) \in {"accept", "next"}
    /\ server' = IF Verdict(uploader.obs) = "accept" THEN server
                 ELSE [server EXCEPT !.next[uploader.obs.sid] = @ + 1,
                                     !.accepted = @ \cup {uploader.obs.id}]
    /\ uploader' \in {[uploader EXCEPT !.state = "accepted"], Uploader("idle", None)}
    /\ UNCHANGED <<storeVars, ui, created, recorded, dropped>>

\* Refused for good: the skip endpoint consumes the sequence, then quarantine.
SubmitRefused ==
    /\ uploader.state = "holding"
    /\ Verdict(uploader.obs) \in {"applied", "next"}
    /\ server' = [server EXCEPT !.refused = @ \cup {uploader.obs.id},
                     !.next[uploader.obs.sid] =
                         IF Verdict(uploader.obs) = "next" THEN @ + 1 ELSE @]
    /\ uploader' \in {[uploader EXCEPT !.state = "refused"], Uploader("idle", None)}
    /\ UNCHANGED <<storeVars, ui, created, recorded, dropped>>

\* Mutant of SubmitDeferred: no answer is taken for an accepting one.
SubmitDeferredAsAccepted ==
    /\ uploader.state = "holding"
    /\ uploader' = [uploader EXCEPT !.state = "accepted"]
    /\ UNCHANGED <<storeVars, ui, server, created, recorded, dropped>>

\* No connection, a retryable error, or a sequence gap: the head waits.
SubmitDeferred ==
    /\ uploader.state = "holding"
    /\ uploader' = Uploader("idle", None)
    /\ UNCHANGED <<storeVars, ui, server, created, recorded, dropped>>

Acknowledge ==
    /\ uploader.state = "accepted"
    /\ BeginAck(uploader.obs.id)
    /\ uploader' = [uploader EXCEPT !.state = "acking"]
    /\ UNCHANGED <<ui, server, created, recorded, dropped>>

Quarantine ==
    /\ uploader.state = "refused"
    /\ BeginQuarantine(uploader.obs.id)
    /\ uploader' = [uploader EXCEPT !.state = "quarantining"]
    /\ UNCHANGED <<ui, server, created, recorded, dropped>>

Resolved ==
    /\ Done("ack") \/ Done("quarantine")
    /\ uploader' = Uploader("idle", None)
    /\ Release
    /\ UNCHANGED <<ui, server, created, recorded, dropped>>

--------------------------------------------------------------------------------
(* Power. *)

PrepareForSleep ==
    /\ \E deadline \in {"none", "passed", "passesInCheckpoint"} : BeginPrepareSleep(deadline)
    /\ UNCHANGED <<ui, uploader, server, created, recorded, dropped>>

Prepared ==
    /\ Done("prepare")
    /\ Release
    /\ UNCHANGED <<ui, uploader, server, created, recorded, dropped>>

Reset ==
    /\ LosePower
    /\ ui' = UiOff
    /\ uploader' = Uploader("idle", None)
    /\ UNCHANGED <<server, created, recorded, dropped>>

StoreStep ==
    /\ FileStep
    /\ UNCHANGED <<ui, uploader, server, created, recorded, dropped>>

StoreFault ==
    /\ FileOperationFails
    /\ UNCHANGED <<ui, uploader, server, created, recorded, dropped>>

TornAppend ==
    /\ AppendFailsTorn
    /\ UNCHANGED <<ui, uploader, server, created, recorded, dropped>>

Next ==
    \/ OpenPage \/ PageLoaded
    \/ StartSession \/ ApplyCandidatePage \/ SessionSaved
    \/ Answer \/ Retry \/ CommitObservation \/ CommitReturned \/ ApplyCommitResult
    \/ LeavePage \/ ClearSession \/ SessionCleared
    \/ Peek \/ Peeked \/ Submit \/ SubmitRefused \/ SubmitDeferred
    \/ Acknowledge \/ Quarantine \/ Resolved
    \/ PrepareForSleep \/ Prepared
    \/ Reset
    \/ StoreStep
    \/ StoreFault

Spec == Init /\ [][Next]_vars

\* The same system where an append may also fail with part of the record written.
TornSpec == Init /\ [][Next \/ TornAppend]_vars

\* The storage task runs what it was given and answers, the callers take their
\* answers, and the upload loop is run again and again (services/sync_service.cpp
\* wakes on its timer), finding the server within reach infinitely often.
Fairness ==
    /\ WF_vars(StoreStep)
    /\ WF_vars(PageLoaded \/ SessionSaved \/ CommitReturned \/ SessionCleared \/ Prepared)
    /\ WF_vars(Peeked)
    /\ WF_vars(Resolved)
    /\ SF_vars(Peek)
    /\ SF_vars((Submit \/ SubmitRefused) /\ uploader'.state # "idle")
    /\ SF_vars(Acknowledge)
    /\ SF_vars(Quarantine)

FairSpec == Spec /\ Fairness

--------------------------------------------------------------------------------
(* Properties. *)

\* The files, the cache, the transaction and the server keep their shape, and a
\* transaction that ended has no file operation left.
TypeOK ==
    /\ DOMAIN disk = {"journal", "session", "rejected"}
    /\ DOMAIN cache = DOMAIN ColdCache
    /\ op = None => todo = <<>>
    /\ result # "busy" => todo = <<>> /\ op # None
    /\ ui.session.sid \in 0..MaxSessions
    /\ server.next \in [Sids -> 0..MaxIds]
    /\ server.accepted \cup server.refused \subseteq Ids
    /\ created \in [ids : 0..MaxIds, sids : 0..MaxSessions]
    /\ dropped \subseteq Sids

\* What the user was told is saved is never lost: until the server has given its
\* verdict, a reboot at any instant, in the middle of any file operation, finds
\* the observation pending (WORD_OFFLINE_OUTBOX.md, the durability order).
NoObservationLost ==
    LET found == IdsOf(BootPending)
    IN \A o \in recorded :
           o.id \in server.accepted \/ o.id \in server.refused \/ o.id \in found

\* Whatever sequence of replacements a power loss cuts, the journal loads again.
JournalReadable == BootScan # None

\* The resident cache, which every transaction trusts instead of reading the
\* file, is what reading the file again would give.
CacheMatchesDisk ==
    cache.loaded /\ todo = <<>> => cache = ScanOutbox(disk.journal)

\* The store is whole after any sequence of cut, failed and repeated operations:
\* its journal loads and the copy in RAM is what would be loaded.
StoreSound == TypeOK /\ JournalReadable /\ CacheMatchesDisk

\* The cursor the user sees is the one a reboot restores: never behind it, so no
\* card is asked twice, and never ahead of it, so no sequence is skipped; and the
\* snapshot on disk has every card the page can still ask.
CursorSurvivesReboot ==
    ui.state \in {"ready", "saving"} /\ ui.session.sid \notin dropped =>
        LET boot == BootSession
        IN /\ boot.sid = ui.session.sid
           /\ boot.next = ui.session.next
           /\ boot.end >= ui.session.end

\* Two observations never claim the same sequence of a session: the server would
\* refuse the second and quarantine an answer the user gave.
SequenceRecordedOnce ==
    \A o, p \in recorded :
        o.sid = p.sid /\ o.seq = p.seq /\ o.sid \notin dropped => o = p

\* The upload head is never ahead of the server: a sequence gap is deferred for
\* ever, and would hold back every later observation.
NoSequenceGap ==
    uploader.state = "holding" => uploader.obs.seq <= server.next[uploader.obs.sid]

\* The numbers of a session, from the cursor of the page over the journal to the
\* server: the cursor comes back after a reboot, no number is given twice, and the
\* upload never runs into a gap.
SequencesSound == CursorSurvivesReboot /\ SequenceRecordedOnce /\ NoSequenceGap

\* Every observation the user was told is saved gets the server's verdict and
\* then leaves the journal: one bad head never blocks the upload for ever.
EveryObservationResolved ==
    \A id \in Ids :
        (id \in {o.id : o \in recorded})
            ~> (id \in server.accepted \cup server.refused /\ id \notin IdsOf(BootPending))

\* The refinement mapping: what a reboot at this instant would still upload.
Log == INSTANCE ObservationLog WITH
           pending <- IdsOf(BootPending),
           judged <- server.accepted \cup server.refused

\* The store is the log of ObservationLog: one atomic set of pending observations,
\* although each transaction is several file operations and power may go at each.
ImplementsLog == Log!Spec
================================================================================
