------------------------------- MODULE WordStore -------------------------------
(***************************************************************************)
(* The durable word-study store of main/word_study_store.cpp: an           *)
(* append-only journal of observations and ACKs (wout.v1), one session     *)
(* snapshot (the slot of one study mode), and the quarantine journal.      *)
(*                                                                         *)
(* Only the StorageService task touches them, so a transaction is planned  *)
(* at its start as the sequence "todo" of the file operations it will      *)
(* make; each is one step, which succeeds, fails with an I/O error, or is  *)
(* cut by a power loss.  A file is replaced through a temporary copy that  *)
(* no reader ever opens, so writing it is part of the step that installs   *)
(* it.  A rename and a remove are atomic.                                  *)
(***************************************************************************)
EXTENDS Naturals, Sequences, SequencesExt, Places

CONSTANTS Absent,            \* what a file that does not exist holds
          Capacity,          \* kWordObservationOutboxCapacity
          AckThreshold,      \* kRuntimeCompactAckThreshold
          RejectedCapacity,  \* kRejectedOutboxCapacity
          MaxCrashes,        \* bound: power losses and sleep resets
          MaxIoErrors,       \* bound: file operations that fail cleanly
          MaxTornAppends,    \* bound: appends that fail after writing something
          MaxFaults          \* bound: crashes, clean errors and torn appends together

\* A file that does not exist is no list of records or names, and no session.
ASSUME AbsentAssumption ==
    /\ Absent \notin Seq([kind : {"obs", "ack", "torn"}, id : Nat, sid : Nat, seq : Nat])
    /\ Absent \notin Seq(Nat)
    /\ Absent \notin [sid : Nat, next : Nat, end : Nat]
ASSUME CapacityAssumption == {Capacity, AckThreshold, RejectedCapacity} \subseteq Nat \ {0}
ASSUME FaultAssumption == {MaxCrashes, MaxIoErrors, MaxTornAppends, MaxFaults} \subseteq Nat

VARIABLES disk,    \* the three files, each with a primary and a backup
          cache,   \* g_outbox_cache and g_outbox_cache_loaded
          op,      \* the transaction in progress
          todo,    \* the file operations it has left
          result,  \* "busy" until it ends, then "ok" or its error
          faults   \* how many crashes, clean errors and torn appends happened

storeVars == <<disk, cache, op, todo, result, faults>>

None == [kind |-> "none"]
Torn == [kind |-> "torn", id |-> 0, sid |-> 0, seq |-> 0]
Obs(id, sid, seq) == [kind |-> "obs", id |-> id, sid |-> sid, seq |-> seq]
AckOf(obs) == [obs EXCEPT !.kind = "ack"]
Session(sid, next, end) == [sid |-> sid, next |-> next, end |-> end]

IdsOf(records) == {records[i].id : i \in DOMAIN records}
PlaceOf(records, id) == CHOOSE i \in DOMAIN records : records[i].id = id
Without(records, id) == RemoveAt(records, PlaceOf(records, id))
Find(records, id) == records[PlaceOf(records, id)]

EmptyFile == [primary |-> Absent, backup |-> Absent]
ColdCache == [loaded |-> FALSE, pending |-> <<>>, acked |-> <<>>, acks |-> 0,
              partialTail |-> FALSE, fromBackup |-> FALSE]
OutboxScan(pending, acked, acks, partialTail, fromBackup) ==
    [loaded |-> TRUE, pending |-> pending, acked |-> acked, acks |-> acks,
     partialTail |-> partialTail, fromBackup |-> fromBackup]
EmptyScan == OutboxScan(<<>>, <<>>, 0, FALSE, FALSE)
Recovered(scan) ==
    OutboxScan(scan.pending, scan.acked, scan.acks, scan.partialTail, TRUE)

InitStore ==
    /\ disk = [journal |-> EmptyFile, session |-> EmptyFile, rejected |-> EmptyFile]
    /\ cache = ColdCache
    /\ op = None
    /\ todo = <<>>
    /\ result = "busy"
    /\ faults = [crashes |-> 0, errors |-> 0, torn |-> 0]

--------------------------------------------------------------------------------
(* Reading the journal. *)

Same(r, s) == r.id = s.id
AckedLater(file, i) ==
    \E j \in i + 1..Len(file) : file[j].kind = "ack" /\ Same(file[i], file[j])
ObservedBefore(file, j) ==
    \E i \in 1..j - 1 : file[i].kind = "obs" /\ Same(file[i], file[j])

\* An observation that no later ACK removes; its first copy, if it has several.
PendingAt(file, i) ==
    /\ file[i].kind = "obs"
    /\ ~AckedLater(file, i)
    /\ \A j \in 1..i - 1 :
           file[j].kind = "obs" /\ Same(file[i], file[j]) => AckedLater(file, j)

\* The first ACK of an observation of this file; any other is an orphan.
AcknowledgedAt(file, j) ==
    /\ file[j].kind = "ack"
    /\ ObservedBefore(file, j)
    /\ \A i \in 1..j - 1 :
           file[i].kind = "ack" /\ Same(file[i], file[j]) => ~ObservedBefore(file, i)

ObservationsAt(file, places) ==
    LET records == RecordsAt(file, places)
    IN [n \in DOMAIN records |-> [records[n] EXCEPT !.kind = "obs"]]

\* A partial record is dropped at the end of the file; anywhere else the records
\* behind it are misaligned and fail their CRC, and the whole file is refused.
ScanOutboxFile(file) ==
    LET torn == {i \in DOMAIN file : file[i] = Torn}
        acks == {i \in DOMAIN file : file[i].kind = "ack"}
        waiting == ObservationsAt(file, {i \in DOMAIN file : PendingAt(file, i)})
    IN IF torn \subseteq {Len(file)} /\ Len(waiting) <= Capacity
       THEN OutboxScan(waiting, ObservationsAt(file, {i \in acks : AcknowledgedAt(file, i)}),
                       Cardinality(acks), torn # {}, FALSE)
       ELSE None

ReadFile(file) == IF file = Absent THEN None ELSE ScanOutboxFile(file)

\* The primary, else the backup, else an empty journal if there never was one.
ScanOutbox(journal) ==
    LET new == ReadFile(journal.primary)
        old == ReadFile(journal.backup)
    IN IF new # None THEN new
       ELSE IF old # None THEN Recovered(old)
       ELSE IF journal = EmptyFile THEN EmptyScan
       ELSE None

Scan == IF cache.loaded THEN cache ELSE ScanOutbox(disk.journal)

\* EnsureOutboxCache: what the transaction starting now finds, kept for the next.
EnsureOutboxCache == cache' = IF Scan = None THEN cache ELSE Scan

--------------------------------------------------------------------------------
(* Reading the session. *)

LoadSession(file) ==
    IF file.primary # Absent THEN file.primary ELSE file.backup

\* Mutant of ReconcileSession: the acknowledged records are left out.
ReconcileSessionPending(s, scan) ==
    LET records == {r \in Range(scan.pending) : r.sid = s.sid}
        cursors == {r.seq + 1 : r \in records} \cap 0..s.end
    IN [s EXCEPT !.next = Max({@} \cup cursors)]

\* Every record of the session moves its cursor past it, as far as the snapshot
\* has cards: SetSessionCursorOrdinal refuses a position behind its last one.
ReconcileSession(s, scan) ==
    LET records == {r \in Range(scan.acked \o scan.pending) : r.sid = s.sid}
        cursors == {r.seq + 1 : r \in records} \cap 0..s.end
    IN [s EXCEPT !.next = Max({@} \cup cursors)]

--------------------------------------------------------------------------------
(* Plans: the file operations of each transaction. *)

Do(action, file, data) == [do |-> action, file |-> file, data |-> data]
Return == <<Do("return", "none", "ok")>>
Refuse(error) == <<Do("return", "none", error)>>

\* CompactOutbox and AtomicWrite: install new content, keeping the old primary as
\* the backup, or keeping the backup when the content was recovered from it.
Replace(file, data, preserveBackup) ==
    IF preserveBackup
    THEN <<Do("removePrimary", file, Absent), Do("create", file, data)>>
    ELSE <<Do("removeBackup", file, Absent), Do("backup", file, Absent),
           Do("install", file, data)>>

\* LoadSessionSlotRaw: a session found only in the backup becomes the primary.
RecoverSession ==
    IF disk.session.primary = Absent /\ disk.session.backup # Absent
    THEN Replace("session", disk.session.backup, TRUE) ELSE <<>>

SaveReconciled(scan) ==
    LET stored == LoadSession(disk.session)
    IN IF stored # Absent /\ ReconcileSession(stored, scan) # stored
       THEN Replace("session", ReconcileSession(stored, scan), FALSE) ELSE <<>>

CheckpointSessions(scan) == RecoverSession \o SaveReconciled(scan)

\* Mutant of CompactCached: the primary is removed before the new one is there.
CompactCachedInPlace(scan) == Replace("journal", scan.pending, TRUE)

CompactCached(scan) == Replace("journal", scan.pending, scan.fromBackup)

\* Mutant of Repair: a partial record is left at the end of the journal.
RepairNothing(scan) == <<>>

Repair(scan) ==
    IF scan.partialTail \/ scan.fromBackup
    THEN CheckpointSessions(scan) \o CompactCached(scan) ELSE <<>>

\* Mutant of MaybeCompact: the sessions are not saved before the records go.
MaybeCompactOnly(scan) ==
    IF scan.acks < AckThreshold THEN <<>> ELSE CompactCached(scan)

MaybeCompact(scan) ==
    IF scan.acks < AckThreshold THEN <<>>
    ELSE CheckpointSessions(scan) \o CompactCached(scan)

AfterObservation(scan, obs) ==
    OutboxScan(Append(scan.pending, obs), scan.acked, scan.acks, scan.partialTail,
               scan.fromBackup)

AfterAck(scan, id) ==
    OutboxScan(Without(scan.pending, id), Append(scan.acked, Find(scan.pending, id)),
               scan.acks + 1, scan.partialTail, scan.fromBackup)

AckPlan(scan, id) ==
    <<Do("append", "journal", AckOf(Find(scan.pending, id)))>>
        \o MaybeCompact(AfterAck(scan, id))

\* AppendRejectedOutboxRecord: the last records that fit, and the new one.
RejectPlan(record) ==
    LET old == IF disk.rejected.primary = Absent THEN <<>> ELSE disk.rejected.primary
        keep == IF Len(old) < RejectedCapacity THEN old
                ELSE SubSeq(old, Len(old) - RejectedCapacity + 2, Len(old))
    IN Replace("rejected", Append(keep, record.id), FALSE)
          \o (IF disk.rejected.primary = Absent THEN <<>>
              ELSE <<Do("eraseBackup", "rejected", Absent)>>)

--------------------------------------------------------------------------------
(* Starting a transaction.  Each caller waits for its result. *)

Start(transaction, plan) ==
    /\ op = None
    /\ op' = transaction
    /\ todo' = plan
    /\ result' = "busy"
    /\ UNCHANGED <<disk, faults>>

\* LoadSessionTransaction: an unused slot is NOT_FOUND and reads no journal.
BeginLoadSession ==
    IF LoadSession(disk.session) = Absent
    THEN Start([kind |-> "load"], Refuse("notFound")) /\ UNCHANGED cache
    ELSE /\ EnsureOutboxCache
         /\ Start([kind |-> "load"],
                  IF Scan = None THEN RecoverSession \o Refuse("unreadable")
                  ELSE CheckpointSessions(Scan)
                          \o (IF Scan.partialTail \/ Scan.fromBackup
                              THEN CompactCached(Scan) ELSE <<>>)
                          \o Return)

\* SaveSessionTransaction: the snapshot, then the companion file of its paused
\* flag, whose content is not modelled.
BeginSaveSession(s) ==
    /\ Start([kind |-> "save"], Replace("session", s, FALSE)
                                \o <<Do("cursor", "session", Absent)>> \o Return)
    /\ UNCHANGED cache

\* ClearSessionTransaction.
BeginClearSession ==
    /\ Start([kind |-> "clear"], <<Do("removePrimary", "session", Absent),
                                  Do("eraseBackup", "session", Absent)>> \o Return)
    /\ UNCHANGED cache

\* CommitObservationTransaction: a replayed request id only rewrites the session.
BeginCommit(obs, moved) ==
    /\ EnsureOutboxCache
    /\ Start([kind |-> "commit", obs |-> obs],
             CASE Scan = None -> Refuse("unreadable")
               [] Scan # None /\ obs.id \in IdsOf(Scan.pending \o Scan.acked) ->
                     Replace("session", moved, FALSE) \o Return
               [] Scan # None /\ obs.id \notin IdsOf(Scan.pending \o Scan.acked)
                              /\ Len(Scan.pending) >= Capacity -> Refuse("full")
               [] OTHER -> Repair(Scan) \o <<Do("append", "journal", obs)>> \o Return)

\* PeekObservationTransaction.
BeginPeek ==
    /\ EnsureOutboxCache
    /\ Start([kind |-> "peek"],
             IF Scan = None THEN Refuse("unreadable")
             ELSE Repair(Scan)
                     \o (IF Scan.pending = <<>> THEN Refuse("notFound") ELSE Return))

Unresolved(scan, id) == scan # None /\ id \in IdsOf(scan.pending)
AlreadyAcked(id) ==
    IF Scan = None THEN Refuse("unreadable")
    ELSE IF id \in IdsOf(Scan.acked) THEN Return ELSE Refuse("notFound")

\* AckObservationTransaction.
BeginAck(id) ==
    /\ EnsureOutboxCache
    /\ Start([kind |-> "ack", id |-> id],
             IF Unresolved(Scan, id) THEN AckPlan(Scan, id) \o Return
             ELSE AlreadyAcked(id))

\* Mutant of BeginQuarantine: the copy is made and the record stays at the head.
BeginQuarantineNoAck(id) ==
    /\ EnsureOutboxCache
    /\ Start([kind |-> "quarantine", id |-> id],
             IF Unresolved(Scan, id) THEN RejectPlan(Find(Scan.pending, id)) \o Return
             ELSE AlreadyAcked(id))

\* QuarantineObservationTransaction: the record is copied before it is ACKed.
BeginQuarantine(id) ==
    /\ EnsureOutboxCache
    /\ Start([kind |-> "quarantine", id |-> id],
             IF Unresolved(Scan, id)
             THEN RejectPlan(Find(Scan.pending, id)) \o AckPlan(Scan, id) \o Return
             ELSE AlreadyAcked(id))

\* PrepareOutboxForSleepTransaction: compaction is left out once the deadline has
\* passed, before the checkpoint or after it.
BeginPrepareSleep(deadline) ==
    CASE deadline = "passed" ->
            /\ Start([kind |-> "prepare"], Return)
            /\ UNCHANGED cache
      [] deadline # "passed" ->
            /\ EnsureOutboxCache
            /\ Start([kind |-> "prepare"],
                     CASE Scan = None -> Refuse("unreadable")
                       [] Scan # None /\ Scan.acks = 0 /\ Repair(Scan) = <<>> -> Return
                       [] OTHER -> CheckpointSessions(Scan)
                                     \o (IF deadline = "none" THEN CompactCached(Scan)
                                         ELSE <<>>)
                                     \o Return)

--------------------------------------------------------------------------------
(* The file operations. *)

Head1 == Head(todo)
Writing(action) == todo # <<>> /\ Head1.do = action
Slot == disk[Head1.file]
SetSlot(pair) == disk' = [disk EXCEPT ![Head1.file] = pair]
Continue == todo' = Tail(todo) /\ UNCHANGED <<op, result, faults>>

\* Nothing to rotate when there is no primary: the new file is just created.
RemoveBackup ==
    /\ Writing("removeBackup")
    /\ IF Slot.primary = Absent
       THEN /\ todo' = <<[todo[3] EXCEPT !.do = "create"]>> \o SubSeq(todo, 4, Len(todo))
            /\ UNCHANGED <<disk, op, result, faults>>
       ELSE SetSlot([Slot EXCEPT !.backup = Absent]) /\ Continue
    /\ UNCHANGED cache

RenamePrimaryToBackup ==
    /\ Writing("backup")
    /\ SetSlot([primary |-> Absent, backup |-> Slot.primary])
    /\ Continue
    /\ UNCHANGED cache

RemovePrimary ==
    /\ Writing("removePrimary")
    /\ SetSlot([Slot EXCEPT !.primary = Absent])
    /\ Continue
    /\ UNCHANGED cache

EraseBackup ==
    /\ Writing("eraseBackup")
    /\ SetSlot([Slot EXCEPT !.backup = Absent])
    /\ Continue
    /\ UNCHANGED cache

WriteSessionCursor ==
    /\ Writing("cursor")
    /\ Continue
    /\ UNCHANGED <<disk, cache>>

\* Mutant of InstallTemporary: the cache keeps the acknowledged records.
InstallTemporaryKeepsAcked ==
    /\ Writing("install") \/ Writing("create")
    /\ SetSlot([Slot EXCEPT !.primary = Head1.data])
    /\ cache' = IF Head1.file # "journal" THEN cache
                ELSE OutboxScan(Head1.data, cache.acked, 0, FALSE, FALSE)
    /\ Continue

\* A new journal leaves nothing acknowledged and nothing to repair.
InstallTemporary ==
    /\ Writing("install") \/ Writing("create")
    /\ SetSlot([Slot EXCEPT !.primary = Head1.data])
    /\ cache' = IF Head1.file # "journal" THEN cache
                ELSE OutboxScan(Head1.data, <<>>, 0, FALSE, FALSE)
    /\ Continue

Appended(record) ==
    IF disk.journal.primary = Absent THEN <<record>> ELSE Append(disk.journal.primary, record)

\* AppendOutboxRecord, and the cache update that follows a durable append.
AppendRecord ==
    /\ Writing("append")
    /\ disk' = [disk EXCEPT !.journal.primary = Appended(Head1.data)]
    /\ cache' = IF Head1.data.kind = "obs"
                THEN AfterObservation(cache, Head1.data)
                ELSE AfterAck(cache, Head1.data.id)
    /\ Continue

\* Mutant of Finish: the plan is not cleared.
FinishKeepsPlan ==
    /\ Writing("return")
    /\ result' = Head1.data
    /\ UNCHANGED <<disk, cache, op, todo, faults>>

Finish ==
    /\ Writing("return")
    /\ todo' = <<>>
    /\ result' = Head1.data
    /\ UNCHANGED <<disk, cache, op, faults>>

--------------------------------------------------------------------------------
(* Faults. *)

\* What an append that did not complete leaves behind: nothing, part of the
\* record (merged with a partial record already there, or after it), or all of it.
HalfAppended ==
    LET old == IF disk.journal.primary = Absent THEN <<>> ELSE disk.journal.primary
    IN {disk.journal.primary, Append(old, Torn), Append(old, Head1.data)}

Abort ==
    /\ todo' = <<>>
    /\ result' = "ioError"
    /\ UNCHANGED <<cache, op>>

FaultLeft == faults.crashes + faults.errors + faults.torn < MaxFaults

\* A file operation fails and changes nothing; a failed install puts the primary
\* back, and failing to drop the old quarantine backup is ignored.
FileOperationFails ==
    /\ FaultLeft
    /\ faults.errors < MaxIoErrors
    /\ todo # <<>> /\ Head1.do # "return"
    /\ ~(Head1.do = "eraseBackup" /\ Head1.file = "rejected")
    /\ IF Head1.do = "install"
       THEN SetSlot([primary |-> Slot.backup, backup |-> Absent])
       ELSE UNCHANGED disk
    /\ Abort
    /\ faults' = [faults EXCEPT !.errors = @ + 1]

\* fwrite, fflush or fsync fails after part or all of the record reached flash.
AppendFailsTorn ==
    /\ FaultLeft
    /\ faults.torn < MaxTornAppends
    /\ Writing("append")
    /\ \E file \in HalfAppended \ {disk.journal.primary} :
           disk' = [disk EXCEPT !.journal.primary = file]
    /\ Abort
    /\ faults' = [faults EXCEPT !.torn = @ + 1]

\* Power is lost: the disk stays as it is, or with a half-done append.
LosePower ==
    /\ FaultLeft
    /\ faults.crashes < MaxCrashes
    /\ \E file \in IF Writing("append") THEN HalfAppended ELSE {disk.journal.primary} :
           disk' = [disk EXCEPT !.journal.primary = file]
    /\ cache' = ColdCache
    /\ op' = None
    /\ todo' = <<>>
    /\ result' = "busy"
    /\ faults' = [faults EXCEPT !.crashes = @ + 1]

FileStep ==
    \/ RemoveBackup
    \/ RenamePrimaryToBackup
    \/ RemovePrimary
    \/ EraseBackup
    \/ WriteSessionCursor
    \/ InstallTemporary
    \/ AppendRecord
    \/ Finish

--------------------------------------------------------------------------------
(* What a reboot at this instant would find. *)

BootScan == ScanOutbox(disk.journal)
BootPending == LET scan == BootScan IN IF scan = None THEN <<>> ELSE scan.pending
BootSession ==
    LET stored == LoadSession(disk.session)
        scan == BootScan
    IN IF stored = Absent \/ scan = None THEN stored ELSE ReconcileSession(stored, scan)
================================================================================
