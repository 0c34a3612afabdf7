----------------------------- MODULE DeviceControl -----------------------------
(***************************************************************************)
(* How the sync task obtains an identity and keeps its checkpoint          *)
(* (sync_service.cpp, wqn_api.cpp, storage.cpp).  Without a token it       *)
(* starts a claim, polls until the owner approves it and saves the sealed  *)
(* token; with one it bootstraps once per boot, uploads (SyncService),     *)
(* fetches the problems that are due, merges them into the cache           *)
(* (ProblemCache) and then moves the checkpoint.  Token, configuration     *)
(* revision and sync cursor are three keys of NVS, written and erased one  *)
(* by one.  A 401 anywhere erases them: another task may hold a token it   *)
(* read long ago.                                                          *)
(*                                                                         *)
(* The server is external, and makes up its mind when it is asked.  A      *)
(* claim is numbered by its key pair, and the identity by the claim that   *)
(* yields its token.  A checkpoint, [owner, page], stands for what was     *)
(* issued together, so revision and cursor are equal when they are of one  *)
(* answer.  A request id is random and kept for retries: bodies[kind] is   *)
(* what has been sent under the one that is kept, {} when none is.         *)
(***************************************************************************)
EXTENDS ProblemCache, Sequences

CONSTANTS
    MaxClaims,      \* key pairs that are generated
    Pages,          \* pages of due problems an identity has
    ControlBoots    \* power losses

ASSUME ControlAssumption == {MaxClaims, Pages, ControlFaults, ControlBoots} \subseteq Nat

VARIABLES
    nvs,        \* the keys of NVS: token, revision, cursor
    storageJob, \* the storage transaction under way: for whom, keys to write, result
    ram,        \* g_control_state_loaded, g_config_revision, g_sync_cursor, g_bootstrap_complete
    bodies,     \* under g_claim_start_request_id, g_bootstrap_request_id, g_sync_request_id
    key,        \* g_claim_key_pair, 0 when cleared
    claimActive, \* g_claim_active: a claim id has come
    round,      \* where the round is, the token it read, the checkpoint an answer carried
    other,      \* token another task has sent a request with, 0 when none
    keys,       \* key pairs generated so far
    over,       \* server: claims that expired or were consumed
    revoked,    \* server: tokens that no longer count
    reported,   \* server: largest page an identity has sent as its cursor
    controlBoots

control == <<nvs, storageJob, ram, bodies, key, claimActive, round, other, cacheVars,
             keys, over, revoked, reported, controlFaults, controlBoots>>
sessionVars == <<ram, bodies, key, claimActive>>
serverVars == <<keys, over, revoked, reported>>
boundVars == <<controlFaults, controlBoots>>

Tokens == 1..MaxClaims
Kinds == {"start", "bootstrap", "sync"}
NoCheckpoint == [owner |-> 0, page |-> 0]
Absent == [owner |-> 0, page |-> -1]  \* no such key
NoWrites == [by |-> "nobody", todo |-> <<>>, ok |-> TRUE]
FreshMemory ==
    [loaded |-> FALSE, revision |-> NoCheckpoint, cursor |-> NoCheckpoint,
     bootstrapped |-> FALSE]
NoRound == [pc |-> "idle", token |-> 0, answer |-> NoCheckpoint]

ControlInit ==
    /\ nvs = [token |-> 0, revision |-> Absent, cursor |-> Absent]
    /\ storageJob = NoWrites /\ ram = FreshMemory
    /\ bodies = [k \in Kinds |-> {}]
    /\ key = 0 /\ claimActive = FALSE
    /\ round = NoRound /\ other = 0
    /\ CacheInit
    /\ keys = 0 /\ over = {} /\ revoked = {} /\ reported = [t \in Tokens |-> 0]
    /\ controlBoots = 0

RoundTo(pc) == round' = [round EXCEPT !.pc = pc]
RoundOver == round' = NoRound

--------------------------------------------------------------------------------
(* Storage. *)

\* ExecuteStorageTransaction: one at a time, and the caller waits for the result.
StorageIdle == storageJob = NoWrites /\ cacheJob = NoSave
Execute(by, todo) ==
    StorageIdle /\ storageJob' = [by |-> by, todo |-> todo, ok |-> TRUE]
WritesDone(by) == storageJob.by = by /\ storageJob.todo = <<>> /\ storageJob' = NoWrites

\* ClearIdentityStateRaw: the token goes first.
Clearing == << <<"token", 0>>, <<"revision", Absent>>, <<"cursor", Absent>> >>

\* SaveDeviceControlStateRaw
Checkpoint(c) == << <<"revision", c>>, <<"cursor", c>> >>

\* One key is written or erased, or fails and ends the transaction.
StorageStep ==
    /\ storageJob.todo # <<>>
    /\ \/ /\ nvs' = [nvs EXCEPT ![Head(storageJob.todo)[1]] = Head(storageJob.todo)[2]]
          /\ storageJob' = [storageJob EXCEPT !.todo = Tail(@)]
          /\ UNCHANGED controlFaults
       \/ /\ StorageFault
          /\ storageJob' = [storageJob EXCEPT !.todo = <<>>, !.ok = FALSE]
          /\ UNCHANGED nvs
    /\ UNCHANGED <<sessionVars, round, other, cacheVars, serverVars, controlBoots>>

\* LoadUsableToken: a token that cannot be read is no token.
Usable == nvs.token # 0 /\ UNCHANGED controlFaults
Unusable == IF nvs.token = 0 THEN UNCHANGED controlFaults ELSE StorageFault

--------------------------------------------------------------------------------
(* The claim. *)

\* LoadDeviceControlState: half a checkpoint counts as none.
Loaded ==
    IF Absent \in {nvs.revision, nvs.cursor}
    THEN [FreshMemory EXCEPT !.loaded = TRUE]
    ELSE [FreshMemory EXCEPT !.loaded = TRUE, !.revision = nvs.revision, !.cursor = nvs.cursor]

\* EnsureControlStateLoaded, at the start of a round.
BeginRound ==
    /\ round.pc = "idle" /\ RoundTo("claim")
    /\ ram' = IF ram.loaded THEN ram ELSE Loaded
    /\ UNCHANGED <<nvs, storageJob, bodies, key, claimActive, other, cacheVars, serverVars,
                   boundVars>>

ResetClaimSession ==
    /\ key' = 0 /\ claimActive' = FALSE
    /\ bodies' = [bodies EXCEPT !["start"] = {}]

\* Mutant of Forgotten: a bootstrap that was done stays done.
ForgottenButBootstrap == [FreshMemory EXCEPT !.loaded = TRUE, !.bootstrapped = ram.bootstrapped]

\* What is left of the checkpoint in a round without a token.
Forgotten == [FreshMemory EXCEPT !.loaded = TRUE]

\* Mutant of Dropped: ids outlive the identity they were sent under.
DroppedNothing == bodies

Dropped == [bodies EXCEPT !["bootstrap"] = {}, !["sync"] = {}]

RunDeviceClaimRound ==
    /\ round.pc = "claim"
    /\ \/ Usable /\ ResetClaimSession /\ RoundTo("load") /\ UNCHANGED ram
       \/ /\ Unusable /\ ram' = Forgotten /\ bodies' = Dropped
          /\ RoundTo(IF claimActive THEN "poll" ELSE "start")
          /\ UNCHANGED <<key, claimActive>>
    /\ UNCHANGED <<nvs, storageJob, other, cacheVars, serverVars, controlBoots>>

\* Under the id that is kept, or a new one.
SendUnderId(kind, body) == bodies' = [bodies EXCEPT ![kind] = @ \union {body}]

\* The key pair is generated with the id, and kept with it when no answer comes.  An id that
\* names a claim that is over is refused (REQUEST_ID_REUSED).
StartClaimSession ==
    /\ round.pc = "start" /\ RoundOver
    /\ \E k \in Tokens :
        /\ k = IF bodies["start"] # {} THEN key ELSE keys + 1
        /\ keys' = IF k > keys THEN k ELSE keys
        /\ \/ /\ SendUnderId("start", <<k, ram.revision, ram.cursor>>) /\ key' = k
              /\ claimActive' \in (IF k \in over THEN {FALSE} ELSE BOOLEAN)
              /\ UNCHANGED over
           \/ bodies["start"] # {} /\ ResetClaimSession /\ over' = over \union {k}
    /\ UNCHANGED <<nvs, storageJob, ram, other, cacheVars, revoked, reported, boundVars>>

\* Pending, or no answer; over, which ends the session; or approved: the server may take the
\* credential for handed out although the answer is lost.
PollClaimSession ==
    /\ round.pc = "poll"
    /\ \/ RoundOver /\ UNCHANGED <<over, key, claimActive, bodies>>
       \/ ResetClaimSession /\ over' = over \union {key} /\ RoundOver
       \/ /\ key \notin over /\ (RoundTo("approved") \/ RoundOver)
          /\ over' \in {over, over \union {key}}
          /\ UNCHANGED <<key, claimActive, bodies>>
    /\ UNCHANGED <<nvs, storageJob, ram, other, cacheVars, keys, revoked, reported, boundVars>>

SaveAccessToken ==
    /\ round.pc = "approved" /\ Execute("sync", << <<"token", key>> >>) /\ RoundTo("tokenSaved")
    /\ UNCHANGED <<nvs, sessionVars, other, cacheVars, serverVars, boundVars>>

TokenSaved ==
    /\ round.pc = "tokenSaved" /\ WritesDone("sync")
    /\ IF storageJob.ok THEN ResetClaimSession /\ RoundTo("load")
                 ELSE RoundOver /\ UNCHANGED <<key, claimActive, bodies>>
    /\ UNCHANGED <<nvs, ram, other, cacheVars, serverVars, boundVars>>

--------------------------------------------------------------------------------
(* Bootstrap and checkpoint. *)

\* RunSyncRound reads the token before the bootstrap, after the uploads and before the index.
AfterLoad ==
    [load |-> IF ram.bootstrapped THEN "reload" ELSE "bootstrap", reload |-> "sync",
     refresh |-> "index"]
LoadToken ==
    /\ round.pc \in DOMAIN AfterLoad
    /\ \/ Usable /\ round' = [round EXCEPT !.pc = AfterLoad[@], !.token = nvs.token]
       \/ Unusable /\ RoundOver
    /\ UNCHANGED <<nvs, storageJob, sessionVars, other, cacheVars, serverVars, controlBoots>>

\* The server refuses the token (401) from now on.
TokenRefused == revoked' = revoked \union {round.token} /\ RoundTo("clear")
Answered(pc, page) ==
    round' = [round EXCEPT !.pc = pc, !.answer = [owner |-> round.token, page |-> page]]

Body == [token |-> round.token, revision |-> ram.revision, cursor |-> ram.cursor]

\* The answer is a checkpoint the device has confirmed to the server, of this identity.
BootstrapControl ==
    /\ round.pc = "bootstrap" /\ SendUnderId("bootstrap", Body)
    /\ \/ RoundOver /\ UNCHANGED revoked
       \/ TokenRefused
       \/ /\ round.token \notin revoked /\ UNCHANGED revoked
          /\ \E page \in 0..reported[round.token] : Answered("bootstrapped", page)
    /\ UNCHANGED <<nvs, storageJob, ram, key, claimActive, other, cacheVars, keys, over, reported,
                   boundVars>>

\* The answer, which may be lost, names the next page of problems or none.
SyncDueProblems ==
    /\ round.pc = "sync" /\ SendUnderId("sync", Body)
    /\ \/ RoundOver /\ UNCHANGED <<revoked, reported>>
       \/ TokenRefused /\ UNCHANGED reported
       \/ /\ round.token \notin revoked /\ UNCHANGED revoked
          /\ reported' = [reported EXCEPT ![round.token] =
                IF ram.cursor.owner = round.token /\ ram.cursor.page > @
                THEN ram.cursor.page ELSE @]
          /\ \/ RoundOver
             \/ Answered("save", ram.cursor.page)
             \/ ram.cursor.page < Pages /\ Answered("fetch", ram.cursor.page + 1)
    /\ UNCHANGED <<nvs, storageJob, ram, key, claimActive, other, cacheVars, keys, over,
                   boundVars>>

\* The problems of the manifest come, or the round ends.
FetchProblems ==
    /\ round.pc = "fetch"
    /\ \/ RoundTo("merge") /\ UNCHANGED revoked
       \/ RoundOver /\ UNCHANGED revoked
       \/ TokenRefused
    /\ UNCHANGED <<nvs, storageJob, sessionVars, other, cacheVars, keys, over, reported,
                   boundVars>>

\* MergeProblemCache works for the round: it stays where it is.
Merging ==
    /\ storageJob = NoWrites /\ MergeProblemCache(<<round.token, round.answer.page>>)
    /\ UNCHANGED round

\* Mutant of MergeDueProblems: the checkpoint moves although the merge failed.
MergeDueProblemsAnyway ==
    /\ round.pc = "merge"
    /\ \/ Merging
       \/ (MergeOver("saved") \/ MergeOver("failed")) /\ RoundTo("save") /\ UNCHANGED controlFaults
    /\ UNCHANGED <<nvs, storageJob, sessionVars, other, serverVars, controlBoots>>

MergeDueProblems ==
    /\ round.pc = "merge"
    /\ \/ Merging
       \/ MergeOver("saved") /\ RoundTo("save") /\ UNCHANGED controlFaults
       \/ MergeOver("failed") /\ RoundOver /\ UNCHANGED controlFaults
    /\ UNCHANGED <<nvs, storageJob, sessionVars, other, serverVars, controlBoots>>

SaveCheckpoint ==
    /\ round.pc \in {"bootstrapped", "save"} /\ Execute("sync", Checkpoint(round.answer))
    /\ RoundTo(IF round.pc = "save" THEN "saved" ELSE "bootstrapSaved")
    /\ UNCHANGED <<nvs, sessionVars, other, cacheVars, serverVars, boundVars>>

\* Mutant of MovesMemory: the values in memory move although the write failed.
MovesAlways == TRUE

MovesMemory == storageJob.ok

\* The values in memory move, and the id is given up, once the checkpoint is saved.
CheckpointSaved ==
    /\ round.pc \in {"bootstrapSaved", "saved"} /\ WritesDone("sync")
    /\ ram' = IF MovesMemory
              THEN [ram EXCEPT !.revision = round.answer, !.cursor = round.answer,
                               !.bootstrapped = TRUE]
              ELSE ram
    /\ IF storageJob.ok
       THEN /\ bodies' = [bodies EXCEPT
                              ![IF round.pc = "saved" THEN "sync" ELSE "bootstrap"] = {}]
            /\ RoundTo(IF round.pc = "saved" THEN "refresh" ELSE "reload")
       ELSE RoundOver /\ UNCHANGED bodies
    /\ UNCHANGED <<nvs, key, claimActive, other, cacheVars, serverVars, boundVars>>

\* RefreshProblemIndexIfAvailable: any page of the index is merged, and the round ends.
RefreshIndex ==
    /\ \/ /\ round.pc = "index" /\ UNCHANGED <<cacheVars, controlFaults>>
          /\ \/ RoundOver /\ UNCHANGED revoked
             \/ TokenRefused
             \/ (\E p \in 1..Pages : Answered("file", p)) /\ UNCHANGED revoked
       \/ /\ round.pc = "file" /\ UNCHANGED revoked
          /\ \/ Merging
             \/ (MergeOver("saved") \/ MergeOver("failed")) /\ RoundOver /\ UNCHANGED controlFaults
    /\ UNCHANGED <<nvs, storageJob, sessionVars, other, keys, over, reported, controlBoots>>

\* ClearAccessToken on a 401; the round ends whether it succeeds or not.
ClearAccessToken ==
    /\ \/ round.pc = "clear" /\ Execute("sync", Clearing) /\ RoundTo("clearing")
       \/ round.pc = "clearing" /\ WritesDone("sync") /\ RoundOver
    /\ UNCHANGED <<nvs, sessionVars, other, cacheVars, serverVars, boundVars>>

--------------------------------------------------------------------------------
(* Other tasks, power. *)

\* A request of another task goes out with the token of its moment; its 401 may come late, and
\* clears whatever token there is.
OtherRequest ==
    /\ \/ other = 0 /\ nvs.token # 0 /\ other' = nvs.token /\ UNCHANGED <<storageJob, revoked>>
       \/ /\ other # 0 /\ other' = 0
          /\ \/ revoked' = revoked \union {other} /\ Execute("other", Clearing)
             \/ UNCHANGED <<storageJob, revoked>>
       \/ WritesDone("other") /\ UNCHANGED <<other, revoked>>
    /\ UNCHANGED <<nvs, sessionVars, round, cacheVars, keys, over, reported, boundVars>>

\* The storage task saves the cache, for the sync task or for the page, which reads it now and
\* then.
CacheStep ==
    /\ \/ SaveProceeds \/ SaveFails
       \/ StorageIdle /\ (LoadUiState \/ QueueSelectedReview)
    /\ UNCHANGED <<nvs, storageJob, sessionVars, round, other, serverVars, controlBoots>>

PowerLoss ==
    /\ CacheCut
    /\ controlBoots < ControlBoots /\ controlBoots' = controlBoots + 1
    /\ storageJob' = NoWrites /\ ram' = FreshMemory /\ bodies' = [k \in Kinds |-> {}]
    /\ key' = 0 /\ claimActive' = FALSE /\ round' = NoRound /\ other' = 0
    /\ UNCHANGED <<nvs, serverVars>>

RunSyncRound ==
    \/ BeginRound \/ RunDeviceClaimRound \/ StartClaimSession \/ PollClaimSession
    \/ SaveAccessToken \/ TokenSaved \/ LoadToken \/ BootstrapControl \/ SyncDueProblems
    \/ FetchProblems \/ MergeDueProblems \/ SaveCheckpoint \/ CheckpointSaved \/ RefreshIndex
    \/ ClearAccessToken

ControlNext == RunSyncRound \/ StorageStep \/ CacheStep \/ OtherRequest \/ PowerLoss

ControlSpec == ControlInit /\ [][ControlNext]_control

--------------------------------------------------------------------------------

\* A request id stands for one request: what is sent again under it is the same, so that the
\* server may answer a retry with what it answered before (TROUBLESHOOTING.md:74).
IdsNameOneRequest == \A kind \in Kinds : Cardinality(bodies[kind]) <= 1

\* A sync request carries the checkpoint of its own identity, both halves of one answer,
\* whatever a power loss, a failed write or a 401 has left in NVS.
SyncOfOneIdentity ==
    \A body \in bodies["sync"] : body.cursor.owner = body.token /\ body.revision = body.cursor

\* The saved cursor never runs ahead of the cache: every problem before it was cached, and is in
\* a file or taken out of the files by the save under way, with three exceptions the code has: a
\* file that could not be read was cleared or replaced; a save that failed or was cut had removed
\* the backup when there was no primary; the page has saved the list it had read before.
CursorBehindCache ==
    \A p \in 1..nvs.cursor.page :
        <<nvs.cursor.owner, p>> \in Held \union cacheJob.risk \union cacheLost

\* Requests, checkpoint and cache belong together.
ControlSound == IdsNameOneRequest /\ SyncOfOneIdentity /\ CursorBehindCache
================================================================================
