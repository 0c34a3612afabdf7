------------------------------ MODULE ProblemCache ------------------------------
(***************************************************************************)
(* The cache of problems (problem_cache.cpp, storage.cpp): a file and its  *)
(* backup, and the two tasks that save it.  The sync task merges what it   *)
(* fetched into what it reads (sync_service.cpp); the problem page saves   *)
(* the list it has read before, with the review of one problem in it       *)
(* (ui_state.cpp).  Loading and saving are transactions of their own.      *)
(*                                                                         *)
(* A save removes the backup, writes and checks a temporary file, renames  *)
(* the primary to the backup and the temporary file to the primary; it may *)
(* fail or be cut at each of them.  A load falls back on the backup and    *)
(* leaves it there, so after a cut between the renames the next save       *)
(* begins with removing all there is.  A set of pages stands for a file,   *)
(* {} for none.                                                            *)
(***************************************************************************)
EXTENDS Integers, FiniteSets

CONSTANT ControlFaults  \* failed operations on files and keys, unreadable tokens and caches

VARIABLES
    cache,      \* the two files, primary and backup
    cacheJob,   \* the save under way: for whom, its next operation, what it saves, and the
                \* pages that are in no file until it is through (history)
    merge,      \* MergeProblemCache: how far it is, its list, what it could not read (history)
    uiList,     \* UiState.problems
    cacheLost,  \* pages that were lost from the files (history)
    controlFaults

cacheVars == <<cache, cacheJob, merge, uiList, cacheLost>>

NoSave == [by |-> "nobody", step |-> "none", list |-> {}, risk |-> {}]
NoMerge == [at |-> "none", list |-> {}, missed |-> {}]

CacheInit ==
    /\ cache = [primary |-> {}, backup |-> {}] /\ cacheJob = NoSave /\ merge = NoMerge
    /\ uiList = {} /\ cacheLost = {} /\ controlFaults = 0

StorageFault == controlFaults < ControlFaults /\ controlFaults' = controlFaults + 1

\* Load: the primary, or else the backup, which is not restored.
Held == IF cache.primary # {} THEN cache.primary ELSE cache.backup

\* What is read when a file is unreadable: the primary, or all there is.
Misread == {{}} \union IF cache.primary # {} THEN {cache.backup} ELSE {}

--------------------------------------------------------------------------------
(* Saving: the transaction of either task. *)

BeginSave(by, list) ==
    cacheJob = NoSave /\ cacheJob' = [by |-> by, step |-> "drop", list |-> list, risk |-> {}]

SaveEnds(result) ==
    /\ cacheJob' = NoSave
    /\ merge' = IF cacheJob.by = "sync" THEN [merge EXCEPT !.at = result] ELSE merge

\* Mutant of DropBackup: the primary is removed as well.
DropBoth == [primary |-> {}, backup |-> {}]

DropBackup == [cache EXCEPT !.backup = {}]

\* The temporary file is written before; a primary that is not there is not renamed.
KeepPrimary ==
    IF cache.primary = {} THEN cache ELSE [primary |-> {}, backup |-> cache.primary]

\* What a list that comes to lie in the primary does not have: the page has read it long ago,
\* the merge has read what it could.
Overwritten ==
    (IF cacheJob.by = "ui" THEN Held \union cacheJob.risk ELSE merge.missed) \ cacheJob.list

SaveProceeds ==
    /\ \/ /\ cacheJob.step = "drop" /\ cache' = DropBackup
          /\ cacheJob' = [cacheJob EXCEPT !.step = "keep",
                                          !.risk = IF cache.primary = {} THEN cache.backup ELSE {}]
          /\ UNCHANGED <<merge, cacheLost>>
       \/ /\ cacheJob.step = "keep" /\ cache' = KeepPrimary
          /\ cacheJob' = [cacheJob EXCEPT !.step = "put"]
          /\ UNCHANGED <<merge, cacheLost>>
       \/ /\ cacheJob.step = "put" /\ cache' = [cache EXCEPT !.primary = cacheJob.list]
          /\ SaveEnds("saved") /\ cacheLost' = cacheLost \union Overwritten
    /\ UNCHANGED <<uiList, controlFaults>>

\* When the last rename fails the primary is brought back, which may fail as well.
SaveFails ==
    /\ cacheJob.step # "none" /\ StorageFault /\ SaveEnds("failed")
    /\ \/ UNCHANGED cache
       \/ cacheJob.step = "put" /\ cache.backup # {} /\ cache.primary = {}
          /\ cache' = [primary |-> cache.backup, backup |-> {}]
    /\ cacheLost' = cacheLost \union cacheJob.risk
    /\ UNCHANGED uiList

--------------------------------------------------------------------------------
(* What the tasks do with it. *)

\* Reads; what cannot be read counts for nothing.  Saves if a problem of the page is new or has
\* changed.
MergeProblemCache(page) ==
    /\ \/ /\ merge.at = "none" /\ cacheJob = NoSave
          /\ \/ merge' = [at |-> "read", list |-> Held, missed |-> {}] /\ UNCHANGED controlFaults
             \/ /\ StorageFault
                /\ \E list \in Misread :
                      merge' = [at |-> "read", list |-> list, missed |-> Held \ list]
          /\ UNCHANGED cacheJob
       \/ /\ merge.at = "read" /\ page \in merge.list /\ merge' = [merge EXCEPT !.at = "saved"]
          /\ UNCHANGED <<cacheJob, controlFaults>>
       \/ /\ merge.at = "read" /\ BeginSave("sync", merge.list \union {page})
          /\ merge' = [merge EXCEPT !.at = "saving", !.list = @ \union {page}]
          /\ UNCHANGED controlFaults
    /\ UNCHANGED <<cache, uiList, cacheLost>>

MergeOver(result) ==
    merge.at = result /\ merge' = NoMerge /\ UNCHANGED <<cache, cacheJob, uiList, cacheLost>>

\* LoadUiState, at the start and every minute: an error leaves the list as it is.
LoadUiState ==
    /\ cacheJob = NoSave
    /\ \/ uiList' = Held /\ UNCHANGED controlFaults
       \/ /\ StorageFault /\ cache.primary # {} /\ cache.backup # {} /\ uiList' = cache.backup
    /\ UNCHANGED <<cache, cacheJob, merge, cacheLost>>

\* The page waits for the result, and only logs it.
QueueSelectedReview ==
    /\ uiList # {} /\ BeginSave("ui", uiList)
    /\ UNCHANGED <<cache, merge, uiList, cacheLost, controlFaults>>

\* A save is cut, the lists in memory are gone.  The start clears files none of which it can read
\* (MigrateLegacyProblemCache).
CacheCut ==
    /\ cacheJob' = NoSave /\ merge' = NoMerge /\ uiList' = {}
    /\ \/ /\ cacheLost' = cacheLost \union cacheJob.risk
          /\ UNCHANGED <<cache, controlFaults>>
       \/ /\ Held # {} /\ StorageFault /\ cache' = [primary |-> {}, backup |-> {}]
          /\ cacheLost' = cacheLost \union cacheJob.risk \union Held
================================================================================
