------------------------------- MODULE SyncProofs -------------------------------
(***************************************************************************)
(* Proofs about the tasks that talk with the server: the rounds of the     *)
(* sync task (SyncService), for any journals, any size of a batch and any  *)
(* number of records and events; the identity and checkpoint it keeps      *)
(* (DeviceControl), for any number of claims, pages, faults and power      *)
(* losses; the spoken dialogue (FlashSession), for any number of gestures, *)
(* blocks of audio and failures.                                           *)
(*                                                                         *)
(* Rounds.  NothingForgotten speaks of a task that waits; its invariant    *)
(* follows the round that made it wait: a journal the batch has left is    *)
(* accounted for (Settled) from then to the next round.                    *)
(*                                                                         *)
(* Identity.  An id names one request because nothing that goes into the   *)
(* request changes while the id is kept: a round without a token forgets   *)
(* everything (Unclaimed), and everything in memory otherwise belongs to   *)
(* the token in NVS or to the last one there was (Claimed), although a     *)
(* 401 of another task may erase NVS at any moment.  The cursor is behind  *)
(* the cache because every checkpoint is: the one in memory, the one an    *)
(* answer carried, the one the server has been told (Cached).  What was in *)
(* a file once is Known from then on: no operation of a save and no list   *)
(* takes it out without its being put down (CacheInv).                     *)
(*                                                                         *)
(* Dialogue.  A client exists only while the session or a stop that        *)
(* detached it names it (ClientsSound), and recording goes on under the    *)
(* key alone (KeySound), so the sequence cannot restart before the first   *)
(* block of a turn on an open session (TurnsSound).  A turn that may still *)
(* get a row has words of its user with none behind them (HistorySound).   *)
(* Without a failure only the UI task stops a session, a whole one, and a  *)
(* response under way is known to it (Faultless).                          *)
(***************************************************************************)
EXTENDS SyncService, DeviceControl, FlashSession, FiniteSetTheorems, SequenceTheorems, TLAPS

-------------------------------------------------------------------------------
(* The rounds *)


States == {"drained", "pending", "yielded", "failed"}

Typed ==
    /\ pc \in {"wait", "begin"} \cup Stages
    /\ lane \in 1..Len(Lanes)
    /\ outbox \in [Domains -> Int]
    /\ retry \in [Domains -> {"none", "deferred", "due"}]
    /\ last \in [Domains -> States]
    /\ synced \in BOOLEAN

\* Somebody will upload the records of a journal, or the round has given it up.
Cared(d) == outbox[d] = 0 \/ unreported \/ timer \/ notified \/ last[d] = "failed"

\* What is known of a journal once its batch is over.
Settled(d) == Cared(d) \/ last[d] \in {"pending", "yielded"}

Batches ==
    /\ pc = "upload" => \A i \in 1..Len(Lanes) : i < lane => Settled(Lanes[i])
    /\ pc = "content" => \A d \in Domains : Settled(d)
    /\ pc = "wait" /\ wait = {} /\ synced => \A d \in Domains : Cared(d)

IInv == Typed /\ Batches /\ RoundsKeepAwake
--------------------------------------------------------------------------------
\* Every lane is that of a journal.
LEMMA LaneDomains ==
    /\ Len(Lanes) \in Nat /\ Len(Lanes) >= 1
    /\ \A i \in 1..Len(Lanes) : Lanes[i] \in Domains
    /\ \A d \in Domains : \E i \in 1..Len(Lanes) : Lanes[i] = d
<1>1. Lanes \in Seq(Domains) /\ Lanes # <<>>
  BY ServiceAssumption
<1>2. Len(Lanes) \in Nat /\ Len(Lanes) >= 1 /\ DOMAIN Lanes = 1..Len(Lanes)
  BY <1>1
<1> QED BY <1>2 DEF Domains

\* A round that ends well leaves every journal with somebody who cares, or the task
\* with a wait that ends.
LEMMA RoundEnds ==
    ASSUME NEW ok \in BOOLEAN, NEW asked \in BOOLEAN, EndRound(ok, asked), Typed,
           retry' \in [Domains -> {"none", "deferred", "due"}],
           outbox' \in [Domains -> Int],
           last' \in [Domains -> States],
           ok => \A d \in Domains : /\ \/ outbox'[d] = 0 \/ unreported' \/ timer \/ notified'
                                       \/ last'[d] \in {"failed", "pending", "yielded"}
    PROVE  Typed' /\ Batches' /\ RoundsKeepAwake'
<1>1. pc' = "wait" /\ synced' = ok /\ lane' = 1
  BY DEF EndRound, NoBatch
<1>2. Typed'
  BY <1>1, LaneDomains DEF Typed
<1>3. ASSUME ok, wait' = {}, NEW d \in Domains
      PROVE  Cared(d)'
  <2>1. CASE Ended("yielded")
    <3>1. timer'
      BY <2>1, <1>3 DEF EndRound, ResumeAfterYield
    <3> QED BY <3>1 DEF Cared
  <2>2. CASE ~Ended("yielded") /\ Ended("pending")
    <3>1. wait' # {}
      BY <2>2 DEF EndRound
    <3> QED BY <3>1, <1>3
  <2>3. CASE ~Ended("yielded") /\ ~Ended("pending")
    <3>1. last'[d] \notin {"pending", "yielded"} /\ timer' = timer
      BY <2>3 DEF EndRound, Ended
    <3> QED BY <3>1, <1>3 DEF Cared
  <2> QED BY <2>1, <2>2, <2>3
<1>4. Batches'
  BY <1>1, <1>3 DEF Batches
<1>5. RoundsKeepAwake'
  BY <1>1 DEF RoundsKeepAwake, Stages
<1> QED BY <1>2, <1>4, <1>5

\* A batch that ends in a state leaves its journal settled.
LEMMA BatchEnds ==
    ASSUME IInv, pc = "upload", NEW state \in States, EndBatch(state),
           retry' \in [Domains -> {"none", "deferred", "due"}],
           outbox' = outbox, unreported' = unreported, quiescing' = quiescing,
           notified => notified',
           state = "drained" => outbox[Domain] = 0
    PROVE  IInv'
<1>1. Domain \in Domains /\ lane \in 1..Len(Lanes)
  BY LaneDomains DEF IInv, Typed, Domain
<1>2. /\ last' = [last EXCEPT ![Domain] = state] /\ last' \in [Domains -> States]
      /\ last'[Domain] = state /\ \A d \in Domains \ {Domain} : last'[d] = last[d]
  BY <1>1 DEF EndBatch, IInv, Typed
<1>3. \A i \in 1..Len(Lanes) : i < lane + 1 =>
         \/ outbox'[Lanes[i]] = 0 \/ unreported' \/ timer \/ notified'
         \/ last'[Lanes[i]] \in {"failed", "pending", "yielded"}
  <2> SUFFICES ASSUME NEW i \in 1..Len(Lanes), i < lane + 1
               PROVE  \/ outbox'[Lanes[i]] = 0 \/ unreported' \/ timer \/ notified'
                      \/ last'[Lanes[i]] \in {"failed", "pending", "yielded"}
    OBVIOUS
  <2>1. CASE Lanes[i] = Domain
    BY <2>1, <1>2 DEF States
  <2>2. CASE Lanes[i] # Domain
    <3>1. i # lane
      BY <2>2 DEF Domain
    <3>2. i < lane /\ Lanes[i] \in Domains
      BY <3>1, <1>1, LaneDomains
    <3> QED BY <3>2, <2>2, <1>2 DEF IInv, Batches, Settled, Cared
  <2> QED BY <2>1, <2>2
<1>4. CASE lane < Len(Lanes)
  <2>1. /\ lane' = lane + 1 /\ pc' = "upload" /\ timer' = timer /\ synced' = synced
    BY <1>4 DEF EndBatch
  <2>2. Typed'
    BY <2>1, <1>1, <1>2, <1>4, LaneDomains DEF IInv, Typed
  <2> QED BY <2>1, <2>2, <1>3 DEF IInv, Batches, Settled, Cared, RoundsKeepAwake, Stages
<1>5. CASE ~(lane < Len(Lanes))
  <2>1. \A d \in Domains :
           \/ outbox'[d] = 0 \/ unreported' \/ timer \/ notified'
           \/ last'[d] \in {"failed", "pending", "yielded"}
    BY <1>1, <1>3, <1>5, LaneDomains
  <2>2. CASE scope = "outbox"
    <3>1. EndRound(~Ended("failed"), FALSE)
      BY <2>2, <1>5 DEF EndBatch
    <3> QED BY <3>1, <2>1, <1>2, RoundEnds DEF IInv, Typed
  <2>3. CASE scope # "outbox"
    <3>1. pc' = "content" /\ lane' = 1 /\ timer' = timer /\ synced' = synced
      BY <2>3, <1>5 DEF EndBatch, NoBatch
    <3>2. Typed'
      BY <3>1, <1>2, LaneDomains DEF IInv, Typed, Stages
    <3> QED BY <3>1, <3>2, <2>1 DEF IInv, Batches, Settled, Cared, RoundsKeepAwake, Stages
  <2> QED BY <2>2, <2>3
<1> QED BY <1>4, <1>5

\* A record that leaves its journal keeps the invariant.
LEMMA HeadLeaves ==
    ASSUME IInv, Uploading, HeadReady, HeadDone, unreported' = unreported,
           quiescing' = quiescing, notified => notified'
    PROVE  IInv'
<1>1. Domain \in Domains /\ outbox[Domain] > 0 /\ pc = "upload"
  BY LaneDomains DEF IInv, Typed, Domain, Uploading, HeadReady
<1>2. /\ outbox' \in [Domains -> Int] /\ \A d \in Domains \ {Domain} : outbox'[d] = outbox[d]
      /\ retry' \in [Domains -> {"none", "deferred", "due"}]
      /\ timer' = timer /\ pc' = pc /\ wait' = wait /\ synced' = synced /\ last' = last
      /\ lane' = lane /\ outbox[Domain] # 0
  BY <1>1 DEF HeadDone, IInv, Typed
<1> HIDE DEF Domain
<1>3. Typed'
  BY <1>2 DEF IInv, Typed
<1>4. \A i \in 1..Len(Lanes) : i < lane => Settled(Lanes[i])'
  BY <1>1, <1>2, LaneDomains DEF IInv, Batches, Settled, Cared
<1> QED BY <1>1, <1>2, <1>3, <1>4 DEF IInv, Batches, RoundsKeepAwake, Stages

\* The invariant holds in every state.
LEMMA Inductive ==
    Spec => []IInv
<1>1. Init => IInv
  <2> SUFFICES ASSUME Init PROVE IInv
    OBVIOUS
  <2>1. Typed
    <3>1. /\ pc \in {"begin", "wait"} /\ synced = FALSE /\ lane = 1
          /\ retry = [d \in Domains |-> "none"] /\ last = [d \in Domains |-> "drained"]
          /\ outbox = [d \in Domains |-> 0]
      BY DEF Init, FirstPc
    <3>2. 1 \in 1..Len(Lanes)
      BY LaneDomains
    <3>3. pc \in {"wait", "begin"} \cup Stages /\ synced \in BOOLEAN /\ lane \in 1..Len(Lanes)
      BY <3>1, <3>2
    <3>4. outbox \in [Domains -> Int] /\ retry \in [Domains -> {"none", "deferred", "due"}]
      BY <3>1
    <3>5. last \in [Domains -> States]
      BY <3>1 DEF States
    <3> QED BY <3>3, <3>4, <3>5 DEF Typed
  <2> QED BY <2>1 DEF Init, IInv, FirstPc, Batches, RoundsKeepAwake, Stages
<1>2. IInv /\ [Next]_vars => IInv'
  <2> SUFFICES ASSUME IInv, [Next]_vars PROVE IInv'
    OBVIOUS
  <2> USE DEF IInv
  <2>1. CASE Wake \/ Denied \/ BeginFull \/ BeginOutboxOnly
    <3>1. /\ UNCHANGED <<lane, outbox, retry, last, synced, quiescing>>
          /\ \/ pc' = "begin"
             \/ pc' = "wait" /\ wait' # {}
             \/ pc' \in {"control", "identify"} /\ ~quiescing
      BY <2>1 DEF Wake, Denied, BeginFull, BeginOutboxOnly, Leased, batch, device
    <3> QED BY <3>1 DEF Typed, Batches, RoundsKeepAwake, Stages
  <2>2. CASE Timeout
    BY <2>2 DEF Timeout, flags, batch, device, Typed, Batches, RoundsKeepAwake, Stages
  <2>3. CASE Identify
    <3>1. CASE token
      <4>1. pc' = "upload" /\ lane' = 1 /\ pc = "identify"
            /\ UNCHANGED <<outbox, retry, last, synced, quiescing>>
        BY <2>3, <3>1 DEF Identify, NoBatch, device
      <4> QED BY <4>1, LaneDomains DEF Typed, Batches, RoundsKeepAwake, Stages
    <3>2. CASE ~token
      <4>1. EndRound(FALSE, FALSE) /\ outbox' = outbox /\ retry' = retry
            /\ last' = [last EXCEPT ![Lanes[1]] = "pending"]
        BY <2>3, <3>2 DEF Identify
      <4>2. last' \in [Domains -> States]
        BY <4>1 DEF Typed, States
      <4> QED BY <4>1, <4>2, RoundEnds DEF Typed
    <3> QED BY <3>1, <3>2
  <2>4. CASE ClaimApproved
    BY <2>4 DEF ClaimApproved, TokenChanged, batch, device, Typed, Batches, RoundsKeepAwake, Stages
  <2>5. CASE ControlDone
    <3>1. pc' = "upload" /\ lane' = 1 /\ pc = "control"
          /\ UNCHANGED <<outbox, retry, last, synced, quiescing>>
      BY <2>5 DEF ControlDone, NoBatch, device
    <3> QED BY <3>1, LaneDomains DEF Typed, Batches, RoundsKeepAwake, Stages
  <2>6. CASE ContentDone
    <3>1. /\ EndRound(TRUE, FALSE) /\ pc = "content"
          /\ UNCHANGED <<outbox, retry, last, unreported, notified>>
      BY <2>6 DEF ContentDone
    <3>2. \A d \in Domains : Settled(d)
      BY <3>1 DEF Batches
    <3> QED BY <3>1, <3>2, RoundEnds DEF Typed, Settled, Cared
  <2>7. CASE StageFails \/ StageUnauthorized
    <3>1. PICK asked \in BOOLEAN : EndRound(FALSE, asked) /\ UNCHANGED <<outbox, retry, last>>
      BY <2>7 DEF StageFails, StageUnauthorized
    <3> QED BY <3>1, RoundEnds DEF Typed
  <2>8. CASE Yield \/ BatchOver \/ PeekEndsBatch
    <3>1. PICK state \in States :
             /\ EndBatch(state) /\ pc = "upload"
             /\ UNCHANGED <<outbox, unreported, quiescing, notified>>
             /\ state = "drained" => outbox[Domain] = 0
      BY <2>8 DEF Yield, BatchOver, PeekEndsBatch, Uploading, States, device
    <3>2. retry' \in [Domains -> {"none", "deferred", "due"}]
      BY <2>8 DEF Yield, BatchOver, PeekEndsBatch, Typed
    <3> QED BY <3>1, <3>2, BatchEnds
  <2>9. CASE Applied \/ AcknowledgeFails \/ Unavailable \/ Refused \/ Unauthorized
    <3>1. /\ Uploading /\ HeadReady /\ pc = "upload" /\ UNCHANGED <<unreported, quiescing>>
          /\ notified => notified'
      BY <2>9 DEF Applied, AcknowledgeFails, Unavailable, Refused, Unauthorized, Sending,
         Uploading, device, TokenChanged
    <3>2. CASE HeadDone
      BY <3>1, <3>2, HeadLeaves
    <3>3. CASE ~HeadDone
      <4>1. PICK state \in {"pending", "failed"} : EndBatch(state) /\ outbox' = outbox
        BY <2>9, <3>3 DEF Applied, AcknowledgeFails, Unavailable, Refused, Unauthorized,
           HeadDeferred
      <4>2. retry' \in [Domains -> {"none", "deferred", "due"}]
        BY <2>9, <3>3 DEF Applied, AcknowledgeFails, Unavailable, Refused, Unauthorized,
           HeadDeferred, Typed
      <4> QED BY <3>1, <4>1, <4>2, BatchEnds DEF States
    <3> QED BY <3>2, <3>3
  <2>10. ASSUME NEW d \in Domains, Commit(d)
         PROVE  IInv'
    BY <2>10 DEF Commit, flags, batch, Typed, Batches, Settled, Cared, RoundsKeepAwake, Stages
  <2>11. ASSUME NEW d \in Domains, BackoffEnds(d)
         PROVE  IInv'
    BY <2>11 DEF BackoffEnds, flags, batch, device, Typed, Batches, Settled, Cared,
       RoundsKeepAwake, Stages
  <2>12. CASE Report \/ TimerFires \/ NoteInteraction \/ RequestSyncNow
    BY <2>12 DEF Report, RequestOutboxUpload, TimerFires, NoteInteraction, RequestSyncNow, flags,
       batch, device, Typed, Batches, Settled, Cared, RoundsKeepAwake, Stages
  <2>13. CASE TryBeginSleepQuiesce \/ CancelSleepQuiesce
    BY <2>13 DEF TryBeginSleepQuiesce, CancelSleepQuiesce, flags, batch, Typed, Batches, Settled,
       Cared, RoundsKeepAwake, Stages
  <2>14. CASE Boot
    <3>1. pc' \in {"begin", "wait"} /\ lane' = 1 /\ synced' = FALSE /\ outbox' = outbox
          /\ retry' = [d \in Domains |-> "none"] /\ last' = [d \in Domains |-> "drained"]
      BY <2>14 DEF Boot, FirstPc, NoBatch
    <3>2. Typed'
      <4>1. 1 \in 1..Len(Lanes)
        BY LaneDomains
      <4> QED BY <3>1, <4>1 DEF Typed, States
    <3> QED BY <3>1, <3>2 DEF Batches, RoundsKeepAwake, Stages
  <2>15. CASE UNCHANGED vars
    BY <2>15 DEF vars, flags, batch, device, Typed, Batches, Settled, Cared, RoundsKeepAwake
  <2> QED BY <2>1, <2>2, <2>3, <2>4, <2>5, <2>6, <2>7, <2>8, <2>9, <2>10, <2>11, <2>12, <2>13,
             <2>14, <2>15 DEF Next, Round, Server
<1> QED BY <1>1, <1>2, PTL DEF Spec

\* The task never talks to the server while the device falls asleep, and after a round
\* that succeeded it never waits for nothing with a record to upload, whatever the
\* journals, the size of a batch and the interleaving with the pages and the timer.
THEOREM RoundsAreSound ==
    Spec => []RoundsSound
<1>1. IInv => RoundsSound
  BY DEF IInv, RoundsSound, NothingForgotten, Parked, Batches, Cared
<1> QED BY <1>1, Inductive, PTL

-------------------------------------------------------------------------------
(* Identity and checkpoint *)

Owners == 0..MaxClaims
Checkpoints == [owner : Owners, page : 0..Pages]

\* A round that has read a token.
Informed == {"reload", "bootstrap", "bootstrapped", "bootstrapSaved", "sync", "fetch", "merge",
             "save", "saved", "refresh", "index", "file", "clear", "clearing"}
\* One that got past the bootstrap, and one that has not.
AfterBootstrap == {"reload", "sync", "fetch", "merge", "save", "saved", "refresh", "index",
                   "file"}
BeforeBootstrap == {"bootstrap", "bootstrapped", "bootstrapSaved"}
\* One that found no token.
Claimless == {"start", "poll", "approved", "tokenSaved"}

Erasures == { <<"token", 0>>, <<"revision", Absent>>, <<"cursor", Absent>> }

\* What the transaction under way may write.
Writes ==
    IF storageJob.by = "sync" /\ round.pc = "tokenSaved" THEN { <<"token", key>> }
    ELSE IF storageJob.by = "sync" /\ round.pc \in {"bootstrapSaved", "saved"}
    THEN { <<"revision", round.answer>>, <<"cursor", round.answer>> }
    ELSE Erasures

ControlTyped ==
    /\ nvs \in [token : Owners, revision : Checkpoints \cup {Absent},
                cursor : Checkpoints \cup {Absent}]
    /\ ram \in [loaded : BOOLEAN, revision : Checkpoints, cursor : Checkpoints,
                bootstrapped : BOOLEAN]
    /\ round \in [pc : {"idle", "claim", "load"} \cup Claimless \cup Informed, token : Owners,
                  answer : Checkpoints]
    /\ DOMAIN bodies = Kinds
    /\ key \in Owners /\ keys \in Owners
    /\ reported \in [Tokens -> 0..Pages]

\* The storage task works for one caller, and the sync task waits for it.
Waited ==
    /\ storageJob.by \in {"nobody", "sync", "other"} /\ storageJob.ok \in BOOLEAN
    /\ storageJob.todo \in Seq(Writes)
    /\ storageJob.by = "nobody" => storageJob = NoWrites
    /\ storageJob.by = "sync" => round.pc \in {"tokenSaved", "bootstrapSaved", "saved", "clearing"}

\* Without a token nothing is left of the checkpoint and of the ids in memory.
Unclaimed ==
    /\ ~ram.loaded => round.pc = "idle" /\ \A kind \in Kinds : bodies[kind] = {}
    /\ round.pc \in Claimless =>
          ram = Forgotten /\ bodies["bootstrap"] = {} /\ bodies["sync"] = {}
    /\ bodies["start"] # {} =>
          /\ bodies["start"] = { <<key, NoCheckpoint, NoCheckpoint>> }
          /\ ram = Forgotten
          /\ round.pc \in {"idle", "claim"} \cup Claimless

\* All that is kept in memory belongs to the token in NVS, or to the last one.
OfToken(t) == nvs.token \in {0, t} /\ (round.pc \in Informed => round.token = t)

Claimed ==
    /\ round.pc \in Informed => round.token # 0 /\ nvs.token \in {0, round.token}
    /\ round.pc \in AfterBootstrap => ram.bootstrapped
    /\ round.pc \in BeforeBootstrap => ~ram.bootstrapped
    /\ ram.bootstrapped => ram.loaded /\ ram.revision = ram.cursor /\ OfToken(ram.cursor.owner)
    /\ \A kind \in {"bootstrap", "sync"} : \A b \in bodies[kind] :
          /\ b = [token |-> b.token, revision |-> ram.revision, cursor |-> ram.cursor]
          /\ OfToken(b.token)
          /\ \A c \in bodies[kind] : b = c
    /\ bodies["bootstrap"] # {} => ~ram.bootstrapped
    /\ bodies["sync"] # {} => ram.bootstrapped
    /\ \A b \in bodies["sync"] : b.token = ram.cursor.owner

\* What is in a file, or in none until the save under way is through, or is lost.
Known == Held \cup cacheJob.risk \cup cacheLost

\* Every checkpoint is one the cache has kept up with.
Behind(owner, page) == \A p \in 1..page : <<owner, p>> \in Known

Cached ==
    /\ Behind(nvs.cursor.owner, nvs.cursor.page)
    /\ Behind(ram.cursor.owner, ram.cursor.page)
    /\ \A t \in Tokens : Behind(t, reported[t])
    /\ round.pc \in {"bootstrapped", "bootstrapSaved", "save", "saved"} =>
          round.answer.owner = round.token /\ Behind(round.token, round.answer.page)
    /\ round.pc \in {"fetch", "merge"} =>
          round.answer.owner = round.token /\ round.answer.page = ram.cursor.page + 1
    /\ merge.at # "none" => round.pc \in {"merge", "file"}
    /\ merge.at \in {"saving", "saved"} => <<round.token, round.answer.page>> \in merge.list

ControlInv == ControlTyped /\ Waited /\ Unclaimed /\ Claimed /\ Cached

-------------------------------------------------------------------------------
(* Storage *)

\* The files, their save and the two lists.  The backup never has what is not known otherwise; a
\* list that is saved has all that is known but what its task could not read, or the list of the
\* page, what came since.
CacheInv ==
    /\ cache = [primary |-> cache.primary, backup |-> cache.backup]
    /\ cacheJob = [by |-> cacheJob.by, step |-> cacheJob.step, list |-> cacheJob.list,
                   risk |-> cacheJob.risk]
    /\ merge = [at |-> merge.at, list |-> merge.list, missed |-> merge.missed]
    /\ cacheJob.by \in {"nobody", "ui", "sync"}
    /\ cacheJob.step = "none" <=> cacheJob.by = "nobody"
    /\ cacheJob.by = "nobody" => cacheJob = NoSave
    /\ cacheJob.by # "nobody" => cacheJob.list # {}
    /\ cacheJob.step = "drop" => cacheJob.risk = {}
    /\ cacheJob.by = "sync" <=> merge.at = "saving"
    /\ cacheJob.by = "sync" => cacheJob.list = merge.list
    /\ cacheJob.by = "ui" => cacheJob.list = uiList
    /\ cache.backup \subseteq Known
    /\ uiList \subseteq Known
    /\ merge.at \in {"read", "saving"} =>
          Known \subseteq merge.list \cup merge.missed \cup cacheLost
    /\ merge.at \in {"read", "saved"} => merge.list \subseteq Known

\* Who leaves the files and their save alone leaves what is known.
LEMMA KnownKept ==
    ASSUME UNCHANGED cacheVars
    PROVE  UNCHANGED <<Known, merge>> /\ (CacheInv => CacheInv')
BY DEF cacheVars, Known, Held, CacheInv

\* No operation of a save loses what it does not put down as lost.
LEMMA SaveProceedsKeeps ==
    ASSUME CacheInv, SaveProceeds
    PROVE  CacheInv' /\ Known \subseteq Known'
<1>1. CASE cacheJob.step = "drop"
  BY <1>1 DEF CacheInv, SaveProceeds, DropBackup, Known, Held
<1>2. CASE cacheJob.step = "keep"
  BY <1>2 DEF CacheInv, SaveProceeds, KeepPrimary, Known, Held
<1>3. CASE cacheJob.step = "put"
  <2>1. CASE cacheJob.by = "ui"
    BY <1>3, <2>1 DEF CacheInv, SaveProceeds, SaveEnds, Overwritten, Known, Held, NoSave
  <2>2. CASE cacheJob.by = "sync"
    BY <1>3, <2>2 DEF CacheInv, SaveProceeds, SaveEnds, Overwritten, Known, Held, NoSave
  <2> QED BY <1>3, <2>1, <2>2 DEF CacheInv
<1> QED BY <1>1, <1>2, <1>3 DEF SaveProceeds

\* A save that fails puts down what it has taken out of the files.
LEMMA SaveFailsKeeps ==
    ASSUME CacheInv, SaveFails
    PROVE  CacheInv' /\ Known \subseteq Known'
<1>1. /\ cacheJob' = NoSave /\ cacheLost' = cacheLost \cup cacheJob.risk /\ Held' = Held
      /\ cache' = [primary |-> cache'.primary, backup |-> cache'.backup]
      /\ cache'.backup \subseteq cache.backup /\ uiList' = uiList
  BY DEF SaveFails, SaveEnds, Held, CacheInv
<1>2. Known' = Known
  BY <1>1 DEF Known, NoSave
<1>3. /\ merge' = [at |-> merge'.at, list |-> merge'.list, missed |-> merge'.missed]
      /\ merge'.list = merge.list /\ merge'.missed = merge.missed
      /\ merge'.at = IF cacheJob.by = "sync" THEN "failed" ELSE merge.at
  BY DEF SaveFails, SaveEnds, CacheInv
<1> QED BY <1>1, <1>2, <1>3 DEF CacheInv, NoSave

\* What a task reads is known, and what it does not read is put down.
LEMMA ReadersKeep ==
    ASSUME CacheInv, LoadUiState \/ QueueSelectedReview
                     \/ \E page : MergeProblemCache(page)
    PROVE  CacheInv' /\ Known \subseteq Known'
<1>1. CASE LoadUiState
  BY <1>1 DEF CacheInv, LoadUiState, Known, Held, NoSave
<1>2. CASE QueueSelectedReview
  BY <1>2 DEF CacheInv, QueueSelectedReview, BeginSave, Known, Held, NoSave
<1>3. ASSUME NEW page, MergeProblemCache(page)
      PROVE  CacheInv' /\ Known \subseteq Known'
  <2>1. UNCHANGED <<cache, uiList, cacheLost>>
    BY <1>3 DEF MergeProblemCache
  <2>2. CASE merge.at = "none" /\ cacheJob = NoSave
    <3>1. /\ merge'.at = "read" /\ UNCHANGED cacheJob
          /\ merge' = [at |-> merge'.at, list |-> merge'.list, missed |-> merge'.missed]
          /\ merge'.list \in {Held} \cup Misread /\ Held \subseteq merge'.list \cup merge'.missed
      BY <1>3, <2>2 DEF MergeProblemCache, Held
    <3> QED BY <2>1, <2>2, <3>1 DEF CacheInv, Known, Held, Misread, NoSave
  <2>3. CASE merge.at = "read" /\ merge' = [merge EXCEPT !.at = "saved"] /\ UNCHANGED cacheJob
    BY <2>1, <2>3 DEF CacheInv, Known, Held
  <2>4. CASE /\ merge.at = "read" /\ BeginSave("sync", merge.list \cup {page})
             /\ merge' = [merge EXCEPT !.at = "saving", !.list = @ \cup {page}]
    BY <2>1, <2>4 DEF CacheInv, BeginSave, Known, Held, NoSave
  <2> QED BY <1>3, <2>2, <2>3, <2>4 DEF MergeProblemCache
<1> QED BY <1>1, <1>2, <1>3

\* So does a power loss, and a merge that is over leaves nothing.
LEMMA CacheEnds ==
    ASSUME CacheInv, CacheCut \/ \E result \in {"saved", "failed"} : MergeOver(result)
    PROVE  CacheInv' /\ Known \subseteq Known'
<1>1. CASE CacheCut
  BY <1>1 DEF CacheInv, CacheCut, Known, Held, NoSave, NoMerge
<1>2. ASSUME NEW result \in {"saved", "failed"}, MergeOver(result)
      PROVE  CacheInv' /\ Known \subseteq Known'
  BY <1>2 DEF CacheInv, MergeOver, Known, Held, NoMerge
<1> QED BY <1>1, <1>2

\* Nothing is a value like others.
LEMMA NothingFits ==
    0 \in Owners /\ NoCheckpoint \in Checkpoints /\ Forgotten.loaded
    /\ Forgotten \in [loaded : BOOLEAN, revision : Checkpoints, cursor : Checkpoints,
                      bootstrapped : BOOLEAN]
<1>1. MaxClaims \in Nat /\ Pages \in Nat
  BY ControlAssumption
<1>2. 0 \in Owners /\ 0 \in 0..Pages
  BY <1>1 DEF Owners
<1>3. NoCheckpoint \in Checkpoints
  BY <1>2 DEF Checkpoints, NoCheckpoint
<1> QED BY <1>2, <1>3 DEF Forgotten, FreshMemory

Waiting == {"tokenSaved", "bootstrapSaved", "saved", "clearing"}

\* A step that leaves the transaction alone, while the sync task waits for none.
LEMMA WaitedKept ==
    ASSUME Waited, storageJob' = storageJob, round.pc \notin Waiting
    PROVE  Waited'
<1>1. storageJob.by # "sync"
  BY DEF Waited, Waiting
<1>2. Writes' = Writes
  BY <1>1 DEF Writes, Erasures
<1> QED BY <1>1, <1>2 DEF Waited, NoWrites

\* A step that ends the transaction.
LEMMA WaitedOver ==
    ASSUME storageJob' = NoWrites
    PROVE  Waited'
<1>1. storageJob'.by = "nobody" /\ storageJob'.ok = TRUE /\ storageJob'.todo = <<>>
  BY DEF NoWrites
<1>2. <<>> \in Seq(Writes')
  OBVIOUS
<1> QED BY <1>1, <1>2 DEF Waited, NoWrites

\* What is unclaimed and claimed only depends on the token in NVS and on memory.
LEMMA StorageKeeps ==
    ASSUME ControlInv, StorageStep
    PROVE  ControlInv'
<1> DEFINE head == Head(storageJob.todo)
<1>1. /\ storageJob.todo \in Seq(Writes) /\ storageJob.todo # <<>>
      /\ UNCHANGED <<ram, bodies, key, claimActive, round, other, Known, merge, keys, reported>>
  BY KnownKept DEF ControlInv, Waited, StorageStep, sessionVars, serverVars
<1>2. head \in Writes /\ Tail(storageJob.todo) \in Seq(Writes)
  BY <1>1, HeadTailProperties
<1>3. storageJob.by # "nobody"
  BY <1>1 DEF ControlInv, Waited, NoWrites
<1>4. /\ storageJob'.by = storageJob.by /\ storageJob'.ok \in BOOLEAN
      /\ storageJob'.todo \in Seq(Writes)
  <2>1. CASE storageJob' = [storageJob EXCEPT !.todo = Tail(@)]
    BY <2>1, <1>2 DEF ControlInv, Waited
  <2>2. CASE storageJob' = [storageJob EXCEPT !.todo = <<>>, !.ok = FALSE]
    BY <2>2 DEF ControlInv, Waited
  <2> QED BY <2>1, <2>2 DEF StorageStep
<1>5. Writes' = Writes
  BY <1>1, <1>4 DEF Writes, Erasures
<1>6. Waited'
  BY <1>1, <1>3, <1>4, <1>5 DEF ControlInv, Waited
<1>7. CASE UNCHANGED nvs
  BY <1>1, <1>6, <1>7 DEF ControlInv, ControlTyped, Unclaimed, Claimed, OfToken, Cached, Behind
<1>8. CASE nvs' = [nvs EXCEPT ![head[1]] = head[2]]
  <2>1. CASE head = <<"token", key>> /\ round.pc = "tokenSaved"
    <3>1. nvs'.token = key /\ nvs'.revision = nvs.revision /\ nvs'.cursor = nvs.cursor
      BY <1>8, <2>1 DEF ControlInv, ControlTyped
    <3>2. ControlTyped'
      BY <1>1, <1>8, <2>1 DEF ControlInv, ControlTyped
    <3>3. Unclaimed' /\ Cached'
      BY <1>1, <3>1 DEF ControlInv, Unclaimed, Cached, Behind
    <3>4. Claimed'
      BY <1>1, <2>1, <3>1 DEF ControlInv, Unclaimed, Claimed, Claimless, Informed, AfterBootstrap,
         BeforeBootstrap, Forgotten, FreshMemory
    <3> QED BY <1>6, <3>2, <3>3, <3>4 DEF ControlInv
  <2>2. CASE head \in Erasures
    <3>1. /\ nvs' \in [token : Owners, revision : Checkpoints \cup {Absent},
                       cursor : Checkpoints \cup {Absent}]
          /\ nvs'.token \in {0, nvs.token}
          /\ nvs'.cursor \in {Absent, nvs.cursor}
      BY <1>8, <2>2, NothingFits DEF ControlInv, ControlTyped, Erasures
    <3>2. Behind(nvs.cursor.owner, nvs.cursor.page)'
      BY <1>1, <3>1 DEF ControlInv, Cached, Behind, Absent
    <3>3. ControlTyped'
      BY <1>1, <3>1 DEF ControlInv, ControlTyped
    <3>4. Unclaimed'
      BY <1>1 DEF ControlInv, Unclaimed
    <3>5. Claimed'
      BY <1>1, <3>1 DEF ControlInv, Claimed, OfToken
    <3>6. Cached'
      BY <1>1, <3>2 DEF ControlInv, Cached, Behind
    <3> QED BY <1>6, <3>3, <3>4, <3>5, <3>6 DEF ControlInv
  <2>3. CASE head \in {<<"revision", round.answer>>, <<"cursor", round.answer>>}
             /\ round.pc \in {"bootstrapSaved", "saved"}
    <3>1. /\ nvs' \in [token : Owners, revision : Checkpoints \cup {Absent},
                       cursor : Checkpoints \cup {Absent}]
          /\ nvs'.token = nvs.token
          /\ nvs'.cursor \in {round.answer, nvs.cursor}
      BY <1>8, <2>3 DEF ControlInv, ControlTyped
    <3>2. Behind(nvs.cursor.owner, nvs.cursor.page)'
      BY <1>1, <2>3, <3>1 DEF ControlInv, Cached, Behind
    <3>3. ControlTyped'
      BY <1>1, <3>1 DEF ControlInv, ControlTyped
    <3>4. Unclaimed'
      BY <1>1 DEF ControlInv, Unclaimed
    <3>5. Claimed'
      BY <1>1, <3>1 DEF ControlInv, Claimed, OfToken
    <3>6. Cached'
      BY <1>1, <3>2 DEF ControlInv, Cached, Behind
    <3> QED BY <1>6, <3>3, <3>4, <3>5, <3>6 DEF ControlInv
  <2> QED BY <1>2, <2>1, <2>2, <2>3 DEF Writes
<1> QED BY <1>7, <1>8 DEF StorageStep

\* A round may end anywhere: what it leaves is what memory and NVS hold.
LEMMA RoundOverKeeps ==
    ASSUME ControlInv, RoundOver, Waited',
           UNCHANGED <<nvs, ram, bodies, key, keys, Known, merge, reported>>,
           round.pc \notin {"merge", "file"}
    PROVE  ControlInv'
<1>1. round'.pc = "idle" /\ round' \in [pc : {"idle"}, token : Owners, answer : Checkpoints]
  BY NothingFits DEF RoundOver, NoRound
<1>2. ControlTyped'
  BY <1>1 DEF ControlInv, ControlTyped
<1>3. Unclaimed'
  BY <1>1 DEF ControlInv, Unclaimed, Claimless
<1>4. Claimed'
  BY <1>1 DEF ControlInv, Claimed, OfToken, Informed, AfterBootstrap, BeforeBootstrap
<1>5. Cached'
  BY <1>1 DEF ControlInv, Cached, Behind
<1> QED BY <1>2, <1>3, <1>4, <1>5 DEF ControlInv

-------------------------------------------------------------------------------
(* The claim *)

\* Half a checkpoint in NVS is none.
LEMMA BeginKeeps ==
    ASSUME ControlInv, BeginRound
    PROVE  ControlInv'
<1>1. /\ round.pc = "idle" /\ round' = [round EXCEPT !.pc = "claim"]
      /\ ram' = IF ram.loaded THEN ram ELSE Loaded
      /\ UNCHANGED <<nvs, storageJob, bodies, key, claimActive, other, Known, merge, keys,
                     reported>>
  BY KnownKept DEF BeginRound, RoundTo, serverVars
<1>2. round'.pc = "claim" /\ round'.token = round.token /\ round'.answer = round.answer
  BY <1>1 DEF ControlInv, ControlTyped
<1>3. CASE ram.loaded
  <2>1. ram' = ram
    BY <1>1, <1>3
  <2>2. ControlTyped'
    BY <1>1, <2>1 DEF ControlInv, ControlTyped
  <2>3. Waited'
    BY <1>1, WaitedKept DEF ControlInv, Waiting
  <2>4. Unclaimed'
    BY <1>1, <1>2, <1>3, <2>1 DEF ControlInv, Unclaimed, Claimless
  <2>5. Claimed'
    BY <1>1, <1>2, <2>1 DEF ControlInv, Claimed, OfToken, Informed, AfterBootstrap, BeforeBootstrap
  <2>6. Cached'
    BY <1>1, <1>2, <2>1 DEF ControlInv, Cached, Behind
  <2> QED BY <2>2, <2>3, <2>4, <2>5, <2>6 DEF ControlInv
<1>4. CASE ~ram.loaded
  <2>1. /\ ram' = Loaded /\ \A kind \in Kinds : bodies[kind] = {}
    BY <1>1, <1>4 DEF ControlInv, Unclaimed
  <2>2. /\ ram'.loaded = TRUE /\ ram'.bootstrapped = FALSE
        /\ ram'.cursor \in {NoCheckpoint, nvs.cursor}
    BY <2>1 DEF Loaded, FreshMemory
  <2>3. ram' \in [loaded : BOOLEAN, revision : Checkpoints, cursor : Checkpoints,
                  bootstrapped : BOOLEAN]
    BY <2>1, NothingFits DEF Loaded, FreshMemory, ControlInv, ControlTyped
  <2>4. ControlTyped'
    BY <1>1, <2>3 DEF ControlInv, ControlTyped
  <2>5. Waited'
    BY <1>1, WaitedKept DEF ControlInv, Waiting
  <2>6. Unclaimed'
    BY <1>1, <1>2, <2>1, <2>2 DEF ControlInv, ControlTyped, Unclaimed, Claimless, Kinds
  <2>7. Claimed'
    BY <1>1, <1>2, <2>1, <2>2 DEF ControlInv, ControlTyped, Claimed, OfToken, Informed,
       AfterBootstrap, BeforeBootstrap, Kinds
  <2>8. Cached'
    BY <1>1, <1>2, <2>2 DEF ControlInv, Cached, Behind, NoCheckpoint
  <2> QED BY <2>4, <2>5, <2>6, <2>7, <2>8 DEF ControlInv
<1> QED BY <1>3, <1>4

\* With a token the claim is over; without one nothing is remembered.
LEMMA ClaimRoundKeeps ==
    ASSUME ControlInv, RunDeviceClaimRound
    PROVE  ControlInv'
<1>1. /\ round.pc = "claim"
      /\ UNCHANGED <<nvs, storageJob, other, Known, merge, keys, reported>>
  BY KnownKept DEF RunDeviceClaimRound, serverVars
<1>2. Waited'
  BY <1>1, WaitedKept DEF ControlInv, Waiting
<1>3. CASE Usable /\ ResetClaimSession /\ RoundTo("load") /\ UNCHANGED ram
  <2>1. /\ round'.pc = "load" /\ round'.token = round.token /\ round'.answer = round.answer
        /\ round' = [round EXCEPT !.pc = "load"] /\ key' = 0 /\ ram' = ram
        /\ bodies' = [bodies EXCEPT !["start"] = {}]
    BY <1>3 DEF RoundTo, ResetClaimSession, ControlInv, ControlTyped
  <2>2. /\ DOMAIN bodies' = Kinds /\ bodies'["start"] = {}
        /\ bodies'["bootstrap"] = bodies["bootstrap"] /\ bodies'["sync"] = bodies["sync"]
    BY <2>1 DEF ControlInv, ControlTyped, Kinds
  <2>3. ControlTyped'
    BY <1>1, <2>1, <2>2, NothingFits DEF ControlInv, ControlTyped
  <2>4. Unclaimed'
    BY <1>1, <2>1, <2>2 DEF ControlInv, Unclaimed, Claimless, Kinds
  <2>5. Claimed'
    BY <1>1, <2>1, <2>2 DEF ControlInv, Claimed, OfToken, Informed, AfterBootstrap, BeforeBootstrap
  <2>6. Cached'
    BY <1>1, <2>1 DEF ControlInv, Cached, Behind
  <2> QED BY <1>2, <2>3, <2>4, <2>5, <2>6 DEF ControlInv
<1>4. CASE /\ ram' = Forgotten /\ bodies' = Dropped
           /\ RoundTo(IF claimActive THEN "poll" ELSE "start") /\ key' = key
  <2>1. PICK place \in {"poll", "start"} : round' = [round EXCEPT !.pc = place]
    BY <1>4 DEF RoundTo
  <2>2. round'.pc = place /\ round'.token = round.token /\ round'.answer = round.answer
    BY <2>1 DEF ControlInv, ControlTyped
  <2>3. /\ DOMAIN bodies' = Kinds /\ bodies'["start"] = bodies["start"]
        /\ bodies'["bootstrap"] = {} /\ bodies'["sync"] = {}
    BY <1>4 DEF Dropped, ControlInv, ControlTyped, Kinds
  <2>4. ram'.loaded /\ ~ram'.bootstrapped /\ ram'.cursor = NoCheckpoint
    BY <1>4 DEF Forgotten, FreshMemory
  <2>5. ControlTyped'
    BY <1>1, <1>4, <2>1, <2>3, NothingFits DEF ControlInv, ControlTyped, Claimless
  <2>6. Unclaimed'
    BY <1>1, <1>4, <2>2, <2>3, <2>4 DEF ControlInv, Unclaimed, Claimless
  <2>7. Claimed'
    BY <1>1, <2>2, <2>3, <2>4 DEF ControlInv, Claimed, OfToken, Informed, AfterBootstrap,
       BeforeBootstrap
  <2>8. Cached'
    BY <1>1, <2>2, <2>4 DEF ControlInv, Cached, Behind, NoCheckpoint
  <2> QED BY <1>2, <2>5, <2>6, <2>7, <2>8 DEF ControlInv
<1> QED BY <1>3, <1>4 DEF RunDeviceClaimRound

\* The rounds of the claim, in which memory and NVS stay as they are: a start is sent
\* with the key that is kept.
LEMMA ClaimStepKeeps ==
    ASSUME ControlInv, StartClaimSession \/ PollClaimSession
    PROVE  ControlInv'
<1>1. /\ round.pc \in {"start", "poll"}
      /\ UNCHANGED <<nvs, storageJob, ram, other, Known, merge, reported>>
  BY KnownKept DEF StartClaimSession, PollClaimSession
<1>2. /\ round' \in [pc : {"idle", "approved"}, token : Owners, answer : Checkpoints]
  <2>1. CASE round' = NoRound
    BY <2>1, NothingFits DEF NoRound
  <2>2. CASE round' = [round EXCEPT !.pc = "approved"]
    BY <2>2 DEF ControlInv, ControlTyped
  <2> QED BY <2>1, <2>2 DEF StartClaimSession, PollClaimSession, RoundOver, RoundTo
<1>3. /\ DOMAIN bodies' = Kinds /\ key' \in Owners /\ keys' \in Owners
      /\ bodies'["bootstrap"] = bodies["bootstrap"] /\ bodies'["sync"] = bodies["sync"]
  <2>1. CASE StartClaimSession
    <3>1. PICK k \in Tokens :
             /\ keys' = IF k > keys THEN k ELSE keys
             /\ \/ SendUnderId("start", <<k, ram.revision, ram.cursor>>) /\ key' = k
                \/ ResetClaimSession
      BY <2>1 DEF StartClaimSession
    <3>2. k \in Owners /\ 0 \in Owners
      BY NothingFits, ControlAssumption DEF Tokens, Owners
    <3> QED BY <3>1, <3>2 DEF SendUnderId, ResetClaimSession, ControlInv, ControlTyped, Kinds
  <2>2. CASE PollClaimSession
    BY <2>2, NothingFits DEF PollClaimSession, ResetClaimSession, ControlInv, ControlTyped, Kinds
  <2> QED BY <2>1, <2>2
<1>4. bodies'["start"] \in {{}, { <<key', NoCheckpoint, NoCheckpoint>> }}
  <2>1. bodies["start"] \in {{}, { <<key, NoCheckpoint, NoCheckpoint>> }}
        /\ ram.revision = NoCheckpoint /\ ram.cursor = NoCheckpoint
    BY <1>1 DEF ControlInv, Unclaimed, Claimless, Forgotten, FreshMemory
  <2>2. CASE StartClaimSession
    <3>1. PICK k \in Tokens :
             /\ k = IF bodies["start"] # {} THEN key ELSE keys + 1
             /\ \/ SendUnderId("start", <<k, ram.revision, ram.cursor>>) /\ key' = k
                \/ ResetClaimSession
      BY <2>2 DEF StartClaimSession
    <3>2. DOMAIN bodies = Kinds /\ "start" \in Kinds
      BY DEF ControlInv, ControlTyped, Kinds
    <3>3. CASE ResetClaimSession
      BY <3>2, <3>3 DEF ResetClaimSession
    <3>4. CASE SendUnderId("start", <<k, ram.revision, ram.cursor>>) /\ key' = k
      <4>1. bodies'["start"] = bodies["start"] \cup { <<key', NoCheckpoint, NoCheckpoint>> }
        BY <2>1, <3>2, <3>4 DEF SendUnderId
      <4>2. bodies["start"] # {} => key' = key
        BY <3>1, <3>4
      <4> QED BY <2>1, <4>1, <4>2
    <3> QED BY <3>1, <3>3, <3>4
  <2>3. CASE PollClaimSession
    BY <2>1, <2>3 DEF PollClaimSession, ResetClaimSession, ControlInv, ControlTyped, Kinds
  <2> QED BY <2>2, <2>3
<1>5. ControlTyped'
  BY <1>1, <1>2, <1>3 DEF ControlInv, ControlTyped, Claimless
<1>6. Waited'
  BY <1>1, WaitedKept DEF ControlInv, Waiting
<1>7. Unclaimed'
  BY <1>1, <1>2, <1>3, <1>4, NothingFits DEF ControlInv, Unclaimed, Claimless
<1>8. Claimed'
  BY <1>1, <1>2, <1>3 DEF ControlInv, Claimed, OfToken, Informed, AfterBootstrap, BeforeBootstrap
<1>9. Cached'
  BY <1>1, <1>2 DEF ControlInv, Cached, Behind
<1> QED BY <1>5, <1>6, <1>7, <1>8, <1>9 DEF ControlInv

\* The token is saved while nothing in memory belongs to an earlier one.
LEMMA SaveTokenKeeps ==
    ASSUME ControlInv, SaveAccessToken
    PROVE  ControlInv'
<1>1. /\ round.pc = "approved" /\ round' = [round EXCEPT !.pc = "tokenSaved"]
      /\ storageJob' = [by |-> "sync", todo |-> << <<"token", key>> >>, ok |-> TRUE]
      /\ UNCHANGED <<nvs, ram, bodies, key, other, Known, merge, keys, reported>>
  BY KnownKept DEF SaveAccessToken, Execute, RoundTo, sessionVars, serverVars
<1>2. round'.pc = "tokenSaved" /\ round'.token = round.token /\ round'.answer = round.answer
  BY <1>1 DEF ControlInv, ControlTyped
<1>3. ControlTyped'
  BY <1>1 DEF ControlInv, ControlTyped, Claimless
<1>4. Waited'
  BY <1>1, <1>2 DEF Waited, Writes, NoWrites
<1>5. Unclaimed'
  BY <1>1, <1>2 DEF ControlInv, Unclaimed, Claimless
<1>6. Claimed'
  BY <1>1, <1>2 DEF ControlInv, Claimed, OfToken, Informed, AfterBootstrap, BeforeBootstrap
<1>7. Cached'
  BY <1>1, <1>2 DEF ControlInv, Cached, Behind
<1> QED BY <1>3, <1>4, <1>5, <1>6, <1>7 DEF ControlInv

\* The session of the claim ends with the token.
LEMMA TokenSavedKeeps ==
    ASSUME ControlInv, TokenSaved
    PROVE  ControlInv'
<1>1. /\ round.pc = "tokenSaved" /\ storageJob' = NoWrites
      /\ UNCHANGED <<nvs, ram, other, Known, merge, keys, reported>>
  BY KnownKept DEF TokenSaved, WritesDone, serverVars
<1>2. round' \in [pc : {"idle", "load"}, token : Owners, answer : Checkpoints]
  BY NothingFits DEF TokenSaved, RoundOver, RoundTo, NoRound, ControlInv, ControlTyped
<1>3. /\ DOMAIN bodies' = Kinds /\ key' \in Owners
      /\ bodies'["bootstrap"] = {} /\ bodies'["sync"] = {}
      /\ \/ bodies'["start"] = {}
         \/ bodies'["start"] = bodies["start"] /\ key' = key /\ round'.pc = "idle"
  <2>1. /\ DOMAIN bodies = Kinds /\ key \in Owners /\ 0 \in Owners
        /\ bodies["bootstrap"] = {} /\ bodies["sync"] = {}
    BY <1>1, NothingFits DEF ControlInv, ControlTyped, Unclaimed, Claimless
  <2>2. CASE ResetClaimSession
    <3>1. key' = 0 /\ bodies' = [bodies EXCEPT !["start"] = {}]
      BY <2>2 DEF ResetClaimSession
    <3>2. {"start", "bootstrap", "sync"} \subseteq DOMAIN bodies
      BY <2>1 DEF Kinds
    <3>3. bodies'["start"] = {}
      BY <3>1, <3>2
    <3>4. bodies'["bootstrap"] = {} /\ bodies'["sync"] = {} /\ DOMAIN bodies' = Kinds
      BY <2>1, <3>1, <3>2
    <3>5. key' \in Owners
      BY <2>1, <3>1
    <3> QED BY <3>3, <3>4, <3>5
  <2>3. CASE RoundOver /\ UNCHANGED <<key, claimActive, bodies>>
    BY <2>1, <2>3 DEF RoundOver, NoRound
  <2> QED BY <2>2, <2>3 DEF TokenSaved
<1>4. ControlTyped'
  BY <1>1, <1>2, <1>3 DEF ControlInv, ControlTyped
<1>5. Waited'
  BY <1>1, WaitedOver
<1>6. Unclaimed'
  BY <1>1, <1>2, <1>3, NothingFits DEF ControlInv, Unclaimed, Claimless
<1>7. Claimed'
  BY <1>1, <1>2, <1>3, NothingFits DEF ControlInv, Unclaimed, Claimed, Claimless, Informed,
       AfterBootstrap, BeforeBootstrap, Forgotten, FreshMemory
<1>8. Cached'
  BY <1>1, <1>2 DEF ControlInv, Cached, Behind
<1> QED BY <1>4, <1>5, <1>6, <1>7, <1>8 DEF ControlInv

-------------------------------------------------------------------------------
(* Bootstrap and checkpoint *)

\* A token is read again between the stages; it is the one memory belongs to.
LEMMA LoadTokenKeeps ==
    ASSUME ControlInv, LoadToken
    PROVE  ControlInv'
<1>1. /\ round.pc \in {"load", "reload", "refresh"}
      /\ UNCHANGED <<nvs, storageJob, ram, bodies, key, other, Known, merge, keys, reported>>
  BY KnownKept DEF LoadToken, AfterLoad, sessionVars, serverVars
<1>2. Waited'
  BY <1>1, WaitedKept DEF ControlInv, Waiting
<1>3. CASE RoundOver
  BY <1>1, <1>2, <1>3, RoundOverKeeps
<1>4. CASE Usable /\ round' = [round EXCEPT !.pc = AfterLoad[@], !.token = nvs.token]
  <2>1. /\ round'.token = nvs.token /\ nvs.token # 0 /\ nvs.token \in Owners
        /\ round'.pc = AfterLoad[round.pc]
        /\ round'.answer = round.answer
        /\ round' \in [pc : {AfterLoad[round.pc]}, token : Owners, answer : Checkpoints]
    BY <1>4 DEF Usable, ControlInv, ControlTyped
  <2>2. /\ round.pc = "load" => round'.pc = IF ram.bootstrapped THEN "reload" ELSE "bootstrap"
        /\ round.pc = "reload" => round'.pc = "sync"
        /\ round.pc = "refresh" => round'.pc = "index"
    BY <2>1 DEF AfterLoad
  <2>3. ram.bootstrapped <=> round'.pc # "bootstrap"
    BY <1>1, <2>2 DEF ControlInv, Claimed, AfterBootstrap
  <2>4. ControlTyped'
    BY <1>1, <2>1, <2>2 DEF ControlInv, ControlTyped, Informed
  <2>5. Unclaimed'
    BY <1>1, <2>2, NothingFits DEF ControlInv, Unclaimed, Claimless
  <2>6. Claimed'
    BY <1>1, <2>1, <2>2, <2>3 DEF ControlInv, Claimed, OfToken, AfterBootstrap, BeforeBootstrap
  <2>7. Cached'
    BY <1>1, <2>2 DEF ControlInv, Cached, Behind
  <2> QED BY <1>2, <2>4, <2>5, <2>6, <2>7 DEF ControlInv
<1> QED BY <1>3, <1>4 DEF LoadToken

\* What is sent again under an id is the same: neither memory nor token has moved.
LEMMA SendKeeps ==
    ASSUME ControlInv, NEW kind \in {"bootstrap", "sync"}, SendUnderId(kind, Body),
           kind = "bootstrap" => round.pc \in BeforeBootstrap,
           kind = "sync" => round.pc \in AfterBootstrap,
           UNCHANGED <<nvs, ram, key>>,
           round'.pc = "idle" \/ (round'.pc \in Informed /\ round'.token = round.token
               /\ (round.pc \in AfterBootstrap => round'.pc \notin BeforeBootstrap)
               /\ (round.pc \in BeforeBootstrap => round'.pc \notin AfterBootstrap))
    PROVE  DOMAIN bodies' = Kinds /\ Unclaimed' /\ Claimed'
<1> DEFINE other2 == IF kind = "bootstrap" THEN "sync" ELSE "bootstrap"
<1>1. /\ DOMAIN bodies = Kinds /\ bodies' = [bodies EXCEPT ![kind] = @ \cup {Body}]
      /\ kind \in Kinds
  BY DEF SendUnderId, ControlInv, ControlTyped, Kinds
<1>2. /\ DOMAIN bodies' = Kinds /\ bodies'[kind] = bodies[kind] \cup {Body}
      /\ bodies'["start"] = bodies["start"] /\ bodies'[other2] = bodies[other2]
  BY <1>1 DEF Kinds
<1>3. round.pc \in Informed /\ round.pc \notin Claimless \cup {"idle", "claim"}
      /\ round'.pc \notin Claimless
  BY DEF Informed, AfterBootstrap, BeforeBootstrap, Claimless
<1>4. bodies["start"] = {}
  BY <1>3 DEF ControlInv, Unclaimed
<1>5. ram.loaded
  BY <1>3 DEF ControlInv, Unclaimed
<1>6. Unclaimed'
  BY <1>2, <1>3, <1>4, <1>5 DEF Unclaimed
<1>7. /\ Body.token = round.token /\ Body.revision = ram.revision /\ Body.cursor = ram.cursor
      /\ Body = [token |-> Body.token, revision |-> ram.revision, cursor |-> ram.cursor]
  BY DEF Body
<1>8. ASSUME NEW t, t = round.token
      PROVE  OfToken(t)'
  BY <1>3, <1>8 DEF ControlInv, Claimed, OfToken, Informed
<1>9. ASSUME NEW b \in bodies[kind]
      PROVE  b = Body
  BY <1>3, <1>7 DEF ControlInv, Claimed, OfToken
<1>10. kind = "sync" => round.token = ram.cursor.owner /\ ram.bootstrapped
  BY <1>3 DEF ControlInv, Claimed, OfToken
<1>11. kind = "bootstrap" => ~ram.bootstrapped
  BY <1>3 DEF ControlInv, Claimed
<1>12. bodies'[kind] = {Body}
  BY <1>2, <1>9
<1>13. ASSUME NEW k \in {"bootstrap", "sync"}
       PROVE  \A b \in bodies'[k] :
                 /\ b = [token |-> b.token, revision |-> ram.revision, cursor |-> ram.cursor]
                 /\ OfToken(b.token)'
                 /\ \A c \in bodies'[k] : b = c
  <2>1. CASE k = kind
    <3>1. ASSUME NEW b \in bodies'[k]
          PROVE  OfToken(b.token)'
      BY <1>7, <1>8, <1>12, <2>1
    <3> QED BY <1>7, <1>12, <2>1, <3>1
  <2>2. CASE k # kind
    <3>1. bodies'[k] = bodies[k]
      BY <1>2, <2>2
    <3>2. ASSUME NEW b \in bodies[k]
          PROVE  OfToken(b.token)'
      BY <1>3, <3>2 DEF ControlInv, Claimed, OfToken, Informed
    <3> QED BY <3>1, <3>2 DEF ControlInv, Claimed
  <2> QED BY <2>1, <2>2
<1>14. /\ bodies'["bootstrap"] # {} => ~ram.bootstrapped
       /\ bodies'["sync"] # {} => ram.bootstrapped
       /\ \A b \in bodies'["sync"] : b.token = ram.cursor.owner
  BY <1>2, <1>7, <1>10, <1>11, <1>12 DEF ControlInv, Claimed
<1>15. ram.bootstrapped => ram.loaded /\ ram.revision = ram.cursor /\ OfToken(ram.cursor.owner)'
  BY <1>3 DEF ControlInv, Claimed, OfToken, Informed
<1>16. round'.pc \in Informed => round'.token # 0 /\ nvs.token \in {0, round'.token}
  BY <1>3 DEF ControlInv, Claimed, Informed
<1>17. /\ round'.pc \in AfterBootstrap => ram.bootstrapped
       /\ round'.pc \in BeforeBootstrap => ~ram.bootstrapped
  BY <1>3 DEF ControlInv, Claimed, Informed, AfterBootstrap, BeforeBootstrap
<1>18. Claimed'
  BY <1>13, <1>14, <1>15, <1>16, <1>17 DEF Claimed
<1> QED BY <1>2, <1>6, <1>18

\* The answer to a bootstrap is a checkpoint the server has been told of.
LEMMA BootstrapKeeps ==
    ASSUME ControlInv, BootstrapControl
    PROVE  ControlInv'
<1>1. /\ round.pc = "bootstrap" /\ SendUnderId("bootstrap", Body)
      /\ UNCHANGED <<nvs, storageJob, ram, key, other, Known, merge, keys, reported>>
  BY KnownKept DEF BootstrapControl
<1>2. Waited'
  BY <1>1, WaitedKept DEF ControlInv, Waiting
<1>3. /\ round' \in [pc : {"idle", "clear", "bootstrapped"}, token : Owners, answer : Checkpoints]
      /\ round'.pc # "idle" => round'.token = round.token
      /\ round'.pc = "bootstrapped" =>
            round'.answer.owner = round.token /\ round'.answer.page \in 0..reported[round.token]
  <2>1. CASE RoundOver
    BY <2>1, NothingFits DEF RoundOver, NoRound
  <2>2. CASE TokenRefused
    BY <2>2 DEF TokenRefused, RoundTo, ControlInv, ControlTyped
  <2>3. ASSUME NEW page \in 0..reported[round.token], Answered("bootstrapped", page)
        PROVE  /\ round' \in [pc : {"bootstrapped"}, token : Owners, answer : Checkpoints]
               /\ round'.token = round.token /\ round'.answer.owner = round.token
               /\ round'.answer.page = page
    <3>1. round.token \in Tokens
      BY <1>1, ControlAssumption DEF ControlInv, ControlTyped, Claimed, Informed, Owners, Tokens
    <3>2. reported[round.token] \in 0..Pages
      BY <3>1 DEF ControlInv, ControlTyped
    <3>3. page \in 0..Pages /\ round.token \in Owners
      BY <3>2, ControlAssumption DEF ControlInv, ControlTyped
    <3>4. [owner |-> round.token, page |-> page] \in Checkpoints
      BY <3>3 DEF Checkpoints
    <3> QED BY <2>3, <3>4 DEF Answered, ControlInv, ControlTyped
  <2> QED BY <2>1, <2>2, <2>3 DEF BootstrapControl
<1>4. DOMAIN bodies' = Kinds /\ Unclaimed' /\ Claimed'
  BY <1>1, <1>3, SendKeeps DEF Informed, AfterBootstrap, BeforeBootstrap
<1>5. ControlTyped'
  BY <1>1, <1>3, <1>4 DEF ControlInv, ControlTyped, Informed
<1>6. round'.pc = "bootstrapped" => Behind(round.token, round'.answer.page)
  BY <1>1, <1>3, ControlAssumption DEF ControlInv, ControlTyped, Cached, Claimed, Informed,
       Behind, Tokens, Owners
<1>7. Cached'
  BY <1>1, <1>3, <1>6 DEF ControlInv, Cached, Behind
<1> QED BY <1>2, <1>4, <1>5, <1>7 DEF ControlInv

\* The pages an identity has reported grow with its cursor, never beyond it.
LEMMA SyncKeeps ==
    ASSUME ControlInv, SyncDueProblems
    PROVE  ControlInv'
<1> DEFINE t == round.token
<1>1. /\ round.pc = "sync" /\ SendUnderId("sync", Body)
      /\ UNCHANGED <<nvs, storageJob, ram, key, other, Known, merge, keys>>
  BY KnownKept DEF SyncDueProblems
<1>2. Waited'
  BY <1>1, WaitedKept DEF ControlInv, Waiting
<1>3. /\ t \in Tokens /\ ram.cursor.owner = t /\ ram.cursor.page \in 0..Pages
      /\ reported[t] \in 0..Pages /\ t \in Owners
  BY <1>1, ControlAssumption DEF ControlInv, ControlTyped, Claimed, OfToken, AfterBootstrap,
       Informed, Owners, Tokens, Checkpoints
<1>4. /\ round' \in [pc : {"idle", "clear", "save", "fetch"}, token : Owners, answer : Checkpoints]
      /\ round'.pc # "idle" => round'.token = t
      /\ round'.pc = "save" => round'.answer.owner = t /\ round'.answer.page = ram.cursor.page
      /\ round'.pc = "fetch" => round'.answer.owner = t /\ round'.answer.page = ram.cursor.page + 1
  <2>1. CASE RoundOver
    BY <2>1, NothingFits DEF RoundOver, NoRound
  <2>2. CASE TokenRefused
    BY <2>2 DEF TokenRefused, RoundTo, ControlInv, ControlTyped
  <2>3. CASE Answered("save", ram.cursor.page)
    BY <1>3, <2>3 DEF Answered, ControlInv, ControlTyped, Checkpoints
  <2>4. CASE ram.cursor.page < Pages /\ Answered("fetch", ram.cursor.page + 1)
    <3>1. ram.cursor.page + 1 \in 0..Pages
      BY <1>3, <2>4, ControlAssumption
    <3> QED BY <1>3, <2>4, <3>1 DEF Answered, ControlInv, ControlTyped, Checkpoints
  <2> QED BY <2>1, <2>2, <2>3, <2>4 DEF SyncDueProblems
<1>5. DOMAIN bodies' = Kinds /\ Unclaimed' /\ Claimed'
  BY <1>1, <1>4, SendKeeps DEF Informed, AfterBootstrap, BeforeBootstrap
<1>6. PICK page \in {reported[t], ram.cursor.page} : reported' = [reported EXCEPT ![t] = page]
  <2>1. CASE UNCHANGED reported
    BY <2>1, <1>3 DEF ControlInv, ControlTyped
  <2>2. CASE reported' = [reported EXCEPT ![t] =
                IF ram.cursor.owner = t /\ ram.cursor.page > @ THEN ram.cursor.page ELSE @]
    BY <2>2, <1>3 DEF ControlInv, ControlTyped
  <2> QED BY <2>1, <2>2 DEF SyncDueProblems
<1>7. reported' \in [Tokens -> 0..Pages]
  BY <1>3, <1>6 DEF ControlInv, ControlTyped
<1>8. ControlTyped'
  BY <1>1, <1>4, <1>5, <1>7 DEF ControlInv, ControlTyped, Informed
<1>9. Behind(t, ram.cursor.page) /\ \A u \in Tokens : Behind(u, reported'[u])
  BY <1>3, <1>6 DEF ControlInv, ControlTyped, Cached
<1>10. /\ \A u \in Tokens : Behind(u, reported[u])'
       /\ round'.pc = "save" => Behind(round.token, round.answer.page)'
  BY <1>1, <1>4, <1>9 DEF Behind
<1>11. Cached'
  BY <1>1, <1>4, <1>10 DEF ControlInv, Cached, Behind
<1> QED BY <1>2, <1>5, <1>8, <1>11 DEF ControlInv

\* A stage that keeps token, memory and NVS.
LEMMA StageKeeps ==
    ASSUME ControlInv, NEW place \in Informed, NEW answer \in Checkpoints,
           round' = [round EXCEPT !.pc = place, !.answer = answer], Waited', round.pc \in Informed,
           place \in AfterBootstrap => round.pc \in AfterBootstrap,
           place \in BeforeBootstrap => round.pc \in BeforeBootstrap,
           UNCHANGED <<nvs, ram, bodies, key, keys, reported>>
    PROVE  /\ ControlTyped' /\ Unclaimed' /\ Claimed'
           /\ round'.pc = place /\ round'.token = round.token /\ round'.answer = answer
<1>1. round'.pc = place /\ round'.token = round.token /\ round'.answer = answer
  BY DEF ControlInv, ControlTyped
<1>2. ControlTyped'
  BY DEF ControlInv, ControlTyped
<1>3. Unclaimed'
  BY <1>1 DEF ControlInv, Unclaimed, Claimless, Informed
<1>4. Claimed'
  BY <1>1 DEF ControlInv, Claimed, OfToken
<1> QED BY <1>1, <1>2, <1>3, <1>4

\* One that keeps the answer too.
LEMMA PlaceKeeps ==
    ASSUME ControlInv, NEW place \in Informed, round' = [round EXCEPT !.pc = place], Waited',
           round.pc \in Informed,
           place \in AfterBootstrap => round.pc \in AfterBootstrap,
           place \in BeforeBootstrap => round.pc \in BeforeBootstrap,
           UNCHANGED <<nvs, ram, bodies, key, keys, reported>>
    PROVE  ControlTyped' /\ Unclaimed' /\ Claimed'
<1>1. round' = [round EXCEPT !.pc = place, !.answer = round.answer] /\ round.answer \in Checkpoints
  BY DEF ControlInv, ControlTyped
<1> QED BY <1>1, StageKeeps

-------------------------------------------------------------------------------
(* The cache *)

\* What was known stays known in a file.
LEMMA BehindStays ==
    ASSUME ControlInv, Known \subseteq Known', UNCHANGED <<nvs, ram, reported>>
    PROVE  /\ Behind(nvs.cursor.owner, nvs.cursor.page)'
           /\ Behind(ram.cursor.owner, ram.cursor.page)'
           /\ \A t \in Tokens : Behind(t, reported[t])'
BY DEF ControlInv, Cached, Behind

\* A save keeps what it saves, and the merge the page it is about.
LEMMA CacheStepKeeps ==
    ASSUME ControlInv, CacheInv, CacheStep, Known \subseteq Known'
    PROVE  ControlInv'
<1>1. UNCHANGED <<nvs, storageJob, ram, bodies, key, round, keys, reported>>
  BY DEF CacheStep, sessionVars, serverVars
<1>2. /\ merge'.at # "none" => merge.at # "none"
      /\ merge'.at \in {"saving", "saved"} =>
            merge.at \in {"saving", "saved"} /\ merge'.list = merge.list
  BY DEF CacheStep, CacheInv, SaveProceeds, SaveFails, SaveEnds, LoadUiState, QueueSelectedReview
<1>3. Writes' = Writes
  BY <1>1 DEF Writes, Erasures
<1>4. Waited' /\ ControlTyped' /\ Unclaimed' /\ Claimed'
  BY <1>1, <1>3 DEF ControlInv, ControlTyped, Waited, Unclaimed, Claimed, OfToken
<1>5. Cached'
  BY <1>1, <1>2, BehindStays DEF ControlInv, Cached, Behind
<1> QED BY <1>4, <1>5 DEF ControlInv

\* While a page is merged the round stays, and its page is in the list from then on.
LEMMA MergingKeeps ==
    ASSUME ControlInv, CacheInv, Merging, round.pc \in {"merge", "file"}, Known \subseteq Known',
           UNCHANGED <<nvs, storageJob, ram, bodies, key, other, keys, reported>>
    PROVE  ControlInv'
<1>1. round' = round
  BY DEF Merging
<1>2. merge'.at \in {"saving", "saved"} =>
         <<round.token, round.answer.page>>' \in merge'.list
  <2> DEFINE page == <<round.token, round.answer.page>>
  <2>1. MergeProblemCache(page)
    BY DEF Merging
  <2>2. CASE merge.at = "none"
    <3>1. merge'.at = "read"
      BY <2>1, <2>2 DEF MergeProblemCache
    <3> QED BY <1>1, <3>1
  <2>3. CASE merge.at = "read"
    BY <1>1, <2>1, <2>3 DEF MergeProblemCache, CacheInv
  <2> QED BY <2>1, <2>2, <2>3 DEF MergeProblemCache
<1>3. Writes' = Writes
  BY <1>1 DEF Writes, Erasures
<1>4. Waited' /\ ControlTyped' /\ Unclaimed' /\ Claimed'
  BY <1>1, <1>3 DEF ControlInv, ControlTyped, Waited, Unclaimed, Claimed, OfToken
<1>5. Cached'
  BY <1>1, <1>2, BehindStays DEF ControlInv, Cached, Behind
<1> QED BY <1>4, <1>5 DEF ControlInv

\* A round may end with the merge, or before it.
LEMMA ProblemsOver ==
    ASSUME ControlInv, RoundOver, Waited', merge'.at = "none", Known \subseteq Known',
           UNCHANGED <<nvs, ram, bodies, key, keys, reported>>
    PROVE  ControlInv'
<1>1. round'.pc = "idle" /\ round' \in [pc : {"idle"}, token : Owners, answer : Checkpoints]
  BY NothingFits DEF RoundOver, NoRound
<1>2. ControlTyped'
  BY <1>1 DEF ControlInv, ControlTyped
<1>3. Unclaimed'
  BY <1>1 DEF ControlInv, Unclaimed, Claimless
<1>4. Claimed'
  BY <1>1 DEF ControlInv, Claimed, OfToken, Informed, AfterBootstrap, BeforeBootstrap
<1>5. Cached'
  BY <1>1, BehindStays DEF Cached
<1> QED BY <1>2, <1>3, <1>4, <1>5 DEF ControlInv

\* Problems come, are merged, and only then the checkpoint moves.
LEMMA ProblemsKeep ==
    ASSUME ControlInv, CacheInv, FetchProblems \/ MergeDueProblems \/ RefreshIndex,
           Known \subseteq Known'
    PROVE  ControlInv'
<1>1. /\ round.pc \in {"fetch", "merge", "index", "file"}
      /\ UNCHANGED <<nvs, storageJob, ram, bodies, key, other, keys, reported>>
  BY DEF FetchProblems, MergeDueProblems, RefreshIndex, sessionVars, serverVars
<1>2. Waited'
  BY <1>1, WaitedKept DEF ControlInv, Waiting
<1>3. round.pc \in {"fetch", "index"} /\ (FetchProblems \/ RefreshIndex) =>
         merge.at = "none" /\ merge' = merge
  BY KnownKept DEF FetchProblems, RefreshIndex, ControlInv, Cached
<1>4. CASE Merging /\ round.pc \in {"merge", "file"}
  BY <1>1, <1>4, MergingKeeps
<1>5. CASE RoundOver /\ merge'.at = "none"
  BY <1>1, <1>2, <1>5, ProblemsOver
<1>6. CASE /\ merge'.at = "none"
           /\ RoundTo("clear") \/ (round.pc = "fetch" /\ RoundTo("merge"))
  <2>1. PICK place \in {"clear", "merge"} :
           round' = [round EXCEPT !.pc = place] /\ (place = "merge" => round.pc = "fetch")
    BY <1>6 DEF RoundTo
  <2>2. round'.pc = place /\ round'.token = round.token /\ round'.answer = round.answer
    BY <2>1 DEF ControlInv, ControlTyped
  <2>3. ControlTyped' /\ Unclaimed' /\ Claimed'
    BY <1>1, <1>2, <2>1, PlaceKeeps DEF Informed, AfterBootstrap, BeforeBootstrap
  <2>4. Cached'
    BY <1>1, <1>6, <2>1, <2>2, BehindStays DEF ControlInv, Cached
  <2> QED BY <1>2, <2>3, <2>4 DEF ControlInv
<1>7. CASE round.pc = "merge" /\ MergeOver("saved") /\ RoundTo("save")
  <2>1. round' = [round EXCEPT !.pc = "save"]
    BY <1>7 DEF RoundTo
  <2>2. round'.pc = "save" /\ round'.token = round.token /\ round'.answer = round.answer
    BY <2>1 DEF ControlInv, ControlTyped
  <2>3. ControlTyped' /\ Unclaimed' /\ Claimed'
    BY <1>1, <1>2, <1>7, <2>1, PlaceKeeps DEF Informed, AfterBootstrap, BeforeBootstrap
  <2>4. /\ round.answer.owner = round.token /\ round.answer.page = ram.cursor.page + 1
        /\ ram.cursor.owner = round.token /\ ram.cursor.page \in Nat
    BY <1>7 DEF ControlInv, ControlTyped, Cached, Claimed, OfToken, Informed, AfterBootstrap,
         Checkpoints
  <2>5. \A p \in 1..ram.cursor.page : <<round.token, p>> \in Known'
    BY <1>1, <2>4 DEF ControlInv, Cached, Behind
  <2>6. <<round.token, ram.cursor.page + 1>> \in Known'
    <3>1. <<round.token, round.answer.page>> \in merge.list /\ merge.list \subseteq Known
      BY <1>7 DEF MergeOver, ControlInv, Cached, CacheInv
    <3> QED BY <2>4, <3>1
  <2>7. \A p \in 1..ram.cursor.page + 1 : p \in 1..ram.cursor.page \/ p = ram.cursor.page + 1
    BY <2>4
  <2>8. Behind(round.token, round.answer.page)'
    BY <2>2, <2>4, <2>5, <2>6, <2>7 DEF Behind
  <2>9. merge'.at = "none"
    BY <1>7 DEF MergeOver, NoMerge
  <2>10. Cached'
    BY <1>1, <2>2, <2>4, <2>8, <2>9, BehindStays DEF Cached
  <2> QED BY <1>2, <2>3, <2>10 DEF ControlInv
<1>8. ASSUME round.pc = "index", merge'.at = "none", NEW p \in 1..Pages, Answered("file", p)
      PROVE  ControlInv'
  <2>1. [owner |-> round.token, page |-> p] \in Checkpoints
    BY ControlAssumption DEF Checkpoints, ControlInv, ControlTyped
  <2>2. /\ ControlTyped' /\ Unclaimed' /\ Claimed' /\ round'.pc = "file"
    BY <1>1, <1>2, <1>8, <2>1, StageKeeps DEF Answered, Informed, AfterBootstrap, BeforeBootstrap
  <2>3. Cached'
    BY <1>1, <1>8, <2>2, BehindStays DEF Cached
  <2> QED BY <1>2, <2>2, <2>3 DEF ControlInv
<1>9. CASE FetchProblems
  BY <1>3, <1>5, <1>6, <1>9 DEF FetchProblems, TokenRefused
<1>10. CASE MergeDueProblems
  BY <1>4, <1>5, <1>7, <1>10 DEF MergeDueProblems, MergeOver, NoMerge
<1>11. CASE RefreshIndex
  BY <1>3, <1>4, <1>5, <1>6, <1>8, <1>11 DEF RefreshIndex, TokenRefused, MergeOver, NoMerge
<1> QED BY <1>9, <1>10, <1>11

\* The checkpoint is written for the answer at hand.
LEMMA SaveCheckpointKeeps ==
    ASSUME ControlInv, SaveCheckpoint
    PROVE  ControlInv'
<1> DEFINE place == IF round.pc = "save" THEN "saved" ELSE "bootstrapSaved"
<1>1. /\ round.pc \in {"bootstrapped", "save"} /\ round' = [round EXCEPT !.pc = place]
      /\ storageJob' = [by |-> "sync", todo |-> Checkpoint(round.answer), ok |-> TRUE]
      /\ UNCHANGED <<nvs, ram, bodies, key, other, Known, merge, keys, reported>>
  BY KnownKept DEF SaveCheckpoint, Execute, RoundTo, sessionVars, serverVars
<1>2. round'.pc = place /\ round'.token = round.token /\ round'.answer = round.answer
  BY <1>1 DEF ControlInv, ControlTyped
<1>3. storageJob'.by = "sync" /\ storageJob'.ok = TRUE
      /\ storageJob'.todo = Checkpoint(round.answer)
  BY <1>1
<1>4. Writes' = { <<"revision", round.answer>>, <<"cursor", round.answer>> }
  BY <1>2, <1>3 DEF Writes
<1>5. storageJob'.todo \in Seq(Writes')
  BY <1>3, <1>4 DEF Checkpoint
<1>6. Waited'
  BY <1>2, <1>3, <1>5 DEF Waited
<1>7. ControlTyped' /\ Unclaimed' /\ Claimed'
  BY <1>1, <1>6, PlaceKeeps DEF Informed, AfterBootstrap, BeforeBootstrap
<1>8. Cached'
  BY <1>1, <1>2 DEF ControlInv, Cached, Behind
<1> QED BY <1>6, <1>7, <1>8 DEF ControlInv

\* Memory moves with NVS, and the id is given up for the new checkpoint.
LEMMA CheckpointSavedKeeps ==
    ASSUME ControlInv, CheckpointSaved
    PROVE  ControlInv'
<1>1. /\ round.pc \in {"bootstrapSaved", "saved"} /\ storageJob' = NoWrites
      /\ UNCHANGED <<nvs, key, other, Known, merge, keys, reported>>
  BY KnownKept DEF CheckpointSaved, WritesDone, serverVars
<1>2. Waited'
  BY <1>1, WaitedOver
<1>3. CASE ~storageJob.ok
  <2>1. RoundOver /\ UNCHANGED <<ram, bodies>>
    BY <1>3 DEF CheckpointSaved, MovesMemory
  <2> QED BY <1>1, <1>2, <2>1, RoundOverKeeps
<1>4. CASE storageJob.ok
  <2> DEFINE kind == IF round.pc = "saved" THEN "sync" ELSE "bootstrap"
             place == IF round.pc = "saved" THEN "refresh" ELSE "reload"
  <2>1. /\ ram' = [ram EXCEPT !.revision = round.answer, !.cursor = round.answer,
                              !.bootstrapped = TRUE]
        /\ bodies' = [bodies EXCEPT ![kind] = {}] /\ round' = [round EXCEPT !.pc = place]
    BY <1>4 DEF CheckpointSaved, MovesMemory, RoundTo
  <2>2. /\ ram' \in [loaded : BOOLEAN, revision : Checkpoints, cursor : Checkpoints,
                     bootstrapped : BOOLEAN]
        /\ ram'.revision = round.answer /\ ram'.cursor = round.answer /\ ram'.bootstrapped = TRUE
        /\ ram'.loaded = ram.loaded
    BY <2>1 DEF ControlInv, ControlTyped
  <2>3. round'.pc = place /\ round'.token = round.token /\ round'.answer = round.answer
        /\ round'.pc \in {"refresh", "reload"}
    BY <2>1 DEF ControlInv, ControlTyped
  <2>4. /\ DOMAIN bodies' = Kinds /\ bodies'["start"] = bodies["start"]
        /\ bodies'[kind] = {}
        /\ \A k \in Kinds : k # kind => bodies'[k] = bodies[k]
    BY <2>1 DEF ControlInv, ControlTyped, Kinds
  <2>5. /\ round.token # 0 /\ nvs.token \in {0, round.token} /\ ram.loaded
        /\ round.answer.owner = round.token /\ Behind(round.token, round.answer.page)
        /\ bodies["start"] = {}
    BY <1>1 DEF ControlInv, Unclaimed, Claimed, Cached, Informed, Claimless
  <2>6. bodies'["bootstrap"] = {} /\ bodies'["sync"] = {}
    BY <1>1, <2>4 DEF ControlInv, Claimed, AfterBootstrap, BeforeBootstrap, Kinds
  <2>7. ControlTyped'
    BY <1>1, <2>1, <2>2, <2>4 DEF ControlInv, ControlTyped, Informed
  <2>8. Unclaimed'
    BY <2>2, <2>3, <2>4, <2>5 DEF Unclaimed, Claimless
  <2>9. Claimed'
    BY <1>1, <2>2, <2>3, <2>5, <2>6 DEF Claimed, OfToken, Informed, AfterBootstrap, BeforeBootstrap
  <2>10. Cached'
    BY <1>1, <2>2, <2>3, <2>5 DEF ControlInv, Cached, Behind
  <2> QED BY <1>2, <2>7, <2>8, <2>9, <2>10 DEF ControlInv
<1> QED BY <1>3, <1>4

-------------------------------------------------------------------------------
(* A 401, another task, a power loss *)

\* The token is cleared, by the sync task or another one.
LEMMA ClearKeeps ==
    ASSUME ControlInv, ClearAccessToken \/ OtherRequest
    PROVE  ControlInv'
<1>1. UNCHANGED <<nvs, ram, bodies, key, Known, merge, keys, reported>>
  BY KnownKept DEF ClearAccessToken, OtherRequest, sessionVars, serverVars
<1>2. CASE round.pc = "clear" /\ Execute("sync", Clearing) /\ RoundTo("clearing")
  <2>1. /\ round' = [round EXCEPT !.pc = "clearing"]
        /\ storageJob' = [by |-> "sync", todo |-> Clearing, ok |-> TRUE]
    BY <1>2 DEF Execute, RoundTo
  <2>2. round'.pc = "clearing" /\ round'.token = round.token /\ round'.answer = round.answer
    BY <2>1 DEF ControlInv, ControlTyped
  <2>3. storageJob'.by = "sync" /\ storageJob'.ok = TRUE /\ storageJob'.todo = Clearing
    BY <2>1
  <2>4. Writes' = Erasures
    BY <2>2 DEF Writes, Erasures
  <2>5. storageJob'.todo \in Seq(Writes')
    BY <2>3, <2>4 DEF Clearing, Erasures
  <2>6. Waited'
    BY <2>2, <2>3, <2>5 DEF Waited
  <2>7. ControlTyped' /\ Unclaimed' /\ Claimed'
    BY <1>1, <1>2, <2>1, <2>6, PlaceKeeps DEF Informed, AfterBootstrap, BeforeBootstrap
  <2>8. Cached'
    BY <1>1, <1>2, <2>2 DEF ControlInv, Cached, Behind
  <2> QED BY <2>6, <2>7, <2>8 DEF ControlInv
<1>3. CASE round.pc = "clearing" /\ RoundOver /\ storageJob' = NoWrites
  BY <1>1, <1>3, WaitedOver, RoundOverKeeps
<1>4. CASE OtherRequest
  <2>1. round' = round
    BY <1>4 DEF OtherRequest
  <2>2. Waited'
    <3>1. CASE storageJob' = NoWrites
      BY <3>1, WaitedOver
    <3>2. CASE UNCHANGED storageJob
      <4>1. Writes' = Writes
        BY <1>1, <2>1, <3>2 DEF Writes, Erasures
      <4> QED BY <2>1, <3>2, <4>1 DEF ControlInv, Waited
    <3>3. CASE Execute("other", Clearing)
      <4>1. storageJob'.by = "other" /\ storageJob'.ok = TRUE /\ storageJob'.todo = Clearing
        BY <3>3 DEF Execute
      <4>2. Writes' = Erasures
        BY <4>1 DEF Writes, Erasures
      <4>3. storageJob'.todo \in Seq(Writes')
        BY <4>1, <4>2 DEF Clearing, Erasures
      <4> QED BY <4>1, <4>3 DEF Waited
    <3> QED BY <1>4, <3>1, <3>2, <3>3 DEF OtherRequest, WritesDone
  <2>3. ControlTyped' /\ Unclaimed' /\ Claimed' /\ Cached'
    BY <1>1, <2>1 DEF ControlInv, ControlTyped, Unclaimed, Claimed, OfToken, Cached, Behind
  <2> QED BY <2>2, <2>3 DEF ControlInv
<1> QED BY <1>2, <1>3, <1>4 DEF ClearAccessToken, WritesDone

\* RAM is lost in the middle of a transaction, NVS is not.
LEMMA PowerLossKeeps ==
    ASSUME ControlInv, PowerLoss, Known \subseteq Known'
    PROVE  ControlInv'
<1>1. /\ storageJob' = NoWrites /\ ram' = FreshMemory /\ bodies' = [k \in Kinds |-> {}]
      /\ key' = 0 /\ round' = NoRound
      /\ UNCHANGED <<nvs, keys, reported>> /\ merge'.at = "none"
  BY DEF PowerLoss, CacheCut, NoMerge, serverVars
<1>2. /\ ram' \in [loaded : BOOLEAN, revision : Checkpoints, cursor : Checkpoints,
                   bootstrapped : BOOLEAN]
      /\ ram'.loaded = FALSE /\ ram'.bootstrapped = FALSE /\ ram'.cursor = NoCheckpoint
  BY <1>1, NothingFits DEF FreshMemory
<1>3. round'.pc = "idle" /\ round' \in [pc : {"idle"}, token : Owners, answer : Checkpoints]
  BY <1>1, NothingFits DEF NoRound
<1>4. ControlTyped'
  BY <1>1, <1>2, <1>3, NothingFits DEF ControlInv, ControlTyped
<1>5. Waited'
  BY <1>1, WaitedOver
<1>6. Unclaimed'
  BY <1>1, <1>2, <1>3 DEF Unclaimed, Claimless, Kinds
<1>7. Claimed'
  BY <1>1, <1>2, <1>3 DEF Claimed, Informed, AfterBootstrap, BeforeBootstrap, Kinds
<1>8. Cached'
  BY <1>1, <1>2, <1>3 DEF ControlInv, Cached, Behind, NoCheckpoint
<1> QED BY <1>4, <1>5, <1>6, <1>7, <1>8 DEF ControlInv

\* Every step keeps the files and lists sound, and what is known.
LEMMA CacheMoves ==
    CacheInv /\ [ControlNext]_control => CacheInv' /\ Known \subseteq Known'
<1> SUFFICES ASSUME CacheInv, [ControlNext]_control PROVE CacheInv' /\ Known \subseteq Known'
  OBVIOUS
<1>1. CASE UNCHANGED cacheVars
  BY <1>1, KnownKept
<1>2. CASE CacheStep
  BY <1>2, SaveProceedsKeeps, SaveFailsKeeps, ReadersKeep DEF CacheStep
<1>3. CASE MergeDueProblems
  BY <1>1, <1>3, ReadersKeep, CacheEnds DEF MergeDueProblems, Merging
<1>4. CASE RefreshIndex
  BY <1>1, <1>4, ReadersKeep, CacheEnds DEF RefreshIndex, Merging
<1>5. CASE PowerLoss
  BY <1>5, CacheEnds DEF PowerLoss
<1>6. CASE UNCHANGED control
  BY <1>1, <1>6 DEF control
<1>7. CASE BeginRound \/ RunDeviceClaimRound \/ StartClaimSession \/ PollClaimSession
          \/ SaveAccessToken \/ TokenSaved \/ LoadToken \/ BootstrapControl \/ SyncDueProblems
          \/ FetchProblems \/ SaveCheckpoint \/ CheckpointSaved \/ ClearAccessToken
          \/ StorageStep \/ OtherRequest
  BY <1>1, <1>7 DEF BeginRound, RunDeviceClaimRound, StartClaimSession, PollClaimSession,
     SaveAccessToken, TokenSaved, LoadToken, BootstrapControl, SyncDueProblems, FetchProblems,
     SaveCheckpoint, CheckpointSaved, ClearAccessToken, StorageStep, OtherRequest
<1> QED BY <1>2, <1>3, <1>4, <1>5, <1>6, <1>7 DEF ControlNext, RunSyncRound

\* The invariants hold initially and in every later state.
LEMMA ControlInvariance == ControlSpec => [](ControlInv /\ CacheInv)
<1>1. ControlInit => ControlInv /\ CacheInv
  <2> SUFFICES ASSUME ControlInit PROVE ControlInv /\ CacheInv
    OBVIOUS
  <2>1. ControlTyped
    <3>1. /\ nvs.token = 0 /\ FreshMemory \in [loaded : BOOLEAN, revision : Checkpoints,
                                              cursor : Checkpoints, bootstrapped : BOOLEAN]
          /\ NoRound \in [pc : {"idle"}, token : Owners, answer : Checkpoints]
      BY NothingFits DEF ControlInit, FreshMemory, NoRound
    <3>2. 0 \in 0..Pages
      BY NothingFits DEF Checkpoints, NoCheckpoint
    <3> QED BY <3>1, <3>2, NothingFits DEF ControlInit, ControlTyped
  <2>2. Waited
    <3>1. storageJob.by = "nobody" /\ storageJob.ok = TRUE /\ storageJob.todo = <<>>
      BY DEF ControlInit, NoWrites
    <3>2. <<>> \in Seq(Writes)
      OBVIOUS
    <3> QED BY <3>1, <3>2 DEF Waited, ControlInit
  <2>3. Unclaimed /\ Claimed
    BY DEF ControlInit, Unclaimed, Claimed, FreshMemory, NoRound, Claimless, Informed,
       AfterBootstrap, BeforeBootstrap, Kinds
  <2>4. Cached
    BY DEF ControlInit, CacheInit, NoMerge, Cached, Behind, FreshMemory, NoCheckpoint, NoRound,
       Absent
  <2>5. CacheInv
    BY DEF ControlInit, CacheInit, NoSave, NoMerge, CacheInv, Known, Held
  <2> QED BY <2>1, <2>2, <2>3, <2>4, <2>5 DEF ControlInv
<1>2. CacheInv /\ [ControlNext]_control => CacheInv' /\ Known \subseteq Known'
  BY CacheMoves
<1>3. ControlInv /\ CacheInv /\ [ControlNext]_control => ControlInv'
  <2> SUFFICES ASSUME ControlInv, CacheInv, [ControlNext]_control PROVE ControlInv'
    OBVIOUS
  <2>0. Known \subseteq Known'
    BY <1>2
  <2>1. CASE RunSyncRound
    BY <2>0, <2>1, BeginKeeps, ClaimRoundKeeps, ClaimStepKeeps, SaveTokenKeeps, TokenSavedKeeps,
       LoadTokenKeeps, BootstrapKeeps, SyncKeeps, ProblemsKeep, SaveCheckpointKeeps,
       CheckpointSavedKeeps, ClearKeeps DEF RunSyncRound
  <2>2. CASE UNCHANGED control
    <3>1. UNCHANGED <<nvs, storageJob, ram, bodies, key, round, Known, merge, keys, reported>>
      BY <2>2, KnownKept DEF control
    <3>2. Writes' = Writes
      BY <3>1 DEF Writes, Erasures
    <3>3. Waited'
      BY <3>1, <3>2 DEF ControlInv, Waited
    <3>4. ControlTyped' /\ Unclaimed' /\ Claimed' /\ Cached'
      BY <3>1 DEF ControlInv, ControlTyped, Unclaimed, Claimed, OfToken, Cached, Behind
    <3> QED BY <3>3, <3>4 DEF ControlInv
  <2> QED BY <2>0, <2>1, <2>2, StorageKeeps, CacheStepKeeps, ClearKeeps, PowerLossKeeps
          DEF ControlNext
<1> QED BY <1>1, <1>2, <1>3, PTL DEF ControlSpec

\* For any number of claims, pages, faults and power losses, and whenever a 401 of another
\* task erases the identity: a request id names one request, a sync carries the checkpoint
\* of its own identity, and the saved cursor never runs ahead of the files of the problem cache
\* in any other way than the three of CursorBehindCache.
THEOREM ControlIsSound == ControlSpec => []ControlSound
<1>1. ASSUME ControlInv
      PROVE  ControlSound
  <2>1. ASSUME NEW kind \in Kinds
        PROVE  Cardinality(bodies[kind]) <= 1
    <3>1. \A b, c \in bodies[kind] : b = c
      BY <1>1 DEF ControlInv, Unclaimed, Claimed, Kinds
    <3>2. CASE bodies[kind] = {}
      BY <3>2, FS_EmptySet
    <3>3. ASSUME NEW b \in bodies[kind]
          PROVE  Cardinality(bodies[kind]) <= 1
      <4>1. bodies[kind] = {b}
        BY <3>1
      <4> QED BY <4>1, FS_Singleton
    <3> QED BY <3>2, <3>3
  <2>2. SyncOfOneIdentity
    BY <1>1 DEF ControlInv, Claimed, SyncOfOneIdentity
  <2>3. CursorBehindCache
    BY <1>1 DEF ControlInv, Cached, Behind, Known, CursorBehindCache
  <2> QED BY <2>1, <2>2, <2>3 DEF ControlSound, IdsNameOneRequest
<1> QED BY <1>1, ControlInvariance, PTL

--------------------------------------------------------------------------------
(* The spoken dialogue: FlashSound is inductive after it is strengthened. *)

StopPlaces == {"stop", "join", "drain", "detach", "destroy", "linger", "halt", "halting",
               "end", "retain"}
StartPlaces == {"start", "begin", "connect"}
TalkPlaces == {"idle", "press", "silence", "listen", "await", "mute", "submit", "send"}

FlashType ==
    [status : {"idle", "connecting", "updating", "streaming", "error"},
     client : 0..MaxGestures, connected : BOOLEAN, pressed : BOOLEAN,
     capturing : BOOLEAN, seq : Nat, base : Nat, inFlight : BOOLEAN]
TurnType == [user : BOOLEAN, think : BOOLEAN, text : BOOLEAN, done : BOOLEAN,
             thinkRow : BOOLEAN, textRow : BOOLEAN]
RowKinds == {"user", "thinking", "assistant"}
ChatType == [turn : TurnType, rows : Seq(RowKinds)]
PlayType ==
    [at : {"none", "receive", "check", "discard", "drained", "open", "write", "written"},
     ring : Nat, queued : Nat, drain : BOOLEAN, abort : BOOLEAN,
     writing : BOOLEAN, armed : BOOLEAN, stop : BOOLEAN]
SoundType == [session : BOOLEAN, rx : BOOLEAN, tx : BOOLEAN, amp : BOOLEAN]
PlaceType == [ui : StopPlaces \cup StartPlaces \cup TalkPlaces,
              life : StopPlaces \cup {"idle", "report"}]
LocalType == [again : BOOLEAN, held : BOOLEAN, was : BOOLEAN, connected : BOOLEAN,
              to : 0..MaxGestures, dead : [Stoppers -> 0..MaxGestures]]
EndingType == [intentional : BOOLEAN, reason : BOOLEAN]
ClientType == [state : {"none", "connecting", "up", "lost"},
               busy : {"no", "starting", "counting"}]
ServerType == [on : 0..MaxGestures, told : SUBSET {"thinking", "text"}, asr : Nat]
PastType ==
    [gestures : 0..MaxGestures, clients : 0..MaxGestures, blocks : 0..MaxBlocks,
     faults : 0..MaxFlashFaults, warm : BOOLEAN, heard : BOOLEAN,
     stray : BOOLEAN, emptyTurn : BOOLEAN, overlap : BOOLEAN]

\* The types of the variables.
FlashTypes ==
    /\ flash \in FlashType
    /\ chat \in ChatType
    /\ capture \in {"none", "warmup", "read", "send", "exit"}
    /\ play \in PlayType
    /\ audio \in SoundType
    /\ flashPc \in PlaceType
    /\ local \in LocalType
    /\ ending \in EndingType
    /\ ws \in [Clients -> ClientType]
    /\ server \in ServerType
    /\ past \in PastType

\* The buffer holds no more blocks than arrived, and no block is counted twice.
Counting == {c \in Clients : ws[c].busy = "counting"}
BlocksSound ==
    /\ play.ring <= past.blocks
    /\ play.queued + Cardinality(Counting) <= past.blocks

\* A client exists as long as the session or a stop that detached it names it; a new
\* one is made by the UI task alone, when the session has none.
ClientsSound ==
    /\ past.clients <= past.gestures
    /\ flashPc.ui \notin TalkPlaces => past.clients < past.gestures
    /\ flash.client <= past.clients
    /\ flashPc.ui = "connect" => flash.client = 0
    /\ \A t \in Stoppers : local.dead[t] # 0 =>
        /\ flashPc[t] = "destroy"
        /\ local.dead[t] # flash.client
        /\ local.dead[t] <= past.clients
    /\ \A c \in Clients :
        /\ ws[c].state # "none" => c \in {flash.client, local.dead["ui"], local.dead["life"]}
        /\ ws[c].busy # "no" => ws[c].state = "up"
    /\ server.on # 0 => ws[server.on].state = "up"
    /\ flashPc.ui = "send" => local.to # 0

\* The session records only under the key.
KeySound ==
    /\ flash.pressed \/ flash.capturing =>
        \/ flashPc.ui = "stop"
        \/ local.held /\ flashPc.ui \in {"idle", "silence", "listen"}
    /\ local.was => flashPc.ui \in {"await", "mute", "submit"}
    /\ flashPc.ui \in StartPlaces \cup {"press"} => local.held
    /\ local.again => local.held /\ flashPc.ui \in StopPlaces

\* Before the first block of a turn the sequence stands where the turn began.
Unheard == past.warm /\ ~past.heard
TurnsSound ==
    ~past.stray =>
        /\ ~past.emptyTurn
        /\ flash.connected => flash.client # 0 /\ ws[flash.client].state = "up"
        /\ Unheard /\ (flash.capturing \/ local.was) =>
            /\ flash.seq = flash.base
            /\ flash.client # 0 => ws[flash.client].state # "connecting"
        /\ flashPc.ui = "send" => ~Unheard

\* The history is in order, and as long as a turn may still get a row of a kind the
\* last words of a user are not followed by one.
RowsInOrder(rows) ==
    \A i \in DOMAIN rows :
        rows[i] # "user" =>
            \E j \in 1..(i - 1) :
                rows[j] = "user" /\ \A k \in (j + 1)..(i - 1) : rows[k] \notin {"user", rows[i]}
MayGet(rows, kind) ==
    \E j \in 1..Len(rows) :
        rows[j] = "user" /\ \A k \in (j + 1)..Len(rows) : rows[k] \notin {"user", kind}
InOrder(x) ==
    /\ RowsInOrder(x.rows)
    /\ x.turn.user /\ ~x.turn.thinkRow => MayGet(x.rows, "thinking")
    /\ x.turn.user /\ ~x.turn.textRow => MayGet(x.rows, "assistant")
HistorySound == InOrder(chat)

\* Without a failure and a stray connection the UI task alone stops sessions, whole
\* ones; a response under way is known to the session.
Stopping == {"halt", "halting", "end", "start", "begin", "connect"}
Faultless ==
    past.faults = 0 /\ ~past.stray =>
        /\ ~past.overlap
        /\ flashPc.life = "idle" /\ ~ending.reason /\ local.dead["life"] = 0
        /\ flash.status # "error" /\ ~local.again
        /\ audio.tx = audio.rx
        /\ \/ flash.client # 0 \/ local.dead["ui"] # 0
           \/ capture # "none" \/ flashPc.ui = "connect"
           => audio.session
        /\ flash.connected => flash.client # 0
        /\ flashPc.ui \in {"silence", "listen"} => flash.client # 0
        /\ flash.client # 0 => flash.status # "idle"
        /\ flashPc.ui \in Stopping \cup {"destroy", "linger"} => flash.client = 0
        /\ flashPc.ui = "connect" => flash.status # "idle"
        /\ flashPc.ui \in Stopping => capture = "none"
        /\ flashPc.ui # "retain" /\ (flashPc.ui = "end" => ~audio.rx)
        /\ flash.status = "idle" /\ flashPc.ui \notin {"destroy", "linger"}
            => capture = "none"
        /\ server.on # 0 => flash.inFlight
        /\ flashPc.ui = "send" => flash.inFlight /\ server.on = 0

FlashInv == /\ FlashTypes /\ BlocksSound /\ ClientsSound /\ KeySound /\ TurnsSound
            /\ HistorySound /\ Faultless /\ UsersHaveChannels /\ ChannelsWithinSession

\* The bounds are numbers.
LEMMA FlashBounds == MaxGestures \in Nat /\ MaxBlocks \in Nat /\ MaxFlashFaults \in Nat
BY FlashAssumption

\* A failure is counted within its bound.
LEMMA FaultIsTyped ==
    ASSUME FlashTypes, Fault
    PROVE  past' \in PastType
<1>1. past.faults + 1 \in 0..MaxFlashFaults
  BY FlashBounds DEF FlashTypes, PastType, Fault
<1>2. QED BY <1>1 DEF FlashTypes, PastType, Fault

\* The rows that complete a turn keep the type of the chat.
LEMMA RowsAreTyped ==
    ASSUME NEW x \in ChatType
    PROVE  EnsureThinking(x) \in ChatType /\ FinalizeAssistant(x) \in ChatType
<1>1. x.turn \in TurnType /\ x.rows \in Seq(RowKinds)
  BY DEF ChatType
<1>2. [x.turn EXCEPT !.thinkRow = TRUE] \in TurnType
  BY <1>1 DEF TurnType
<1>3. [x.turn EXCEPT !.textRow = TRUE] \in TurnType
  BY <1>1 DEF TurnType
<1>4. /\ Append(x.rows, "thinking") \in Seq(RowKinds)
      /\ Append(x.rows, "assistant") \in Seq(RowKinds)
  BY <1>1 DEF RowKinds
<1>5. QED BY <1>1, <1>2, <1>3, <1>4 DEF ChatType, EnsureThinking, FinalizeAssistant

\* The type of flash.
LEMMA TypeOfFlash ==
    ASSUME FlashTypes, ClientsSound, FlashNext
    PROVE  flash' \in FlashType
<1>1. CASE UNCHANGED <<flash>>
  BY <1>1 DEF FlashTypes
<1>2. ASSUME NEW t \in Stoppers, StopBegins(t) PROVE flash' \in FlashType
  BY <1>2, FlashBounds DEF FlashTypes, FlashType, StopBegins, Goto
<1>3. ASSUME NEW t \in Stoppers, Detach(t) PROVE flash' \in FlashType
  <2>1. (flash.connected /\ flash.client = 0) \in BOOLEAN
    OBVIOUS
  <2>2. 0 \in 0..MaxGestures
    BY FlashBounds
  <2>3. QED BY <1>3, <2>1, <2>2 DEF FlashTypes, FlashType, Detach
<1>4. CASE LifecycleReports
  BY <1>4, FlashBounds DEF FlashTypes, FlashType, LifecycleReports, SetErrorLocked, Goto
<1>5. CASE ReleaseKey
  BY <1>5, FlashBounds DEF FlashTypes, FlashType, ReleaseKey, Goto
<1>6. CASE BeginSession
  BY <1>6, FlashBounds DEF FlashTypes, FlashType, BeginSession, Goto, Fault
<1>7. CASE OpenClient
  <2>1. past.clients + 1 \in 0..MaxGestures
    BY <1>7, FlashBounds DEF FlashTypes, PastType, ClientsSound, PlaceType, TalkPlaces,
       OpenClient
  <2>2. CASE flash' = [flash EXCEPT !.client = past.clients + 1]
    BY <2>1, <2>2 DEF FlashTypes, FlashType
  <2>3. CASE flash' = SetErrorLocked(flash)
    BY <2>3 DEF FlashTypes, FlashType, SetErrorLocked
  <2>4. QED BY <1>7, <2>2, <2>3 DEF OpenClient
<1>8. CASE Press
  BY <1>8, FlashBounds DEF FlashTypes, FlashType, Press, Talking, NoTurn, Goto
<1>9. CASE Listen
  BY <1>9, FlashBounds DEF FlashTypes, FlashType, Listen, StartAudioStreaming, Goto,
     SetStreamAudioAmp, Fault, SetErrorLocked, RequestFlashTerminalStop
<1>10. CASE Submit
  <2>1. CASE flash' = [flash EXCEPT !.seq = @ + 1, !.inFlight = TRUE]
    <3>1. flash.seq + 1 \in Nat
      BY DEF FlashTypes, FlashType
    <3>2. QED BY <2>1, <3>1 DEF FlashTypes, FlashType
  <2>2. QED BY <1>10, <2>1 DEF FlashTypes, Submit
<1>11. CASE OpenCapture
  BY <1>11, FlashBounds DEF FlashTypes, FlashType, OpenCapture, Fault, SetErrorLocked,
     RequestFlashTerminalStop
<1>12. CASE SendBlock
  BY <1>12, FlashBounds DEF FlashTypes, FlashType, SendBlock
<1>13. CASE FinishAudioStreamingTask
  BY <1>13, FlashBounds DEF FlashTypes, FlashType, FinishAudioStreamingTask
<1>14. ASSUME NEW c \in Clients, Connected(c) PROVE flash' \in FlashType
  BY <1>14, FlashBounds DEF FlashTypes, FlashType, Connected
<1>15. ASSUME NEW c \in Clients, SessionReady(c) PROVE flash' \in FlashType
  BY <1>15, FlashBounds DEF FlashTypes, FlashType, SessionReady
<1>16. ASSUME NEW c \in Clients, AutoRecord(c) PROVE flash' \in FlashType
  BY <1>16, FlashBounds DEF FlashTypes, FlashType, AutoRecord, StartAudioStreaming,
     SetStreamAudioAmp, Fault, SetErrorLocked, RequestFlashTerminalStop
<1>17. ASSUME NEW c \in Clients, TurnDone(c) PROVE flash' \in FlashType
  BY <1>17, FlashBounds DEF FlashTypes, FlashType, TurnDone, Hearing, FinalizeAssistant,
     EnsureThinking, Handled
<1>18. ASSUME NEW c \in Clients, ErrorArrives(c) PROVE flash' \in FlashType
  BY <1>18, FlashBounds DEF FlashTypes, FlashType, ErrorArrives, Fault, SetErrorLocked,
     RequestFlashTerminalStop
<1>19. ASSUME NEW c \in Clients, Disconnected(c) PROVE flash' \in FlashType
  BY <1>19, FlashBounds DEF FlashTypes, FlashType, Disconnected, Fault, SetErrorLocked,
     RequestFlashTerminalStop
<1>20. QED BY <1>1, <1>2, <1>3, <1>4, <1>5, <1>6, <1>7, <1>8, <1>9, <1>10, <1>11, <1>12, <1>13,
    <1>14, <1>15, <1>16, <1>17, <1>18, <1>19 DEF FlashNext, Stop, Ui, Capture, Playback,
    WebsocketEvent, Join, StopPlayback, Destroy, Linger, HaltPlayback, TearDown, StopEnds,
    LifecycleWakes, PressKey, LeavePage, AbortFlashPlayback, PollFlashAmpIdle,
    EnsurePlaybackRingbuf, BargeIn, AwaitCapture, Mute, SendTurnEnd, ReadBlock, Receive,
    Discard, CheckBlock, OpenAmplifier, WriteBlock, ArmTail, TranscriptArrives,
    ThinkingArrives, TextArrives, AudioArrives, AudioCounted, Handled

\* The type of chat.
LEMMA TypeOfChat ==
    ASSUME FlashTypes, ClientsSound, FlashNext
    PROVE  chat' \in ChatType
<1>1. CASE UNCHANGED <<chat>>
  BY <1>1 DEF FlashTypes
<1>2. CASE BeginSession
  <2>1. [chat EXCEPT !.turn.think = FALSE, !.turn.text = FALSE] \in ChatType
    BY DEF FlashTypes, ChatType, TurnType
  <2>2. chat' = chat \/ chat' = [chat EXCEPT !.turn.think = FALSE, !.turn.text = FALSE]
    BY <1>2 DEF BeginSession
  <2>3. QED BY <2>1, <2>2 DEF FlashTypes
<1>3. CASE Press
  BY <1>3 DEF FlashTypes, ChatType, TurnType, RowKinds, Press, Talking, NoTurn, Goto
<1>4. ASSUME NEW c \in Clients, TranscriptArrives(c) PROVE chat' \in ChatType
  <2> DEFINE said == IF chat.turn.user THEN chat
                     ELSE [turn |-> [chat.turn EXCEPT !.user = TRUE],
                           rows |-> Append(chat.rows, "user")]
  <2>1. said \in ChatType
    <3>1. chat.turn \in TurnType /\ chat.rows \in Seq(RowKinds)
      BY DEF FlashTypes, ChatType
    <3>2. [chat.turn EXCEPT !.user = TRUE] \in TurnType
      BY <3>1 DEF TurnType
    <3>3. Append(chat.rows, "user") \in Seq(RowKinds)
      BY <3>1 DEF RowKinds
    <3>4. QED BY <3>2, <3>3 DEF FlashTypes, ChatType
  <2>2. EnsureThinking(said) \in ChatType
    BY <2>1, RowsAreTyped
  <2>3. FinalizeAssistant(EnsureThinking(said)) \in ChatType
    BY <2>2, RowsAreTyped
  <2>4. chat' \in {EnsureThinking(said), FinalizeAssistant(EnsureThinking(said))}
    BY <1>4 DEF TranscriptArrives
  <2>5. QED BY <2>2, <2>3, <2>4
<1>5. ASSUME NEW c \in Clients, ThinkingArrives(c) PROVE chat' \in ChatType
  <2>1. [chat EXCEPT !.turn.think = TRUE] \in ChatType
    BY DEF FlashTypes, ChatType, TurnType
  <2>2. QED BY <1>5, <2>1, RowsAreTyped DEF ThinkingArrives
<1>6. ASSUME NEW c \in Clients, TextArrives(c) PROVE chat' \in ChatType
  BY <1>6 DEF FlashTypes, ChatType, TurnType, RowKinds, TextArrives, Hearing, Handled
<1>7. ASSUME NEW c \in Clients, TurnDone(c) PROVE chat' \in ChatType
  <2> DEFINE ended == [chat EXCEPT !.turn.done = TRUE]
  <2>1. ended \in ChatType
    BY DEF FlashTypes, ChatType, TurnType
  <2>2. FinalizeAssistant(EnsureThinking(ended)) \in ChatType
    BY <2>1, RowsAreTyped
  <2>3. chat' \in {ended, FinalizeAssistant(EnsureThinking(ended))}
    BY <1>7 DEF TurnDone
  <2>4. QED BY <2>1, <2>2, <2>3
<1>8. QED BY <1>1, <1>2, <1>3, <1>4, <1>5, <1>6, <1>7 DEF FlashNext, Stop, Ui, Capture,
    Playback, WebsocketEvent, StopBegins, Join, StopPlayback, Detach, Destroy, Linger,
    HaltPlayback, TearDown, StopEnds, LifecycleWakes, LifecycleReports, PressKey, LeavePage,
    ReleaseKey, AbortFlashPlayback, PollFlashAmpIdle, EnsurePlaybackRingbuf, OpenClient,
    BargeIn, Listen, AwaitCapture, Mute, Submit, SendTurnEnd, OpenCapture, ReadBlock,
    SendBlock, FinishAudioStreamingTask, Receive, Discard, CheckBlock, OpenAmplifier,
    WriteBlock, ArmTail, Connected, SessionReady, AutoRecord, AudioArrives, AudioCounted,
    ErrorArrives, Disconnected

\* The type of capture.
LEMMA TypeOfCapture ==
    ASSUME FlashTypes, ClientsSound, FlashNext
    PROVE  capture' \in {"none", "warmup", "read", "send", "exit"}
<1>1. CASE UNCHANGED <<capture>>
  BY <1>1 DEF FlashTypes
<1>2. CASE Listen
  BY <1>2 DEF FlashTypes, Listen, StartAudioStreaming, Goto, SetStreamAudioAmp, Fault,
     SetErrorLocked, RequestFlashTerminalStop
<1>3. CASE OpenCapture
  BY <1>3 DEF FlashTypes, OpenCapture, Fault, SetErrorLocked, RequestFlashTerminalStop
<1>4. CASE ReadBlock
  BY <1>4 DEF FlashTypes, ReadBlock
<1>5. CASE SendBlock
  BY <1>5 DEF FlashTypes, SendBlock
<1>6. CASE FinishAudioStreamingTask
  BY <1>6 DEF FlashTypes, FinishAudioStreamingTask
<1>7. ASSUME NEW c \in Clients, AutoRecord(c)
       PROVE  capture' \in {"none", "warmup", "read", "send", "exit"}
  BY <1>7 DEF FlashTypes, AutoRecord, StartAudioStreaming, SetStreamAudioAmp, Fault,
     SetErrorLocked, RequestFlashTerminalStop
<1>8. QED BY <1>1, <1>2, <1>3, <1>4, <1>5, <1>6, <1>7 DEF FlashNext, Stop, Ui, Capture,
    Playback, WebsocketEvent, StopBegins, Join, StopPlayback, Detach, Destroy, Linger,
    HaltPlayback, TearDown, StopEnds, LifecycleWakes, LifecycleReports, PressKey, LeavePage,
    ReleaseKey, AbortFlashPlayback, PollFlashAmpIdle, EnsurePlaybackRingbuf, BeginSession,
    OpenClient, Press, BargeIn, AwaitCapture, Mute, Submit, SendTurnEnd, Receive, Discard,
    CheckBlock, OpenAmplifier, WriteBlock, ArmTail, Connected, SessionReady, TranscriptArrives,
    ThinkingArrives, TextArrives, TurnDone, AudioArrives, AudioCounted, ErrorArrives,
    Disconnected, Handled

\* The type of play.
LEMMA TypeOfPlay ==
    ASSUME FlashTypes, ClientsSound, FlashNext
    PROVE  play' \in PlayType
<1>1. CASE UNCHANGED <<play>>
  BY <1>1 DEF FlashTypes
<1>2. ASSUME NEW t \in Stoppers, StopPlayback(t) PROVE play' \in PlayType
  BY <1>2 DEF FlashTypes, PlayType, StopPlayback, DrainPlaybackRingbuf, SetStreamAudioAmp, Goto
<1>3. ASSUME NEW t \in Stoppers, HaltPlayback(t) PROVE play' \in PlayType
  BY <1>3 DEF FlashTypes, PlayType, HaltPlayback, Goto
<1>4. CASE AbortFlashPlayback
  BY <1>4 DEF FlashTypes, PlayType, AbortFlashPlayback, Gesture, Gestured,
     DrainPlaybackRingbuf, SetStreamAudioAmp
<1>5. CASE PollFlashAmpIdle
  BY <1>5 DEF FlashTypes, PlayType, PollFlashAmpIdle, SetStreamAudioAmp
<1>6. CASE EnsurePlaybackRingbuf
  BY <1>6 DEF FlashTypes, PlayType, EnsurePlaybackRingbuf, FreshPlayback, Goto
<1>7. CASE BargeIn
  BY <1>7 DEF FlashTypes, PlayType, BargeIn, DrainPlaybackRingbuf, SetStreamAudioAmp, Goto
<1>8. CASE Listen
  BY <1>8 DEF FlashTypes, PlayType, Listen, StartAudioStreaming, Goto, SetStreamAudioAmp,
     Fault, SetErrorLocked, RequestFlashTerminalStop
<1>9. CASE Mute
  BY <1>9 DEF FlashTypes, PlayType, Mute, SetStreamAudioAmp, Goto
<1>10. CASE Submit
  BY <1>10 DEF FlashTypes, PlayType, FlashType, Submit, MaySubmit, Goto
<1>11. CASE Receive
  <2>1. CASE play' = [play EXCEPT !.at = "none"]
    BY <2>1 DEF FlashTypes, PlayType
  <2>2. ASSUME NEW place \in {"discard", "check"}, play.ring > 0,
               play' = [play EXCEPT !.at = place, !.ring = @ - 1]
        PROVE  play' \in PlayType
    <3>1. play.ring - 1 \in Nat
      BY <2>2 DEF FlashTypes, PlayType
    <3>2. QED BY <2>2, <3>1 DEF FlashTypes, PlayType
  <2>3. QED BY <1>11, <2>1, <2>2 DEF Receive
<1>12. CASE Discard
  <2>1. CASE play' = [play EXCEPT !.at = "drained", !.ring = 0, !.queued = 0, !.drain = FALSE]
    BY <2>1 DEF FlashTypes, PlayType
  <2>2. CASE play' = [play EXCEPT !.at = "receive", !.writing = FALSE, !.abort = FALSE,
                                  !.armed = FALSE]
    BY <2>2 DEF FlashTypes, PlayType
  <2>3. QED BY <1>12, <2>1, <2>2 DEF Discard
<1>13. CASE CheckBlock
  BY <1>13 DEF FlashTypes, PlayType, CheckBlock
<1>14. CASE OpenAmplifier
  BY <1>14 DEF FlashTypes, PlayType, OpenAmplifier, SetStreamAudioAmp
<1>15. CASE WriteBlock
  <2>1. (IF play.queued > 0 THEN play.queued - 1 ELSE 0) \in Nat
    BY DEF FlashTypes, PlayType
  <2>2. QED BY <1>15, <2>1 DEF FlashTypes, PlayType, WriteBlock
<1>16. CASE ArmTail
  BY <1>16 DEF FlashTypes, PlayType, ArmTail
<1>17. ASSUME NEW c \in Clients, AutoRecord(c) PROVE play' \in PlayType
  BY <1>17 DEF FlashTypes, PlayType, AutoRecord, StartAudioStreaming, SetStreamAudioAmp, Fault,
     SetErrorLocked, RequestFlashTerminalStop
<1>18. ASSUME NEW c \in Clients, AudioArrives(c) PROVE play' \in PlayType
  BY <1>18 DEF FlashTypes, PlayType, AudioArrives, Hearing
<1>19. ASSUME NEW c \in Clients, AudioCounted(c) PROVE play' \in PlayType
  BY <1>19 DEF FlashTypes, PlayType, AudioCounted
<1>20. QED BY <1>1, <1>2, <1>3, <1>4, <1>5, <1>6, <1>7, <1>8, <1>9, <1>10, <1>11, <1>12, <1>13,
    <1>14, <1>15, <1>16, <1>17, <1>18, <1>19 DEF FlashNext, Stop, Ui, Capture, Playback,
    WebsocketEvent, StopBegins, Join, Detach, Destroy, Linger, TearDown, StopEnds,
    LifecycleWakes, LifecycleReports, PressKey, LeavePage, ReleaseKey, BeginSession,
    OpenClient, Press, AwaitCapture, SendTurnEnd, OpenCapture, ReadBlock, SendBlock,
    FinishAudioStreamingTask, Connected, SessionReady, TranscriptArrives, ThinkingArrives,
    TextArrives, TurnDone, ErrorArrives, Disconnected, Handled

\* The type of audio.
LEMMA TypeOfAudio ==
    ASSUME FlashTypes, ClientsSound, FlashNext
    PROVE  audio' \in SoundType
<1>1. CASE UNCHANGED <<audio>>
  BY <1>1 DEF FlashTypes
<1>2. ASSUME NEW t \in Stoppers, StopPlayback(t) PROVE audio' \in SoundType
  BY <1>2 DEF FlashTypes, SoundType, StopPlayback, DrainPlaybackRingbuf, SetStreamAudioAmp,
     Goto
<1>3. ASSUME NEW t \in Stoppers, TearDown(t) PROVE audio' \in SoundType
  BY <1>3 DEF FlashTypes, SoundType, TearDown, PlaybackGone, Fault, CaptureGone, Goto
<1>4. ASSUME NEW t \in Stoppers, StopEnds(t) PROVE audio' \in SoundType
  BY <1>4 DEF FlashTypes, SoundType, StopEnds, MayEnd, EndAudioActivity, Fault, Goto
<1>5. CASE AbortFlashPlayback
  BY <1>5 DEF FlashTypes, SoundType, AbortFlashPlayback, Gesture, Gestured,
     DrainPlaybackRingbuf, SetStreamAudioAmp
<1>6. CASE PollFlashAmpIdle
  BY <1>6 DEF FlashTypes, SoundType, PollFlashAmpIdle, SetStreamAudioAmp
<1>7. CASE BeginSession
  BY <1>7 DEF FlashTypes, SoundType, BeginSession, Goto, Fault
<1>8. CASE OpenClient
  BY <1>8, ZenonT(60)
     DEF FlashTypes, SoundType, PastType, PlaceType, TalkPlaces, ClientsSound, Clients,
     OpenClient, Fault, SetErrorLocked, EndAudioActivity, Goto
<1>9. CASE BargeIn
  BY <1>9 DEF FlashTypes, SoundType, BargeIn, DrainPlaybackRingbuf, SetStreamAudioAmp, Goto
<1>10. CASE Listen
  BY <1>10 DEF FlashTypes, SoundType, Listen, StartAudioStreaming, Goto, SetStreamAudioAmp,
     Fault, SetErrorLocked, RequestFlashTerminalStop
<1>11. CASE Mute
  BY <1>11 DEF FlashTypes, SoundType, Mute, SetStreamAudioAmp, Goto
<1>12. CASE OpenCapture
  BY <1>12 DEF FlashTypes, SoundType, OpenCapture, Fault, SetErrorLocked,
     RequestFlashTerminalStop
<1>13. CASE OpenAmplifier
  BY <1>13 DEF FlashTypes, SoundType, OpenAmplifier, SetStreamAudioAmp
<1>14. ASSUME NEW c \in Clients, AutoRecord(c) PROVE audio' \in SoundType
  BY <1>14 DEF FlashTypes, SoundType, AutoRecord, StartAudioStreaming, SetStreamAudioAmp,
     Fault, SetErrorLocked, RequestFlashTerminalStop
<1>15. QED BY <1>1, <1>2, <1>3, <1>4, <1>5, <1>6, <1>7, <1>8, <1>9, <1>10, <1>11, <1>12, <1>13,
    <1>14 DEF FlashNext, Stop, Ui, Capture, Playback, WebsocketEvent, StopBegins, Join, Detach,
    Destroy, Linger, HaltPlayback, LifecycleWakes, LifecycleReports, PressKey, LeavePage,
    ReleaseKey, EnsurePlaybackRingbuf, Press, AwaitCapture, Submit, SendTurnEnd, ReadBlock,
    SendBlock, FinishAudioStreamingTask, Receive, Discard, CheckBlock, WriteBlock, ArmTail,
    Connected, SessionReady, TranscriptArrives, ThinkingArrives, TextArrives, TurnDone,
    AudioArrives, AudioCounted, ErrorArrives, Disconnected, Handled

\* The type of flashPc.
LEMMA TypeOfFlashPc ==
    ASSUME FlashTypes, ClientsSound, FlashNext
    PROVE  flashPc' \in PlaceType
<1>1. CASE UNCHANGED <<flashPc>>
  BY <1>1 DEF FlashTypes
<1>2. ASSUME NEW t \in Stoppers, StopBegins(t) PROVE flashPc' \in PlaceType
  BY <1>2 DEF FlashTypes, PlaceType, Stoppers, StopPlaces, StartPlaces, TalkPlaces, StopBegins,
     Goto
<1>3. ASSUME NEW t \in Stoppers, Join(t) PROVE flashPc' \in PlaceType
  BY <1>3 DEF FlashTypes, PlaceType, Stoppers, StopPlaces, StartPlaces, TalkPlaces, Join,
     Fault, Goto
<1>4. ASSUME NEW t \in Stoppers, StopPlayback(t) PROVE flashPc' \in PlaceType
  BY <1>4 DEF FlashTypes, PlaceType, Stoppers, StopPlaces, StartPlaces, TalkPlaces,
     StopPlayback, DrainPlaybackRingbuf, SetStreamAudioAmp, Goto
<1>5. ASSUME NEW t \in Stoppers, Detach(t) PROVE flashPc' \in PlaceType
  BY <1>5 DEF FlashTypes, PlaceType, Stoppers, StopPlaces, StartPlaces, TalkPlaces, Detach,
     Goto
<1>6. ASSUME NEW t \in Stoppers, Destroy(t) PROVE flashPc' \in PlaceType
  BY <1>6 DEF FlashTypes, PlaceType, Stoppers, StopPlaces, StartPlaces, TalkPlaces, Destroy,
     Goto
<1>7. ASSUME NEW t \in Stoppers, Linger(t) PROVE flashPc' \in PlaceType
  BY <1>7 DEF FlashTypes, PlaceType, Stoppers, StopPlaces, StartPlaces, TalkPlaces, Linger,
     Fault, Goto
<1>8. ASSUME NEW t \in Stoppers, HaltPlayback(t) PROVE flashPc' \in PlaceType
  BY <1>8 DEF FlashTypes, PlaceType, Stoppers, StopPlaces, StartPlaces, TalkPlaces,
     HaltPlayback, Goto
<1>9. ASSUME NEW t \in Stoppers, TearDown(t) PROVE flashPc' \in PlaceType
  BY <1>9 DEF FlashTypes, PlaceType, Stoppers, StopPlaces, StartPlaces, TalkPlaces, TearDown,
     PlaybackGone, Fault, CaptureGone, Goto
<1>10. ASSUME NEW t \in Stoppers, StopEnds(t) PROVE flashPc' \in PlaceType
  BY <1>10 DEF FlashTypes, PlaceType, Stoppers, StopPlaces, StartPlaces, TalkPlaces, StopEnds,
     MayEnd, EndAudioActivity, Fault, Goto
<1>11. CASE LifecycleWakes
  BY <1>11 DEF FlashTypes, PlaceType, Stoppers, StopPlaces, StartPlaces, TalkPlaces,
     LifecycleWakes, Goto
<1>12. CASE LifecycleReports
  BY <1>12 DEF FlashTypes, PlaceType, Stoppers, StopPlaces, StartPlaces, TalkPlaces,
     LifecycleReports, SetErrorLocked, Goto
<1>13. CASE PressKey
  BY <1>13 DEF FlashTypes, PlaceType, Stoppers, StopPlaces, StartPlaces, TalkPlaces, PressKey,
     Gesture, Gestured, Goto
<1>14. CASE LeavePage
  BY <1>14 DEF FlashTypes, PlaceType, Stoppers, StopPlaces, StartPlaces, TalkPlaces, LeavePage,
     Gesture, Gestured, Goto
<1>15. CASE ReleaseKey
  BY <1>15 DEF FlashTypes, PlaceType, Stoppers, StopPlaces, StartPlaces, TalkPlaces,
     ReleaseKey, Goto
<1>16. CASE EnsurePlaybackRingbuf
  BY <1>16 DEF FlashTypes, PlaceType, Stoppers, StopPlaces, StartPlaces, TalkPlaces,
     EnsurePlaybackRingbuf, FreshPlayback, Goto
<1>17. CASE BeginSession
  BY <1>17 DEF FlashTypes, PlaceType, Stoppers, StopPlaces, StartPlaces, TalkPlaces,
     BeginSession, Goto, Fault
<1>18. CASE OpenClient
  BY <1>18 DEF FlashTypes, PlaceType, Stoppers, StopPlaces, StartPlaces, TalkPlaces, PastType,
     ClientsSound, Clients, OpenClient, Fault, SetErrorLocked, EndAudioActivity, Goto
<1>19. CASE Press
  BY <1>19 DEF FlashTypes, PlaceType, Stoppers, StopPlaces, StartPlaces, TalkPlaces, Press,
     Talking, NoTurn, Goto
<1>20. CASE BargeIn
  BY <1>20 DEF FlashTypes, PlaceType, Stoppers, StopPlaces, StartPlaces, TalkPlaces, BargeIn,
     DrainPlaybackRingbuf, SetStreamAudioAmp, Goto
<1>21. CASE Listen
  BY <1>21 DEF FlashTypes, PlaceType, Stoppers, StopPlaces, StartPlaces, TalkPlaces, Listen,
     StartAudioStreaming, Goto, SetStreamAudioAmp, Fault, SetErrorLocked,
     RequestFlashTerminalStop
<1>22. CASE AwaitCapture
  BY <1>22 DEF FlashTypes, PlaceType, Stoppers, StopPlaces, StartPlaces, TalkPlaces,
     AwaitCapture, Fault, Goto
<1>23. CASE Mute
  BY <1>23 DEF FlashTypes, PlaceType, Stoppers, StopPlaces, StartPlaces, TalkPlaces, Mute,
     SetStreamAudioAmp, Goto
<1>24. CASE Submit
  BY <1>24 DEF FlashTypes, PlaceType, Stoppers, StopPlaces, StartPlaces, TalkPlaces, FlashType,
     Submit, MaySubmit, Goto
<1>25. CASE SendTurnEnd
  BY <1>25 DEF FlashTypes, PlaceType, Stoppers, StopPlaces, StartPlaces, TalkPlaces,
     SendTurnEnd, Goto
<1>26. QED BY <1>1, <1>2, <1>3, <1>4, <1>5, <1>6, <1>7, <1>8, <1>9, <1>10, <1>11, <1>12, <1>13,
    <1>14, <1>15, <1>16, <1>17, <1>18, <1>19, <1>20, <1>21, <1>22, <1>23, <1>24, <1>25 DEF
    FlashNext, Stop, Ui, Capture, Playback, WebsocketEvent, AbortFlashPlayback,
    PollFlashAmpIdle, OpenCapture, ReadBlock, SendBlock, FinishAudioStreamingTask, Receive,
    Discard, CheckBlock, OpenAmplifier, WriteBlock, ArmTail, Connected, SessionReady,
    AutoRecord, TranscriptArrives, ThinkingArrives, TextArrives, TurnDone, AudioArrives,
    AudioCounted, ErrorArrives, Disconnected, Handled

\* The type of local.
LEMMA TypeOfLocal ==
    ASSUME FlashTypes, ClientsSound, FlashNext
    PROVE  local' \in LocalType
<1>1. CASE UNCHANGED <<local>>
  BY <1>1 DEF FlashTypes
<1>2. ASSUME NEW t \in Stoppers, Detach(t) PROVE local' \in LocalType
  <2>1. flash.client \in 0..MaxGestures
    BY DEF FlashTypes, FlashType
  <2>2. [local.dead EXCEPT ![t] = flash.client] \in [Stoppers -> 0..MaxGestures]
    BY <2>1 DEF FlashTypes, LocalType
  <2>3. QED BY <1>2, <2>2 DEF FlashTypes, LocalType, Detach
<1>3. ASSUME NEW t \in Stoppers, Destroy(t) PROVE local' \in LocalType
  BY <1>3, FlashBounds DEF FlashTypes, LocalType, Stoppers, Destroy, Goto
<1>4. ASSUME NEW t \in Stoppers, StopEnds(t) PROVE local' \in LocalType
  BY <1>4, FlashBounds DEF FlashTypes, LocalType, Stoppers, StopEnds, MayEnd, EndAudioActivity,
     Fault, Goto
<1>5. CASE PressKey
  BY <1>5, FlashBounds DEF FlashTypes, LocalType, Stoppers, PressKey, Gesture, Gestured, Goto
<1>6. CASE LeavePage
  BY <1>6, FlashBounds DEF FlashTypes, LocalType, Stoppers, LeavePage, Gesture, Gestured, Goto
<1>7. CASE ReleaseKey
  <2>1. flash.capturing \in BOOLEAN /\ flash.connected \in BOOLEAN
    BY DEF FlashTypes, FlashType
  <2>2. QED BY <1>7, <2>1 DEF FlashTypes, LocalType, ReleaseKey
<1>8. CASE Submit
  <2>1. (IF MaySubmit THEN flash.client ELSE 0) \in 0..MaxGestures
    BY FlashBounds DEF FlashTypes, FlashType
  <2>2. QED BY <1>8, <2>1 DEF FlashTypes, LocalType, Submit
<1>9. CASE SendTurnEnd
  BY <1>9, FlashBounds DEF FlashTypes, LocalType, Stoppers, SendTurnEnd, Goto
<1>10. QED BY <1>1, <1>2, <1>3, <1>4, <1>5, <1>6, <1>7, <1>8, <1>9 DEF FlashNext, Stop, Ui,
    Capture, Playback, WebsocketEvent, StopBegins, Join, StopPlayback, Linger, HaltPlayback,
    TearDown, LifecycleWakes, LifecycleReports, AbortFlashPlayback, PollFlashAmpIdle,
    EnsurePlaybackRingbuf, BeginSession, OpenClient, Press, BargeIn, Listen, AwaitCapture,
    Mute, OpenCapture, ReadBlock, SendBlock, FinishAudioStreamingTask, Receive, Discard,
    CheckBlock, OpenAmplifier, WriteBlock, ArmTail, Connected, SessionReady, AutoRecord,
    TranscriptArrives, ThinkingArrives, TextArrives, TurnDone, AudioArrives, AudioCounted,
    ErrorArrives, Disconnected, Handled

\* The type of ending.
LEMMA TypeOfEnding ==
    ASSUME FlashTypes, ClientsSound, FlashNext
    PROVE  ending' \in EndingType
<1>1. CASE UNCHANGED <<ending>>
  BY <1>1 DEF FlashTypes
<1>2. ASSUME NEW t \in Stoppers, StopBegins(t) PROVE ending' \in EndingType
  BY <1>2 DEF FlashTypes, EndingType, StopBegins, Goto
<1>3. ASSUME NEW t \in Stoppers, StopEnds(t) PROVE ending' \in EndingType
  BY <1>3 DEF FlashTypes, EndingType, StopEnds, MayEnd, EndAudioActivity, Fault, Goto
<1>4. CASE LifecycleWakes
  BY <1>4 DEF FlashTypes, EndingType, LifecycleWakes, Goto
<1>5. CASE Listen
  BY <1>5 DEF FlashTypes, EndingType, Listen, StartAudioStreaming, Goto, SetStreamAudioAmp,
     Fault, SetErrorLocked, RequestFlashTerminalStop
<1>6. CASE OpenCapture
  BY <1>6 DEF FlashTypes, EndingType, OpenCapture, Fault, SetErrorLocked,
     RequestFlashTerminalStop
<1>7. ASSUME NEW c \in Clients, AutoRecord(c) PROVE ending' \in EndingType
  BY <1>7 DEF FlashTypes, EndingType, AutoRecord, StartAudioStreaming, SetStreamAudioAmp,
     Fault, SetErrorLocked, RequestFlashTerminalStop
<1>8. ASSUME NEW c \in Clients, ErrorArrives(c) PROVE ending' \in EndingType
  BY <1>8 DEF FlashTypes, EndingType, ErrorArrives, Fault, SetErrorLocked,
     RequestFlashTerminalStop
<1>9. ASSUME NEW c \in Clients, Disconnected(c) PROVE ending' \in EndingType
  BY <1>9 DEF FlashTypes, EndingType, Disconnected, Fault, SetErrorLocked,
     RequestFlashTerminalStop
<1>10. QED BY <1>1, <1>2, <1>3, <1>4, <1>5, <1>6, <1>7, <1>8, <1>9 DEF FlashNext, Stop, Ui,
    Capture, Playback, WebsocketEvent, Join, StopPlayback, Detach, Destroy, Linger,
    HaltPlayback, TearDown, LifecycleReports, PressKey, LeavePage, ReleaseKey,
    AbortFlashPlayback, PollFlashAmpIdle, EnsurePlaybackRingbuf, BeginSession, OpenClient,
    Press, BargeIn, AwaitCapture, Mute, Submit, SendTurnEnd, ReadBlock, SendBlock,
    FinishAudioStreamingTask, Receive, Discard, CheckBlock, OpenAmplifier, WriteBlock, ArmTail,
    Connected, SessionReady, TranscriptArrives, ThinkingArrives, TextArrives, TurnDone,
    AudioArrives, AudioCounted, Handled

\* The type of ws.
LEMMA TypeOfWs ==
    ASSUME FlashTypes, ClientsSound, FlashNext
    PROVE  ws' \in [Clients -> ClientType]
<1>1. CASE UNCHANGED <<ws>>
  BY <1>1 DEF FlashTypes
<1>2. ASSUME NEW t \in Stoppers, Destroy(t) PROVE ws' \in [Clients -> ClientType]
  BY <1>2 DEF FlashTypes, ClientType, Destroy, Goto
<1>3. CASE OpenClient
  BY <1>3 DEF FlashTypes, ClientType, PastType, PlaceType, TalkPlaces, ClientsSound, Clients,
     OpenClient, Fault, SetErrorLocked, EndAudioActivity, Goto
<1>4. ASSUME NEW c \in Clients, Connected(c) PROVE ws' \in [Clients -> ClientType]
  BY <1>4 DEF FlashTypes, ClientType, Connected
<1>5. ASSUME NEW c \in Clients, SessionReady(c) PROVE ws' \in [Clients -> ClientType]
  BY <1>5 DEF FlashTypes, ClientType, SessionReady
<1>6. ASSUME NEW c \in Clients, AutoRecord(c) PROVE ws' \in [Clients -> ClientType]
  BY <1>6 DEF FlashTypes, ClientType, AutoRecord, StartAudioStreaming, SetStreamAudioAmp,
     Fault, SetErrorLocked, RequestFlashTerminalStop
<1>7. ASSUME NEW c \in Clients, AudioArrives(c) PROVE ws' \in [Clients -> ClientType]
  BY <1>7 DEF FlashTypes, ClientType, AudioArrives, Hearing
<1>8. ASSUME NEW c \in Clients, AudioCounted(c) PROVE ws' \in [Clients -> ClientType]
  BY <1>8 DEF FlashTypes, ClientType, AudioCounted
<1>9. ASSUME NEW c \in Clients, Disconnected(c) PROVE ws' \in [Clients -> ClientType]
  BY <1>9 DEF FlashTypes, ClientType, Disconnected, Fault, SetErrorLocked,
     RequestFlashTerminalStop
<1>10. QED BY <1>1, <1>2, <1>3, <1>4, <1>5, <1>6, <1>7, <1>8, <1>9 DEF FlashNext, Stop, Ui,
    Capture, Playback, WebsocketEvent, StopBegins, Join, StopPlayback, Detach, Linger,
    HaltPlayback, TearDown, StopEnds, LifecycleWakes, LifecycleReports, PressKey, LeavePage,
    ReleaseKey, AbortFlashPlayback, PollFlashAmpIdle, EnsurePlaybackRingbuf, BeginSession,
    Press, BargeIn, Listen, AwaitCapture, Mute, Submit, SendTurnEnd, OpenCapture, ReadBlock,
    SendBlock, FinishAudioStreamingTask, Receive, Discard, CheckBlock, OpenAmplifier,
    WriteBlock, ArmTail, TranscriptArrives, ThinkingArrives, TextArrives, TurnDone,
    ErrorArrives, Handled

\* The type of server.
LEMMA TypeOfServer ==
    ASSUME FlashTypes, ClientsSound, FlashNext
    PROVE  server' \in ServerType
<1>1. CASE UNCHANGED <<server>>
  BY <1>1 DEF FlashTypes
<1>2. ASSUME NEW t \in Stoppers, Destroy(t) PROVE server' \in ServerType
  BY <1>2, FlashBounds DEF FlashTypes, ServerType, Clients, Destroy, Goto
<1>3. CASE SendTurnEnd
  <2>1. local.to \in 0..MaxGestures
    BY DEF FlashTypes, LocalType
  <2>2. QED BY <1>3, <2>1 DEF FlashTypes, ServerType, SendTurnEnd
<1>4. ASSUME NEW c \in Clients, TranscriptArrives(c) PROVE server' \in ServerType
  <2>1. server.asr > 0 /\ server' = [server EXCEPT !.asr = @ - 1]
    BY <1>4 DEF TranscriptArrives
  <2> QED BY <2>1 DEF FlashTypes, ServerType
<1>5. ASSUME NEW c \in Clients, ThinkingArrives(c) PROVE server' \in ServerType
  BY <1>5, FlashBounds DEF FlashTypes, ServerType, Clients, ThinkingArrives, Hearing,
     EnsureThinking, Handled
<1>6. ASSUME NEW c \in Clients, TextArrives(c) PROVE server' \in ServerType
  BY <1>6, FlashBounds DEF FlashTypes, ServerType, Clients, TextArrives, Hearing, Handled
<1>7. ASSUME NEW c \in Clients, TurnDone(c) PROVE server' \in ServerType
  <2>1. server' = [server EXCEPT !.on = 0]
    BY <1>7 DEF TurnDone
  <2> QED BY <2>1, FlashBounds DEF FlashTypes, ServerType
<1>8. ASSUME NEW c \in Clients, ErrorArrives(c) PROVE server' \in ServerType
  BY <1>8, FlashBounds DEF FlashTypes, ServerType, Clients, ErrorArrives, Fault,
     SetErrorLocked, RequestFlashTerminalStop
<1>9. ASSUME NEW c \in Clients, Disconnected(c) PROVE server' \in ServerType
  BY <1>9, FlashBounds DEF FlashTypes, ServerType, Clients, Disconnected, Fault,
     SetErrorLocked, RequestFlashTerminalStop
<1>10. QED BY <1>1, <1>2, <1>3, <1>4, <1>5, <1>6, <1>7, <1>8, <1>9 DEF FlashNext, Stop, Ui,
    Capture, Playback, WebsocketEvent, StopBegins, Join, StopPlayback, Detach, Linger,
    HaltPlayback, TearDown, StopEnds, LifecycleWakes, LifecycleReports, PressKey, LeavePage,
    ReleaseKey, AbortFlashPlayback, PollFlashAmpIdle, EnsurePlaybackRingbuf, BeginSession,
    OpenClient, Press, BargeIn, Listen, AwaitCapture, Mute, Submit, OpenCapture, ReadBlock,
    SendBlock, FinishAudioStreamingTask, Receive, Discard, CheckBlock, OpenAmplifier,
    WriteBlock, ArmTail, Connected, SessionReady, AutoRecord, AudioArrives, AudioCounted

\* The type of past.
LEMMA TypeOfPast ==
    ASSUME FlashTypes, ClientsSound, FlashNext
    PROVE  past' \in PastType
<1>1. CASE UNCHANGED <<past>>
  BY <1>1 DEF FlashTypes
<1>2. ASSUME NEW t \in Stoppers, Join(t) PROVE past' \in PastType
  BY <1>2, FlashBounds, SMTT(30) DEF FlashTypes, PastType, Clients, Join, Fault, Goto
<1>3. ASSUME NEW t \in Stoppers, Linger(t) PROVE past' \in PastType
  BY <1>3, FlashBounds, SMTT(30) DEF FlashTypes, PastType, Clients, Linger, Fault, Goto
<1>4. ASSUME NEW t \in Stoppers, TearDown(t) PROVE past' \in PastType
  BY <1>4, FlashBounds DEF FlashTypes, PastType, Clients, TearDown, PlaybackGone, Fault,
     CaptureGone, Goto
<1>5. ASSUME NEW t \in Stoppers, StopEnds(t) PROVE past' \in PastType
  BY <1>5, FlashBounds DEF FlashTypes, PastType, Clients, StopEnds, MayEnd, EndAudioActivity,
     Fault, Goto
<1>6. CASE PressKey
  BY <1>6, FlashBounds DEF FlashTypes, PastType, Clients, PressKey, Gesture, Gestured, Goto
<1>7. CASE LeavePage
  BY <1>7, FlashBounds DEF FlashTypes, PastType, Clients, LeavePage, Gesture, Gestured, Goto
<1>8. CASE AbortFlashPlayback
  BY <1>8, FlashBounds DEF FlashTypes, PastType, Clients, AbortFlashPlayback, Gesture,
     Gestured, DrainPlaybackRingbuf, SetStreamAudioAmp
<1>9. CASE BeginSession
  BY <1>9, FlashBounds, SMTT(30) DEF FlashTypes, PastType, Clients, BeginSession, Goto, Fault
<1>10. CASE OpenClient
  <2>1. CASE Fault
    BY <2>1, FaultIsTyped
  <2>2. CASE past' = [past EXCEPT !.clients = past.clients + 1]
    <3>1. past.clients + 1 \in 0..MaxGestures
      BY <1>10, FlashBounds DEF FlashTypes, PastType, ClientsSound, PlaceType, TalkPlaces,
         OpenClient
    <3>2. QED BY <2>2, <3>1 DEF FlashTypes, PastType
  <2>3. QED BY <1>10, <2>1, <2>2 DEF OpenClient
<1>11. CASE Press
  BY <1>11, FlashBounds DEF FlashTypes, PastType, Clients, Press, Talking, NoTurn, Goto
<1>12. CASE Listen
  BY <1>12, FaultIsTyped DEF FlashTypes, Listen, StartAudioStreaming
<1>13. CASE AwaitCapture
  BY <1>13, FlashBounds DEF FlashTypes, PastType, Clients, AwaitCapture, Fault, Goto
<1>14. CASE SendTurnEnd
  BY <1>14, FlashBounds DEF FlashTypes, PastType, Clients, SendTurnEnd, Goto
<1>15. CASE OpenCapture
  BY <1>15, FlashBounds DEF FlashTypes, PastType, Clients, OpenCapture, Fault, SetErrorLocked,
     RequestFlashTerminalStop
<1>16. CASE SendBlock
  BY <1>16, FlashBounds DEF FlashTypes, PastType, Clients, SendBlock
<1>17. ASSUME NEW c \in Clients, Connected(c) PROVE past' \in PastType
  BY <1>17, FlashBounds DEF FlashTypes, PastType, Clients, Connected
<1>18. ASSUME NEW c \in Clients, SessionReady(c) PROVE past' \in PastType
  BY <1>18, FlashBounds DEF FlashTypes, PastType, Clients, SessionReady
<1>19. ASSUME NEW c \in Clients, AutoRecord(c) PROVE past' \in PastType
  BY <1>19, FaultIsTyped DEF FlashTypes, AutoRecord, StartAudioStreaming
<1>20. ASSUME NEW c \in Clients, AudioArrives(c) PROVE past' \in PastType
  <2>1. past.blocks + 1 \in 0..MaxBlocks
    BY <1>20, FlashBounds DEF FlashTypes, PastType, AudioArrives
  <2>2. QED BY <1>20, <2>1 DEF FlashTypes, PastType, AudioArrives
<1>21. ASSUME NEW c \in Clients, ErrorArrives(c) PROVE past' \in PastType
  BY <1>21, FlashBounds DEF FlashTypes, PastType, Clients, ErrorArrives, Fault, SetErrorLocked,
     RequestFlashTerminalStop
<1>22. ASSUME NEW c \in Clients, Disconnected(c) PROVE past' \in PastType
  BY <1>22, FaultIsTyped DEF FlashTypes, Disconnected
<1>23. QED BY <1>1, <1>2, <1>3, <1>4, <1>5, <1>6, <1>7, <1>8, <1>9, <1>10, <1>11, <1>12, <1>13,
    <1>14, <1>15, <1>16, <1>17, <1>18, <1>19, <1>20, <1>21, <1>22 DEF FlashNext, Stop, Ui,
    Capture, Playback, WebsocketEvent, StopBegins, StopPlayback, Detach, Destroy, HaltPlayback,
    LifecycleWakes, LifecycleReports, ReleaseKey, PollFlashAmpIdle, EnsurePlaybackRingbuf,
    BargeIn, Mute, Submit, ReadBlock, FinishAudioStreamingTask, Receive, Discard, CheckBlock,
    OpenAmplifier, WriteBlock, ArmTail, TranscriptArrives, ThinkingArrives, TextArrives,
    TurnDone, AudioCounted, Handled

\* Every step keeps the types.
LEMMA FlashTypesStep ==
    ASSUME FlashTypes, ClientsSound, FlashNext
    PROVE  FlashTypes'
BY TypeOfFlash, TypeOfChat, TypeOfCapture, TypeOfPlay, TypeOfAudio, TypeOfFlashPc,
   TypeOfLocal, TypeOfEnding, TypeOfWs, TypeOfServer, TypeOfPast DEF FlashTypes

\* The session records only under the key.
LEMMA KeyStep ==
    ASSUME FlashTypes, KeySound, FlashNext
    PROVE  KeySound'
<1>1. CASE UNCHANGED <<flash, flashPc, local>>
  BY <1>1 DEF KeySound
<1>2. ASSUME NEW t \in Stoppers, StopBegins(t) PROVE KeySound'
  BY <1>2 DEF FlashTypes, FlashType, PlaceType, LocalType, Stoppers, StopPlaces, StartPlaces,
     KeySound, StopBegins, Goto
<1>3. ASSUME NEW t \in Stoppers, Join(t) PROVE KeySound'
  BY <1>3 DEF FlashTypes, FlashType, PlaceType, LocalType, Stoppers, StopPlaces, StartPlaces,
     KeySound, Join, Fault, Goto
<1>4. ASSUME NEW t \in Stoppers, StopPlayback(t) PROVE KeySound'
  BY <1>4 DEF FlashTypes, FlashType, PlaceType, LocalType, Stoppers, StopPlaces, StartPlaces,
     KeySound, StopPlayback, DrainPlaybackRingbuf, SetStreamAudioAmp, Goto
<1>5. ASSUME NEW t \in Stoppers, Detach(t) PROVE KeySound'
  BY <1>5 DEF FlashTypes, FlashType, PlaceType, LocalType, Stoppers, StopPlaces, StartPlaces,
     KeySound, Detach, Goto
<1>6. ASSUME NEW t \in Stoppers, Destroy(t) PROVE KeySound'
  BY <1>6 DEF FlashTypes, FlashType, PlaceType, LocalType, Stoppers, StopPlaces, StartPlaces,
     KeySound, Destroy, Goto
<1>7. ASSUME NEW t \in Stoppers, Linger(t) PROVE KeySound'
  BY <1>7 DEF FlashTypes, FlashType, PlaceType, LocalType, Stoppers, StopPlaces, StartPlaces,
     KeySound, Linger, Fault, Goto
<1>8. ASSUME NEW t \in Stoppers, HaltPlayback(t) PROVE KeySound'
  BY <1>8 DEF FlashTypes, FlashType, PlaceType, LocalType, Stoppers, StopPlaces, StartPlaces,
     KeySound, HaltPlayback, Goto
<1>9. ASSUME NEW t \in Stoppers, TearDown(t) PROVE KeySound'
  BY <1>9 DEF FlashTypes, FlashType, PlaceType, LocalType, Stoppers, StopPlaces, StartPlaces,
     KeySound, TearDown, PlaybackGone, Fault, CaptureGone, Goto
<1>10. ASSUME NEW t \in Stoppers, StopEnds(t) PROVE KeySound'
  BY <1>10 DEF FlashTypes, FlashType, PlaceType, LocalType, Stoppers, StopPlaces, StartPlaces,
     KeySound, StopEnds, MayEnd, EndAudioActivity, Fault, Goto
<1>11. CASE LifecycleWakes
  BY <1>11 DEF FlashTypes, FlashType, PlaceType, LocalType, Stoppers, StopPlaces, StartPlaces,
     KeySound, LifecycleWakes, Goto
<1>12. CASE LifecycleReports
  BY <1>12 DEF FlashTypes, FlashType, PlaceType, LocalType, Stoppers, StopPlaces, StartPlaces,
     KeySound, LifecycleReports, SetErrorLocked, Goto
<1>13. CASE PressKey
  BY <1>13 DEF FlashTypes, FlashType, PlaceType, LocalType, Stoppers, StopPlaces, StartPlaces,
     KeySound, PressKey, Gesture, Gestured, Goto
<1>14. CASE LeavePage
  BY <1>14 DEF FlashTypes, FlashType, PlaceType, LocalType, Stoppers, StopPlaces, StartPlaces,
     KeySound, LeavePage, Gesture, Gestured, Goto
<1>15. CASE ReleaseKey
  BY <1>15 DEF FlashTypes, FlashType, PlaceType, LocalType, Stoppers, StopPlaces, StartPlaces,
     KeySound, ReleaseKey, Goto
<1>16. CASE EnsurePlaybackRingbuf
  BY <1>16 DEF FlashTypes, FlashType, PlaceType, LocalType, Stoppers, StopPlaces, StartPlaces,
     KeySound, EnsurePlaybackRingbuf, FreshPlayback, Goto
<1>17. CASE BeginSession
  BY <1>17 DEF FlashTypes, FlashType, PlaceType, LocalType, Stoppers, StopPlaces, StartPlaces,
     KeySound, BeginSession, Goto, Fault
<1>18. CASE OpenClient
  BY <1>18 DEF FlashTypes, FlashType, PlaceType, LocalType, Stoppers, StopPlaces, StartPlaces,
     KeySound, OpenClient, Fault, SetErrorLocked, EndAudioActivity, Goto
<1>19. CASE Press
  BY <1>19 DEF FlashTypes, FlashType, PlaceType, LocalType, Stoppers, StopPlaces, StartPlaces,
     KeySound, Press, Talking, NoTurn, Goto
<1>20. CASE BargeIn
  BY <1>20 DEF FlashTypes, FlashType, PlaceType, LocalType, Stoppers, StopPlaces, StartPlaces,
     KeySound, BargeIn, DrainPlaybackRingbuf, SetStreamAudioAmp, Goto
<1>21. CASE Listen
  BY <1>21 DEF FlashTypes, FlashType, PlaceType, LocalType, Stoppers, StopPlaces, StartPlaces,
     KeySound, Listen, StartAudioStreaming, Goto, SetStreamAudioAmp, Fault, SetErrorLocked,
     RequestFlashTerminalStop
<1>22. CASE AwaitCapture
  BY <1>22 DEF FlashTypes, FlashType, PlaceType, LocalType, Stoppers, StopPlaces, StartPlaces,
     KeySound, AwaitCapture, Fault, Goto
<1>23. CASE Mute
  BY <1>23 DEF FlashTypes, FlashType, PlaceType, LocalType, Stoppers, StopPlaces, StartPlaces,
     KeySound, Mute, SetStreamAudioAmp, Goto
<1>24. CASE Submit
  BY <1>24 DEF FlashTypes, FlashType, PlaceType, LocalType, Stoppers, StopPlaces, StartPlaces,
     KeySound, Submit, MaySubmit, Goto
<1>25. CASE SendTurnEnd
  BY <1>25 DEF FlashTypes, FlashType, PlaceType, LocalType, Stoppers, StopPlaces, StartPlaces,
     KeySound, SendTurnEnd, Goto
<1>26. CASE OpenCapture
  BY <1>26 DEF FlashTypes, FlashType, PlaceType, LocalType, Stoppers, StopPlaces, StartPlaces,
     KeySound, OpenCapture, Fault, SetErrorLocked, RequestFlashTerminalStop
<1>27. CASE SendBlock
  BY <1>27 DEF FlashTypes, FlashType, PlaceType, LocalType, Stoppers, StopPlaces, StartPlaces,
     KeySound, SendBlock
<1>28. CASE FinishAudioStreamingTask
  BY <1>28 DEF FlashTypes, FlashType, PlaceType, LocalType, Stoppers, StopPlaces, StartPlaces,
     KeySound, FinishAudioStreamingTask
<1>29. ASSUME NEW c \in Clients, Connected(c) PROVE KeySound'
  BY <1>29 DEF FlashTypes, FlashType, PlaceType, LocalType, Stoppers, StopPlaces, StartPlaces,
     KeySound, Connected
<1>30. ASSUME NEW c \in Clients, SessionReady(c) PROVE KeySound'
  BY <1>30 DEF FlashTypes, FlashType, PlaceType, LocalType, Stoppers, StopPlaces, StartPlaces,
     KeySound, SessionReady
<1>31. ASSUME NEW c \in Clients, AutoRecord(c) PROVE KeySound'
  BY <1>31, ZenonT(60)
     DEF FlashTypes, FlashType, PlaceType, LocalType, Stoppers, StopPlaces, StartPlaces,
     KeySound, AutoRecord, StartAudioStreaming, SetStreamAudioAmp, Fault, SetErrorLocked,
     RequestFlashTerminalStop
<1>32. ASSUME NEW c \in Clients, TurnDone(c) PROVE KeySound'
  BY <1>32 DEF FlashTypes, FlashType, PlaceType, LocalType, Stoppers, StopPlaces, StartPlaces,
     KeySound, TurnDone, Hearing, FinalizeAssistant, EnsureThinking, Handled
<1>33. ASSUME NEW c \in Clients, ErrorArrives(c) PROVE KeySound'
  BY <1>33 DEF FlashTypes, FlashType, PlaceType, LocalType, Stoppers, StopPlaces, StartPlaces,
     KeySound, ErrorArrives, Fault, SetErrorLocked, RequestFlashTerminalStop
<1>34. ASSUME NEW c \in Clients, Disconnected(c) PROVE KeySound'
  BY <1>34 DEF FlashTypes, FlashType, PlaceType, LocalType, Stoppers, StopPlaces, StartPlaces,
     KeySound, Disconnected, Fault, SetErrorLocked, RequestFlashTerminalStop
<1>35. QED BY <1>1, <1>2, <1>3, <1>4, <1>5, <1>6, <1>7, <1>8, <1>9, <1>10, <1>11, <1>12, <1>13,
    <1>14, <1>15, <1>16, <1>17, <1>18, <1>19, <1>20, <1>21, <1>22, <1>23, <1>24, <1>25, <1>26,
    <1>27, <1>28, <1>29, <1>30, <1>31, <1>32, <1>33, <1>34 DEF FlashNext, Stop, Ui, Capture,
    Playback, WebsocketEvent, AbortFlashPlayback, PollFlashAmpIdle, ReadBlock, Receive,
    Discard, CheckBlock, OpenAmplifier, WriteBlock, ArmTail, TranscriptArrives,
    ThinkingArrives, TextArrives, AudioArrives, AudioCounted, Handled


\* Clients come from the UI task and go with the stop that detached them.
LEMMA ClientsStep ==
    ASSUME FlashTypes, ClientsSound, FlashNext
    PROVE  ClientsSound'
<1>1. CASE UNCHANGED <<flash, flashPc, local, ws, server, past>>
  BY <1>1 DEF ClientsSound
<1>2. ASSUME NEW t \in Stoppers, StopBegins(t) PROVE ClientsSound'
  BY <1>2, FlashBounds DEF FlashTypes, FlashType, PlaceType, LocalType, PastType, ServerType,
     ClientType, Stoppers, Clients, TalkPlaces, ClientsSound, StopBegins, Goto
<1>3. ASSUME NEW t \in Stoppers, Join(t) PROVE ClientsSound'
  BY <1>3, FlashBounds DEF FlashTypes, FlashType, PlaceType, LocalType, PastType, ServerType,
     ClientType, Stoppers, Clients, TalkPlaces, ClientsSound, Join, Fault, Goto
<1>4. ASSUME NEW t \in Stoppers, StopPlayback(t) PROVE ClientsSound'
  BY <1>4, FlashBounds DEF FlashTypes, FlashType, PlaceType, LocalType, PastType, ServerType,
     ClientType, Stoppers, Clients, TalkPlaces, ClientsSound, StopPlayback,
     DrainPlaybackRingbuf, SetStreamAudioAmp, Goto
<1>5. ASSUME NEW t \in Stoppers, Detach(t) PROVE ClientsSound'
  BY <1>5, FlashBounds DEF FlashTypes, FlashType, PlaceType, LocalType, PastType, ServerType,
     ClientType, Stoppers, Clients, TalkPlaces, ClientsSound, Detach, Goto
<1>6. ASSUME NEW t \in Stoppers, Destroy(t) PROVE ClientsSound'
  <2> DEFINE gone == local.dead[t]
  <2>1. /\ flashPc[t] = "destroy" /\ flashPc' = [flashPc EXCEPT ![t] = "linger"]
        /\ local' = [local EXCEPT !.dead[t] = 0]
        /\ UNCHANGED <<flash, past>>
    BY <1>6 DEF Destroy, Goto
  <2>2. /\ local'.dead = [local.dead EXCEPT ![t] = 0] /\ local'.to = local.to
        /\ gone \in 0..MaxGestures /\ DOMAIN local.dead = Stoppers
    BY <2>1 DEF FlashTypes, LocalType
  <2>3. \A s \in Stoppers : local'.dead[s] # 0 => s # t /\ local'.dead[s] = local.dead[s]
    BY <2>2 DEF Stoppers
  <2>4. \A s \in Stoppers : s # t => flashPc'[s] = flashPc[s]
    BY <2>1 DEF FlashTypes, PlaceType, Stoppers
  <2>5. \A d \in Clients :
            /\ d # gone => ws'[d] = ws[d]
            /\ d = gone => ws'[d].state = "none" /\ ws'[d].busy = "no"
    <3>1. CASE gone = 0
      BY <1>6, <3>1, FlashBounds DEF Destroy, Clients
    <3>2. CASE gone # 0
      <4>1. ws[gone].busy = "no" /\ ws' = [ws EXCEPT ![gone].state = "none"]
        BY <1>6, <3>2 DEF Destroy
      <4>2. QED BY <4>1 DEF FlashTypes, ClientType
    <3>3. QED BY <3>1, <3>2
  <2>6. server'.on # 0 => server'.on = server.on /\ server.on # gone /\ server.on \in Clients
    BY <1>6, FlashBounds DEF FlashTypes, ServerType, Clients, Destroy
  <2>7. \A d \in Clients :
            /\ ws'[d].state # "none"
                => d \in {flash.client, local'.dead["ui"], local'.dead["life"]}
            /\ ws'[d].busy # "no" => ws'[d].state = "up"
    BY <2>2, <2>5 DEF Stoppers, ClientsSound
  <2>8. /\ flashPc'.ui = "connect" => flashPc.ui = "connect"
        /\ flashPc'.ui = "send" => flashPc.ui = "send"
        /\ flashPc'.ui \notin TalkPlaces => flashPc.ui \notin TalkPlaces
    BY <2>1 DEF FlashTypes, PlaceType, Stoppers, TalkPlaces
  <2>9. QED BY <2>1, <2>2, <2>3, <2>4, <2>5, <2>6, <2>7, <2>8 DEF ClientsSound
<1>7. ASSUME NEW t \in Stoppers, Linger(t) PROVE ClientsSound'
  BY <1>7, FlashBounds DEF FlashTypes, FlashType, PlaceType, LocalType, PastType, ServerType,
     ClientType, Stoppers, Clients, TalkPlaces, ClientsSound, Linger, Fault, Goto
<1>8. ASSUME NEW t \in Stoppers, HaltPlayback(t) PROVE ClientsSound'
  BY <1>8, FlashBounds DEF FlashTypes, FlashType, PlaceType, LocalType, PastType, ServerType,
     ClientType, Stoppers, Clients, TalkPlaces, ClientsSound, HaltPlayback, Goto
<1>9. ASSUME NEW t \in Stoppers, TearDown(t) PROVE ClientsSound'
  <2>1. /\ flashPc[t] = "halting" /\ UNCHANGED <<flash, local, ws, server>>
        /\ past'.clients = past.clients /\ past'.gestures = past.gestures
    BY <1>9 DEF FlashTypes, PastType, TearDown, Fault
  <2>2. PICK place \in {"retain", "end"} : flashPc' = [flashPc EXCEPT ![t] = place]
    BY <1>9 DEF TearDown, Goto
  <2>3. /\ flashPc'.ui \in TalkPlaces <=> flashPc.ui \in TalkPlaces
        /\ flashPc'.ui = "connect" => flashPc.ui = "connect"
        /\ flashPc'.ui = "send" => flashPc.ui = "send"
        /\ \A u \in Stoppers : flashPc[u] = "destroy" => flashPc'[u] = "destroy"
    BY <2>1, <2>2 DEF FlashTypes, PlaceType, Stoppers, TalkPlaces
  <2> QED BY <2>1, <2>3 DEF ClientsSound
<1>10. ASSUME NEW t \in Stoppers, StopEnds(t) PROVE ClientsSound'
  BY <1>10, FlashBounds, ZenonT(60)
     DEF FlashTypes, FlashType, PlaceType, LocalType, PastType, ServerType,
     ClientType, Stoppers, Clients, TalkPlaces, ClientsSound, StopEnds, MayEnd,
     EndAudioActivity, Fault, Goto
<1>11. CASE LifecycleWakes
  BY <1>11, FlashBounds DEF FlashTypes, FlashType, PlaceType, LocalType, PastType, ServerType,
     ClientType, Stoppers, Clients, TalkPlaces, ClientsSound, LifecycleWakes, Goto
<1>12. CASE LifecycleReports
  BY <1>12, FlashBounds DEF FlashTypes, FlashType, PlaceType, LocalType, PastType, ServerType,
     ClientType, Stoppers, Clients, TalkPlaces, ClientsSound, LifecycleReports, SetErrorLocked,
     Goto
<1>13. CASE PressKey
  BY <1>13, FlashBounds DEF FlashTypes, FlashType, PlaceType, LocalType, PastType, ServerType,
     ClientType, Stoppers, Clients, TalkPlaces, ClientsSound, PressKey, Gesture, Gestured, Goto
<1>14. CASE LeavePage
  BY <1>14, FlashBounds DEF FlashTypes, FlashType, PlaceType, LocalType, PastType, ServerType,
     ClientType, Stoppers, Clients, TalkPlaces, ClientsSound, LeavePage, Gesture, Gestured,
     Goto
<1>15. CASE ReleaseKey
  BY <1>15, FlashBounds DEF FlashTypes, FlashType, PlaceType, LocalType, PastType, ServerType,
     ClientType, Stoppers, Clients, TalkPlaces, ClientsSound, ReleaseKey, Goto
<1>16. CASE AbortFlashPlayback
  BY <1>16, FlashBounds DEF FlashTypes, FlashType, PlaceType, LocalType, PastType, ServerType,
     ClientType, Stoppers, Clients, TalkPlaces, ClientsSound, AbortFlashPlayback, Gesture,
     Gestured, DrainPlaybackRingbuf, SetStreamAudioAmp
<1>17. CASE EnsurePlaybackRingbuf
  BY <1>17, FlashBounds DEF FlashTypes, FlashType, PlaceType, LocalType, PastType, ServerType,
     ClientType, Stoppers, Clients, TalkPlaces, ClientsSound, EnsurePlaybackRingbuf,
     FreshPlayback, Goto
<1>18. CASE BeginSession
  <2>1. /\ flash'.client = flash.client
        /\ past'.clients = past.clients /\ past'.gestures = past.gestures
    BY <1>18 DEF FlashTypes, FlashType, PastType, BeginSession, Goto, Fault
  <2>2. /\ \/ flashPc' = [flashPc EXCEPT !.ui = "press"]
           \/ flashPc' = [flashPc EXCEPT !.ui = "connect"] /\ flash.client = 0
        /\ flashPc.ui = "begin"
        /\ UNCHANGED <<local, ws, server>>
    BY <1>18 DEF BeginSession, Goto
  <2>3. QED BY <2>1, <2>2 DEF FlashTypes, PlaceType, Stoppers, TalkPlaces, ClientsSound
<1>19. CASE OpenClient
  <2>1. /\ flashPc.ui = "connect" /\ flashPc' = [flashPc EXCEPT !.ui = "press"]
        /\ UNCHANGED <<local, server>>
    BY <1>19 DEF OpenClient, Goto
  <2>2. CASE Fault /\ flash' = SetErrorLocked(flash) /\ UNCHANGED ws
    <3>1. /\ flash'.client = flash.client /\ UNCHANGED ws
          /\ past'.clients = past.clients /\ past'.gestures = past.gestures
      BY <2>2 DEF FlashTypes, FlashType, PastType, Fault, SetErrorLocked
    <3>2. QED BY <2>1, <3>1 DEF FlashTypes, PlaceType, Stoppers, TalkPlaces, ClientsSound
  <2> DEFINE new == past.clients + 1
  <2>3. CASE /\ past' = [past EXCEPT !.clients = new]
             /\ flash' = [flash EXCEPT !.client = new]
             /\ ws' = [ws EXCEPT ![new].state = "connecting"]
    <3>1. /\ past' = [past EXCEPT !.clients = new]
          /\ flash' = [flash EXCEPT !.client = new]
          /\ ws' = [ws EXCEPT ![new].state = "connecting"]
      BY <2>3
    <3>2. /\ flash'.client = new /\ past'.clients = new /\ past'.gestures = past.gestures
          /\ past.clients < past.gestures /\ new \in Clients
      BY <2>1, <3>1, FlashBounds
         DEF FlashTypes, FlashType, PastType, TalkPlaces, ClientsSound, Clients
    <3>3. ws[new].state = "none"
      BY <2>1, <3>2, FlashBounds, SMTT(30)
         DEF FlashTypes, PastType, FlashType, LocalType, ClientsSound, Stoppers, Clients
    <3>4. \A d \in Clients :
            /\ ws'[d].state # "none" => ws[d].state # "none" \/ d = new
            /\ ws'[d].busy = ws[d].busy
            /\ d # new => ws'[d] = ws[d]
      BY <3>1, <3>2 DEF FlashTypes, ClientType
    <3>5. server.on # 0 => server.on \in Clients
      BY FlashBounds DEF FlashTypes, ServerType, Clients
    <3>6. \A t \in Stoppers : local.dead[t] # 0 =>
            /\ flashPc'[t] = "destroy" /\ local.dead[t] # new /\ local.dead[t] <= new
      BY <2>1, FlashBounds
         DEF FlashTypes, PlaceType, LocalType, PastType, Stoppers, ClientsSound
    <3>7. past'.clients <= past'.gestures
      BY <3>2, FlashBounds DEF FlashTypes, PastType
    <3>8. flashPc'.ui = "press"
      BY <2>1 DEF FlashTypes, PlaceType
    <3>9. \A d \in Clients :
            /\ ws'[d].state # "none" => d \in {new, local.dead["ui"], local.dead["life"]}
            /\ ws'[d].busy # "no" => ws'[d].state = "up"
      BY <2>1, <3>2, <3>3, <3>4, FlashBounds DEF ClientsSound, Clients
    <3>10. server.on # 0 => ws'[server.on].state = "up"
      BY <3>3, <3>4, <3>5 DEF ClientsSound
    <3>11. new <= new
      BY FlashBounds DEF FlashTypes, PastType
    <3> HIDE DEF new
    <3>12. QED BY <2>1, <3>2, <3>6, <3>7, <3>8, <3>9, <3>10, <3>11
              DEF TalkPlaces, ClientsSound
  <2>4. QED BY <1>19, <2>2, <2>3 DEF OpenClient
<1>20. CASE Press
  BY <1>20, FlashBounds DEF FlashTypes, FlashType, PlaceType, LocalType, PastType, ServerType,
     ClientType, Stoppers, Clients, TalkPlaces, ClientsSound, Press, Talking, NoTurn, Goto
<1>21. CASE BargeIn
  BY <1>21, FlashBounds DEF FlashTypes, FlashType, PlaceType, LocalType, PastType, ServerType,
     ClientType, Stoppers, Clients, TalkPlaces, ClientsSound, BargeIn, DrainPlaybackRingbuf,
     SetStreamAudioAmp, Goto
<1>22. CASE Listen
  <2>1. /\ flash'.client = flash.client
        /\ past'.clients = past.clients /\ past'.gestures = past.gestures
    BY <1>22 DEF FlashTypes, FlashType, PastType, Listen, StartAudioStreaming, Goto,
       SetStreamAudioAmp, Fault, SetErrorLocked, RequestFlashTerminalStop
  <2>2. flashPc' = [flashPc EXCEPT !.ui = "idle"] /\ UNCHANGED <<local, ws, server>>
    BY <1>22 DEF Listen, Goto
  <2>3. flashPc.ui = "listen"
    BY <1>22 DEF Listen
  <2>4. QED BY <2>1, <2>2, <2>3 DEF FlashTypes, PlaceType, Stoppers, TalkPlaces, ClientsSound
<1>23. CASE AwaitCapture
  BY <1>23, FlashBounds DEF FlashTypes, FlashType, PlaceType, LocalType, PastType, ServerType,
     ClientType, Stoppers, Clients, TalkPlaces, ClientsSound, AwaitCapture, Fault, Goto
<1>24. CASE Mute
  BY <1>24, FlashBounds DEF FlashTypes, FlashType, PlaceType, LocalType, PastType, ServerType,
     ClientType, Stoppers, Clients, TalkPlaces, ClientsSound, Mute, SetStreamAudioAmp, Goto
<1>25. CASE Submit
  <2>1. flash'.client = flash.client
    BY <1>25 DEF FlashTypes, FlashType, Submit
  <2>2. /\ \/ flashPc' = [flashPc EXCEPT !.ui = "send"] /\ local'.to # 0
           \/ flashPc' = [flashPc EXCEPT !.ui = "idle"]
        /\ flashPc.ui = "submit" /\ local'.dead = local.dead
        /\ UNCHANGED <<ws, server, past>>
    BY <1>25 DEF FlashTypes, LocalType, Submit, MaySubmit, Goto
  <2>3. QED BY <2>1, <2>2 DEF FlashTypes, PlaceType, Stoppers, TalkPlaces, ClientsSound
<1>26. CASE SendTurnEnd
  <2>1. /\ flashPc' = [flashPc EXCEPT !.ui = "idle"] /\ flashPc.ui = "send"
        /\ local'.dead = local.dead
        /\ past'.clients = past.clients /\ past'.gestures = past.gestures
        /\ UNCHANGED <<flash, ws>>
    BY <1>26 DEF FlashTypes, LocalType, PastType, SendTurnEnd, Goto
  <2>2. server'.on # 0 => ws[server'.on].state = "up"
    BY <1>26 DEF SendTurnEnd, ClientsSound
  <2>3. QED BY <2>1, <2>2 DEF FlashTypes, PlaceType, Stoppers, TalkPlaces, ClientsSound
<1>27. CASE OpenCapture
  <2>1. /\ flash'.client = flash.client
        /\ past'.clients = past.clients /\ past'.gestures = past.gestures
    BY <1>27 DEF FlashTypes, FlashType, PastType, OpenCapture, Fault, SetErrorLocked,
       RequestFlashTerminalStop
  <2>2. UNCHANGED <<flashPc, local, ws, server>>
    BY <1>27 DEF OpenCapture
  <2>3. QED BY <2>1, <2>2 DEF ClientsSound
<1>28. CASE SendBlock
  <2>1. /\ flash'.client = flash.client
        /\ past'.clients = past.clients /\ past'.gestures = past.gestures
    BY <1>28 DEF FlashTypes, FlashType, PastType, SendBlock
  <2>2. UNCHANGED <<flashPc, local, ws, server>>
    BY <1>28 DEF SendBlock
  <2>3. QED BY <2>1, <2>2 DEF ClientsSound
<1>29. CASE FinishAudioStreamingTask
  BY <1>29, FlashBounds DEF FlashTypes, FlashType, PlaceType, LocalType, PastType, ServerType,
     ClientType, Stoppers, Clients, TalkPlaces, ClientsSound, FinishAudioStreamingTask
<1>30. ASSUME NEW c \in Clients, Connected(c) PROVE ClientsSound'
  BY <1>30, FlashBounds DEF FlashTypes, FlashType, PlaceType, LocalType, PastType, ServerType,
     ClientType, Stoppers, Clients, TalkPlaces, ClientsSound, Connected
<1>31. ASSUME NEW c \in Clients, SessionReady(c) PROVE ClientsSound'
  BY <1>31, FlashBounds DEF FlashTypes, FlashType, PlaceType, LocalType, PastType, ServerType,
     ClientType, Stoppers, Clients, TalkPlaces, ClientsSound, SessionReady
<1>32. ASSUME NEW c \in Clients, AutoRecord(c) PROVE ClientsSound'
  <2>1. /\ flash'.client = flash.client
        /\ past'.clients = past.clients /\ past'.gestures = past.gestures
    BY <1>32 DEF FlashTypes, FlashType, PastType, AutoRecord, StartAudioStreaming,
       SetStreamAudioAmp, Fault, SetErrorLocked, RequestFlashTerminalStop
  <2>2. /\ ws' = [ws EXCEPT ![c].busy = "no"]
        /\ UNCHANGED <<flashPc, local, server>>
    BY <1>32 DEF AutoRecord
  <2>3. \A d \in Clients :
            ws'[d].state = ws[d].state /\ (ws'[d].busy # "no" => ws[d].busy # "no")
    BY <2>2 DEF FlashTypes, ClientType
  <2>4. server.on # 0 => server.on \in Clients
    BY FlashBounds DEF FlashTypes, ServerType, Clients
  <2>5. QED BY <2>1, <2>2, <2>3, <2>4 DEF ClientsSound
<1>33. ASSUME NEW c \in Clients, TranscriptArrives(c) PROVE ClientsSound'
  BY <1>33, FlashBounds DEF FlashTypes, FlashType, PlaceType, LocalType, PastType, ServerType,
     ClientType, Stoppers, Clients, TalkPlaces, ClientsSound, TranscriptArrives,
     EnsureThinking, FinalizeAssistant, Handled
<1>34. ASSUME NEW c \in Clients, ThinkingArrives(c) PROVE ClientsSound'
  BY <1>34, FlashBounds DEF FlashTypes, FlashType, PlaceType, LocalType, PastType, ServerType,
     ClientType, Stoppers, Clients, TalkPlaces, ClientsSound, ThinkingArrives, Hearing,
     EnsureThinking, Handled
<1>35. ASSUME NEW c \in Clients, TextArrives(c) PROVE ClientsSound'
  BY <1>35, FlashBounds DEF FlashTypes, FlashType, PlaceType, LocalType, PastType, ServerType,
     ClientType, Stoppers, Clients, TalkPlaces, ClientsSound, TextArrives, Hearing, Handled
<1>36. ASSUME NEW c \in Clients, TurnDone(c) PROVE ClientsSound'
  BY <1>36, FlashBounds DEF FlashTypes, FlashType, PlaceType, LocalType, PastType, ServerType,
     ClientType, Stoppers, Clients, TalkPlaces, ClientsSound, TurnDone, Hearing,
     FinalizeAssistant, EnsureThinking, Handled
<1>37. ASSUME NEW c \in Clients, AudioArrives(c) PROVE ClientsSound'
  BY <1>37, FlashBounds DEF FlashTypes, FlashType, PlaceType, LocalType, PastType, ServerType,
     ClientType, Stoppers, Clients, TalkPlaces, ClientsSound, AudioArrives, Hearing
<1>38. ASSUME NEW c \in Clients, AudioCounted(c) PROVE ClientsSound'
  BY <1>38, FlashBounds DEF FlashTypes, FlashType, PlaceType, LocalType, PastType, ServerType,
     ClientType, Stoppers, Clients, TalkPlaces, ClientsSound, AudioCounted
<1>39. ASSUME NEW c \in Clients, ErrorArrives(c) PROVE ClientsSound'
  BY <1>39, FlashBounds DEF FlashTypes, FlashType, PlaceType, LocalType, PastType, ServerType,
     ClientType, Stoppers, Clients, TalkPlaces, ClientsSound, ErrorArrives, Fault,
     SetErrorLocked, RequestFlashTerminalStop
<1>40. ASSUME NEW c \in Clients, Disconnected(c) PROVE ClientsSound'
  BY <1>40, FlashBounds, SMTT(30)
     DEF FlashTypes, FlashType, PlaceType, LocalType, PastType, ServerType,
     ClientType, Stoppers, Clients, TalkPlaces, ClientsSound, Disconnected, Fault,
     SetErrorLocked, RequestFlashTerminalStop
<1>41. QED BY <1>1, <1>2, <1>3, <1>4, <1>5, <1>6, <1>7, <1>8, <1>9, <1>10, <1>11, <1>12, <1>13,
    <1>14, <1>15, <1>16, <1>17, <1>18, <1>19, <1>20, <1>21, <1>22, <1>23, <1>24, <1>25, <1>26,
    <1>27, <1>28, <1>29, <1>30, <1>31, <1>32, <1>33, <1>34, <1>35, <1>36, <1>37, <1>38, <1>39,
    <1>40 DEF FlashNext, Stop, Ui, Capture, Playback, WebsocketEvent, PollFlashAmpIdle,
    ReadBlock, Receive, Discard, CheckBlock, OpenAmplifier, WriteBlock, ArmTail


\* A channel goes only when its task has gone, and the audio session after both channels.
LEMMA ChannelsStep ==
    ASSUME FlashTypes, UsersHaveChannels, ChannelsWithinSession, FlashNext
    PROVE  (UsersHaveChannels /\ ChannelsWithinSession)'
<1>1. CASE UNCHANGED <<play, audio, capture>>
  BY <1>1 DEF UsersHaveChannels, ChannelsWithinSession
<1>2. ASSUME NEW t \in Stoppers, StopPlayback(t) PROVE (UsersHaveChannels /\ ChannelsWithinSession)'
  BY <1>2 DEF FlashTypes, PlayType, SoundType, UsersHaveChannels, ChannelsWithinSession,
     StopPlayback, DrainPlaybackRingbuf, SetStreamAudioAmp, Goto
<1>3. ASSUME NEW t \in Stoppers, HaltPlayback(t) PROVE (UsersHaveChannels /\ ChannelsWithinSession)'
  BY <1>3 DEF FlashTypes, PlayType, SoundType, UsersHaveChannels, ChannelsWithinSession,
     HaltPlayback, Goto
<1>4. ASSUME NEW t \in Stoppers, TearDown(t) PROVE (UsersHaveChannels /\ ChannelsWithinSession)'
  BY <1>4 DEF FlashTypes, PlayType, SoundType, UsersHaveChannels, ChannelsWithinSession,
     TearDown, PlaybackGone, Fault, CaptureGone, Goto
<1>5. ASSUME NEW t \in Stoppers, StopEnds(t) PROVE (UsersHaveChannels /\ ChannelsWithinSession)'
  BY <1>5 DEF FlashTypes, PlayType, SoundType, UsersHaveChannels, ChannelsWithinSession,
     StopEnds, MayEnd, EndAudioActivity, Fault, Goto
<1>6. CASE AbortFlashPlayback
  BY <1>6 DEF FlashTypes, PlayType, SoundType, UsersHaveChannels, ChannelsWithinSession,
     AbortFlashPlayback, Gesture, Gestured, DrainPlaybackRingbuf, SetStreamAudioAmp
<1>7. CASE PollFlashAmpIdle
  BY <1>7 DEF FlashTypes, PlayType, SoundType, UsersHaveChannels, ChannelsWithinSession,
     PollFlashAmpIdle, SetStreamAudioAmp
<1>8. CASE EnsurePlaybackRingbuf
  BY <1>8 DEF FlashTypes, PlayType, SoundType, UsersHaveChannels, ChannelsWithinSession,
     EnsurePlaybackRingbuf, FreshPlayback, Goto
<1>9. CASE BeginSession
  BY <1>9 DEF FlashTypes, PlayType, SoundType, UsersHaveChannels, ChannelsWithinSession,
     BeginSession, Goto, Fault
<1>10. CASE OpenClient
  BY <1>10 DEF FlashTypes, PlayType, SoundType, UsersHaveChannels, ChannelsWithinSession,
     OpenClient, Fault, SetErrorLocked, EndAudioActivity, Goto
<1>11. CASE BargeIn
  BY <1>11 DEF FlashTypes, PlayType, SoundType, UsersHaveChannels, ChannelsWithinSession,
     BargeIn, DrainPlaybackRingbuf, SetStreamAudioAmp, Goto
<1>12. CASE Listen
  BY <1>12 DEF FlashTypes, PlayType, SoundType, UsersHaveChannels, ChannelsWithinSession,
     Listen, StartAudioStreaming, Goto, SetStreamAudioAmp, Fault, SetErrorLocked,
     RequestFlashTerminalStop
<1>13. CASE Mute
  BY <1>13 DEF FlashTypes, PlayType, SoundType, UsersHaveChannels, ChannelsWithinSession, Mute,
     SetStreamAudioAmp, Goto
<1>14. CASE Submit
  BY <1>14 DEF FlashTypes, PlayType, SoundType, UsersHaveChannels, ChannelsWithinSession,
     Submit, MaySubmit, Goto
<1>15. CASE OpenCapture
  BY <1>15 DEF FlashTypes, PlayType, SoundType, UsersHaveChannels, ChannelsWithinSession,
     OpenCapture, Fault, SetErrorLocked, RequestFlashTerminalStop
<1>16. CASE ReadBlock
  BY <1>16 DEF FlashTypes, PlayType, SoundType, UsersHaveChannels, ChannelsWithinSession,
     ReadBlock
<1>17. CASE SendBlock
  BY <1>17 DEF FlashTypes, PlayType, SoundType, UsersHaveChannels, ChannelsWithinSession,
     SendBlock
<1>18. CASE FinishAudioStreamingTask
  BY <1>18 DEF FlashTypes, PlayType, SoundType, UsersHaveChannels, ChannelsWithinSession,
     FinishAudioStreamingTask
<1>19. CASE Receive
  BY <1>19 DEF FlashTypes, PlayType, SoundType, UsersHaveChannels, ChannelsWithinSession,
     Receive
<1>20. CASE Discard
  BY <1>20 DEF FlashTypes, PlayType, SoundType, UsersHaveChannels, ChannelsWithinSession,
     Discard
<1>21. CASE CheckBlock
  BY <1>21 DEF FlashTypes, PlayType, SoundType, UsersHaveChannels, ChannelsWithinSession,
     CheckBlock
<1>22. CASE OpenAmplifier
  BY <1>22 DEF FlashTypes, PlayType, SoundType, UsersHaveChannels, ChannelsWithinSession,
     OpenAmplifier, SetStreamAudioAmp
<1>23. CASE WriteBlock
  BY <1>23 DEF FlashTypes, PlayType, SoundType, UsersHaveChannels, ChannelsWithinSession,
     WriteBlock
<1>24. CASE ArmTail
  BY <1>24 DEF FlashTypes, PlayType, SoundType, UsersHaveChannels, ChannelsWithinSession,
     ArmTail
<1>25. ASSUME NEW c \in Clients, AutoRecord(c) PROVE (UsersHaveChannels /\ ChannelsWithinSession)'
  BY <1>25 DEF FlashTypes, PlayType, SoundType, UsersHaveChannels, ChannelsWithinSession,
     AutoRecord, StartAudioStreaming, SetStreamAudioAmp, Fault, SetErrorLocked,
     RequestFlashTerminalStop
<1>26. ASSUME NEW c \in Clients, AudioArrives(c) PROVE (UsersHaveChannels /\ ChannelsWithinSession)'
  BY <1>26 DEF FlashTypes, PlayType, SoundType, UsersHaveChannels, ChannelsWithinSession,
     AudioArrives, Hearing
<1>27. ASSUME NEW c \in Clients, AudioCounted(c) PROVE (UsersHaveChannels /\ ChannelsWithinSession)'
  BY <1>27 DEF FlashTypes, PlayType, SoundType, UsersHaveChannels, ChannelsWithinSession,
     AudioCounted
<1>28. QED BY <1>1, <1>2, <1>3, <1>4, <1>5, <1>6, <1>7, <1>8, <1>9, <1>10, <1>11, <1>12, <1>13,
    <1>14, <1>15, <1>16, <1>17, <1>18, <1>19, <1>20, <1>21, <1>22, <1>23, <1>24, <1>25, <1>26,
    <1>27 DEF FlashNext, Stop, Ui, Capture, Playback, WebsocketEvent, StopBegins, Join, Detach,
    Destroy, Linger, LifecycleWakes, LifecycleReports, PressKey, LeavePage, ReleaseKey, Press,
    AwaitCapture, SendTurnEnd, Connected, SessionReady, TranscriptArrives, ThinkingArrives,
    TextArrives, TurnDone, ErrorArrives, Disconnected, Handled


\* Before the first block of a turn the sequence stands where the turn began.
LEMMA TurnsStep ==
    ASSUME FlashTypes, ClientsSound, KeySound, TurnsSound, FlashNext
    PROVE  TurnsSound'
<1>1. CASE UNCHANGED <<flash, flashPc, local, ws, past>>
  BY <1>1 DEF TurnsSound, Unheard
<1>2. ASSUME NEW t \in Stoppers, StopBegins(t) PROVE TurnsSound'
  BY <1>2, FlashBounds DEF FlashTypes, FlashType, PlaceType, LocalType, PastType, ClientType,
     Stoppers, Clients, TalkPlaces, TurnsSound, Unheard, StopBegins, Goto
<1>3. ASSUME NEW t \in Stoppers, Join(t) PROVE TurnsSound'
  BY <1>3, FlashBounds DEF FlashTypes, FlashType, PlaceType, LocalType, PastType, ClientType,
     Stoppers, Clients, TalkPlaces, TurnsSound, Unheard, Join, Fault, Goto
<1>4. ASSUME NEW t \in Stoppers, StopPlayback(t) PROVE TurnsSound'
  BY <1>4, FlashBounds DEF FlashTypes, FlashType, PlaceType, LocalType, PastType, ClientType,
     Stoppers, Clients, TalkPlaces, TurnsSound, Unheard, StopPlayback, DrainPlaybackRingbuf,
     SetStreamAudioAmp, Goto
<1>5. ASSUME NEW t \in Stoppers, Detach(t) PROVE TurnsSound'
  BY <1>5, FlashBounds DEF FlashTypes, FlashType, PlaceType, LocalType, PastType, ClientType,
     Stoppers, Clients, TalkPlaces, TurnsSound, Unheard, Detach, Goto
<1>6. ASSUME NEW t \in Stoppers, Destroy(t) PROVE TurnsSound'
  <2>1. /\ flashPc[t] = "destroy" /\ flashPc' = [flashPc EXCEPT ![t] = "linger"]
        /\ local' = [local EXCEPT !.dead[t] = 0] /\ UNCHANGED <<flash, past>>
    BY <1>6 DEF Destroy, Goto
  <2>2. local'.was = local.was /\ (flashPc'.ui = "send" => flashPc.ui = "send")
    BY <2>1 DEF FlashTypes, LocalType, PlaceType, Stoppers
  <2>3. flash.client # 0 => ws'[flash.client] = ws[flash.client]
    <3>1. ASSUME flash.client # 0 PROVE flash.client \in Clients
      BY <3>1, FlashBounds DEF FlashTypes, FlashType, Clients
    <3>2. flash.client # local.dead[t] \/ local.dead[t] = 0
      BY DEF ClientsSound
    <3>3. CASE local.dead[t] = 0
      BY <1>6, <3>3 DEF Destroy
    <3>4. CASE local.dead[t] # 0
      BY <1>6, <3>1, <3>2, <3>4 DEF Destroy, FlashTypes
    <3>5. QED BY <3>3, <3>4
  <2>4. QED BY <2>1, <2>2, <2>3 DEF TurnsSound, Unheard
<1>7. ASSUME NEW t \in Stoppers, Linger(t) PROVE TurnsSound'
  BY <1>7, FlashBounds DEF FlashTypes, FlashType, PlaceType, LocalType, PastType, ClientType,
     Stoppers, Clients, TalkPlaces, TurnsSound, Unheard, Linger, Fault, Goto
<1>8. ASSUME NEW t \in Stoppers, HaltPlayback(t) PROVE TurnsSound'
  BY <1>8, FlashBounds DEF FlashTypes, FlashType, PlaceType, LocalType, PastType, ClientType,
     Stoppers, Clients, TalkPlaces, TurnsSound, Unheard, HaltPlayback, Goto
<1>9. ASSUME NEW t \in Stoppers, TearDown(t) PROVE TurnsSound'
  BY <1>9, FlashBounds DEF FlashTypes, FlashType, PlaceType, LocalType, PastType, ClientType,
     Stoppers, Clients, TalkPlaces, TurnsSound, Unheard, TearDown, PlaybackGone, Fault,
     CaptureGone, Goto
<1>10. ASSUME NEW t \in Stoppers, StopEnds(t) PROVE TurnsSound'
  BY <1>10, FlashBounds DEF FlashTypes, FlashType, PlaceType, LocalType, PastType, ClientType,
     Stoppers, Clients, TalkPlaces, TurnsSound, Unheard, StopEnds, MayEnd, EndAudioActivity,
     Fault, Goto
<1>11. CASE LifecycleWakes
  BY <1>11, FlashBounds DEF FlashTypes, FlashType, PlaceType, LocalType, PastType, ClientType,
     Stoppers, Clients, TalkPlaces, TurnsSound, Unheard, LifecycleWakes, Goto
<1>12. CASE LifecycleReports
  BY <1>12, FlashBounds DEF FlashTypes, FlashType, PlaceType, LocalType, PastType, ClientType,
     Stoppers, Clients, TalkPlaces, TurnsSound, Unheard, LifecycleReports, SetErrorLocked, Goto
<1>13. CASE PressKey
  BY <1>13, FlashBounds DEF FlashTypes, FlashType, PlaceType, LocalType, PastType, ClientType,
     Stoppers, Clients, TalkPlaces, TurnsSound, Unheard, PressKey, Gesture, Gestured, Goto
<1>14. CASE LeavePage
  BY <1>14, FlashBounds DEF FlashTypes, FlashType, PlaceType, LocalType, PastType, ClientType,
     Stoppers, Clients, TalkPlaces, TurnsSound, Unheard, LeavePage, Gesture, Gestured, Goto
<1>15. CASE ReleaseKey
  BY <1>15, FlashBounds DEF FlashTypes, FlashType, PlaceType, LocalType, PastType, ClientType,
     Stoppers, Clients, TalkPlaces, TurnsSound, Unheard, ReleaseKey, Goto
<1>16. CASE AbortFlashPlayback
  BY <1>16, FlashBounds DEF FlashTypes, FlashType, PlaceType, LocalType, PastType, ClientType,
     Stoppers, Clients, TalkPlaces, TurnsSound, Unheard, AbortFlashPlayback, Gesture, Gestured,
     DrainPlaybackRingbuf, SetStreamAudioAmp
<1>17. CASE EnsurePlaybackRingbuf
  BY <1>17, FlashBounds DEF FlashTypes, FlashType, PlaceType, LocalType, PastType, ClientType,
     Stoppers, Clients, TalkPlaces, TurnsSound, Unheard, EnsurePlaybackRingbuf, FreshPlayback,
     Goto
<1>18. CASE BeginSession
  BY <1>18, FlashBounds, ZenonT(60)
     DEF FlashTypes, FlashType, PlaceType, LocalType, PastType, ClientType,
     Stoppers, Clients, TalkPlaces, TurnsSound, Unheard, BeginSession, Goto, Fault
<1>19. CASE OpenClient
  <2>1. /\ flashPc.ui = "connect" /\ flashPc' = [flashPc EXCEPT !.ui = "press"]
        /\ UNCHANGED local
    BY <1>19 DEF OpenClient, Goto
  <2>2. ~flash.capturing /\ ~local.was /\ flash.client = 0
    BY <2>1 DEF KeySound, ClientsSound
  <2>3. /\ flash'.capturing = flash.capturing /\ flash'.connected = flash.connected
        /\ past'.stray = past.stray /\ past'.emptyTurn = past.emptyTurn
    BY <1>19 DEF FlashTypes, FlashType, PastType, OpenClient, Fault, SetErrorLocked
  <2>4. flashPc'.ui = "press"
    BY <2>1 DEF FlashTypes, PlaceType
  <2>5. QED BY <2>1, <2>2, <2>3, <2>4 DEF TurnsSound
<1>20. CASE Press
  BY <1>20, FlashBounds DEF FlashTypes, FlashType, PlaceType, LocalType, PastType, ClientType,
     Stoppers, Clients, TalkPlaces, TurnsSound, Unheard, Press, Talking, NoTurn, Goto
<1>21. CASE BargeIn
  BY <1>21, FlashBounds DEF FlashTypes, FlashType, PlaceType, LocalType, PastType, ClientType,
     Stoppers, Clients, TalkPlaces, TurnsSound, Unheard, BargeIn, DrainPlaybackRingbuf,
     SetStreamAudioAmp, Goto
<1>22. CASE Listen
  <2>1. /\ flash'.connected = flash.connected /\ flash'.client = flash.client
        /\ flash'.seq = flash.seq /\ flash'.base = flash.base
        /\ flash'.capturing => flash.capturing
        /\ past'.stray = past.stray /\ past'.emptyTurn = past.emptyTurn
        /\ past'.warm = past.warm /\ past'.heard = past.heard
    BY <1>22 DEF FlashTypes, FlashType, PastType, Listen, StartAudioStreaming, Goto,
       SetStreamAudioAmp, Fault, SetErrorLocked, RequestFlashTerminalStop
  <2>2. /\ flashPc' = [flashPc EXCEPT !.ui = "idle"] /\ UNCHANGED <<local, ws>>
    BY <1>22 DEF Listen, Goto
  <2>3. flashPc'.ui # "send"
    BY <2>2 DEF FlashTypes, PlaceType
  <2>4. QED BY <2>1, <2>2, <2>3 DEF TurnsSound, Unheard
<1>23. CASE AwaitCapture
  BY <1>23, FlashBounds DEF FlashTypes, FlashType, PlaceType, LocalType, PastType, ClientType,
     Stoppers, Clients, TalkPlaces, TurnsSound, Unheard, AwaitCapture, Fault, Goto
<1>24. CASE Mute
  BY <1>24, FlashBounds DEF FlashTypes, FlashType, PlaceType, LocalType, PastType, ClientType,
     Stoppers, Clients, TalkPlaces, TurnsSound, Unheard, Mute, SetStreamAudioAmp, Goto
<1>25. CASE Submit
  BY <1>25, FlashBounds, ZenonT(60)
     DEF FlashTypes, FlashType, PlaceType, LocalType, PastType, ClientType,
     Stoppers, Clients, TalkPlaces, TurnsSound, Unheard, Submit, MaySubmit, Goto
<1>26. CASE SendTurnEnd
  <2>1. /\ flashPc.ui = "send" /\ flashPc' = [flashPc EXCEPT !.ui = "idle"]
        /\ local' = [local EXCEPT !.to = 0] /\ UNCHANGED <<flash, ws>>
    BY <1>26 DEF SendTurnEnd, Goto
  <2>2. /\ past'.stray = past.stray /\ past'.warm = past.warm /\ past'.heard = past.heard
        /\ past'.emptyTurn => past.emptyTurn \/ Unheard
    BY <1>26 DEF FlashTypes, PastType, SendTurnEnd, Unheard
  <2>3. flashPc'.ui # "send" /\ local'.was = local.was
    BY <2>1 DEF FlashTypes, PlaceType, LocalType
  <2>4. QED BY <2>1, <2>2, <2>3 DEF TurnsSound, Unheard
<1>27. CASE OpenCapture
  BY <1>27, FlashBounds, ZenonT(60)
     DEF FlashTypes, FlashType, PlaceType, LocalType, PastType, ClientType,
     Stoppers, Clients, TalkPlaces, TurnsSound, Unheard, OpenCapture, Fault, SetErrorLocked,
     RequestFlashTerminalStop
<1>28. CASE SendBlock
  BY <1>28, FlashBounds, SMTT(30)
     DEF FlashTypes, FlashType, PlaceType, LocalType, PastType, ClientType,
     Stoppers, Clients, TalkPlaces, TurnsSound, Unheard, SendBlock
<1>29. CASE FinishAudioStreamingTask
  BY <1>29, FlashBounds DEF FlashTypes, FlashType, PlaceType, LocalType, PastType, ClientType,
     Stoppers, Clients, TalkPlaces, TurnsSound, Unheard, FinishAudioStreamingTask
<1>30. ASSUME NEW c \in Clients, Connected(c) PROVE TurnsSound'
  <2>1. /\ ws[c].state = "connecting" /\ ws' = [ws EXCEPT ![c].state = "up"]
        /\ UNCHANGED <<flashPc, local>>
    BY <1>30 DEF Connected
  <2>2. /\ flash'.client = flash.client /\ flash'.capturing = flash.capturing
        /\ past'.warm = past.warm /\ past'.heard = past.heard
        /\ past'.emptyTurn = past.emptyTurn
        /\ past'.stray = (past.stray \/ c # flash.client)
    BY <1>30 DEF FlashTypes, FlashType, PastType, Connected
  <2>3. SUFFICES ASSUME ~past.stray, c = flash.client PROVE TurnsSound'
    BY <2>2 DEF TurnsSound
  <2>4. ws'[c].state = "up" /\ c # 0
    BY <2>1, FlashBounds DEF FlashTypes, ClientType, Clients
  <2>5. ~(Unheard /\ (flash.capturing \/ local.was))
    BY <2>1, <2>3, <2>4 DEF TurnsSound
  <2>6. QED BY <2>1, <2>2, <2>3, <2>4, <2>5 DEF TurnsSound, Unheard
<1>31. ASSUME NEW c \in Clients, SessionReady(c) PROVE TurnsSound'
  BY <1>31, FlashBounds DEF FlashTypes, FlashType, PlaceType, LocalType, PastType, ClientType,
     Stoppers, Clients, TalkPlaces, TurnsSound, Unheard, SessionReady
<1>32. ASSUME NEW c \in Clients, AutoRecord(c) PROVE TurnsSound'
  <2>1. /\ flash'.connected = flash.connected /\ flash'.client = flash.client
        /\ flash'.seq = flash.seq /\ flash'.base = flash.base
        /\ flash'.capturing => flash.capturing
        /\ past'.stray = past.stray /\ past'.emptyTurn = past.emptyTurn
        /\ past'.warm = past.warm /\ past'.heard = past.heard
    BY <1>32 DEF FlashTypes, FlashType, PastType, AutoRecord, StartAudioStreaming,
       SetStreamAudioAmp, Fault, SetErrorLocked, RequestFlashTerminalStop
  <2>2. \A d \in Clients : ws'[d].state = ws[d].state
    BY <1>32 DEF FlashTypes, ClientType, AutoRecord
  <2>3. UNCHANGED <<flashPc, local>>
    BY <1>32 DEF AutoRecord
  <2>4. flash.client # 0 => flash.client \in Clients
    BY FlashBounds DEF FlashTypes, FlashType, Clients
  <2>5. QED BY <2>1, <2>2, <2>3, <2>4 DEF TurnsSound, Unheard
<1>33. ASSUME NEW c \in Clients, TurnDone(c) PROVE TurnsSound'
  BY <1>33, FlashBounds DEF FlashTypes, FlashType, PlaceType, LocalType, PastType, ClientType,
     Stoppers, Clients, TalkPlaces, TurnsSound, Unheard, TurnDone, Hearing, FinalizeAssistant,
     EnsureThinking, Handled
<1>34. ASSUME NEW c \in Clients, AudioArrives(c) PROVE TurnsSound'
  BY <1>34, FlashBounds DEF FlashTypes, FlashType, PlaceType, LocalType, PastType, ClientType,
     Stoppers, Clients, TalkPlaces, TurnsSound, Unheard, AudioArrives, Hearing
<1>35. ASSUME NEW c \in Clients, AudioCounted(c) PROVE TurnsSound'
  BY <1>35, FlashBounds DEF FlashTypes, FlashType, PlaceType, LocalType, PastType, ClientType,
     Stoppers, Clients, TalkPlaces, TurnsSound, Unheard, AudioCounted
<1>36. ASSUME NEW c \in Clients, ErrorArrives(c) PROVE TurnsSound'
  BY <1>36, FlashBounds DEF FlashTypes, FlashType, PlaceType, LocalType, PastType, ClientType,
     Stoppers, Clients, TalkPlaces, TurnsSound, Unheard, ErrorArrives, Fault, SetErrorLocked,
     RequestFlashTerminalStop
<1>37. ASSUME NEW c \in Clients, Disconnected(c) PROVE TurnsSound'
  BY <1>37, FlashBounds DEF FlashTypes, FlashType, PlaceType, LocalType, PastType, ClientType,
     Stoppers, Clients, TalkPlaces, TurnsSound, Unheard, Disconnected, Fault, SetErrorLocked,
     RequestFlashTerminalStop
<1>38. QED BY <1>1, <1>2, <1>3, <1>4, <1>5, <1>6, <1>7, <1>8, <1>9, <1>10, <1>11, <1>12, <1>13,
    <1>14, <1>15, <1>16, <1>17, <1>18, <1>19, <1>20, <1>21, <1>22, <1>23, <1>24, <1>25, <1>26,
    <1>27, <1>28, <1>29, <1>30, <1>31, <1>32, <1>33, <1>34, <1>35, <1>36, <1>37 DEF FlashNext,
    Stop, Ui, Capture, Playback, WebsocketEvent, PollFlashAmpIdle, ReadBlock, Receive, Discard,
    CheckBlock, OpenAmplifier, WriteBlock, ArmTail, TranscriptArrives, ThinkingArrives,
    TextArrives, Handled


\* The clients that count a block are finitely many.
LEMMA CountingIsFinite == IsFiniteSet(Counting) /\ Cardinality(Counting) \in Nat
<1>1. IsFiniteSet(Clients)
  BY FlashBounds, FS_Interval DEF Clients
<1>2. QED BY <1>1, FS_Subset, FS_CardinalityType DEF Counting

\* The buffer holds no more blocks than arrived, and no block is counted twice.
LEMMA BlocksStep ==
    ASSUME FlashTypes, BlocksSound, FlashNext
    PROVE  BlocksSound'
<1>1. CASE UNCHANGED <<play, ws, past>>
  BY <1>1 DEF BlocksSound, Counting
<1>2. ASSUME NEW t \in Stoppers, Join(t) PROVE BlocksSound'
  <2>1. Counting' = Counting
    BY <1>2 DEF Counting, Join
  <2>2. QED BY <1>2, <2>1, CountingIsFinite, FlashBounds DEF FlashTypes, PlayType, PastType,
            BlocksSound, Join, Fault, Goto
<1>3. ASSUME NEW t \in Stoppers, StopPlayback(t) PROVE BlocksSound'
  <2>1. Counting' = Counting
    BY <1>3 DEF Counting, StopPlayback
  <2>2. QED BY <1>3, <2>1, CountingIsFinite, FlashBounds DEF FlashTypes, PlayType, PastType,
            BlocksSound, StopPlayback, DrainPlaybackRingbuf, SetStreamAudioAmp, Goto
<1>4. ASSUME NEW t \in Stoppers, Destroy(t) PROVE BlocksSound'
  <2>1. Counting' = Counting
    BY <1>4, FlashBounds DEF FlashTypes, ClientType, Counting, Clients, Destroy
  <2>2. QED BY <1>4, <2>1, CountingIsFinite, FlashBounds DEF FlashTypes, PlayType, PastType,
            BlocksSound, Destroy, Goto
<1>5. ASSUME NEW t \in Stoppers, Linger(t) PROVE BlocksSound'
  <2>1. Counting' = Counting
    BY <1>5 DEF Counting, Linger
  <2>2. QED BY <1>5, <2>1, CountingIsFinite, FlashBounds DEF FlashTypes, PlayType, PastType,
            BlocksSound, Linger, Fault, Goto
<1>6. ASSUME NEW t \in Stoppers, HaltPlayback(t) PROVE BlocksSound'
  <2>1. Counting' = Counting
    BY <1>6 DEF Counting, HaltPlayback
  <2>2. QED BY <1>6, <2>1, CountingIsFinite, FlashBounds DEF FlashTypes, PlayType, PastType,
            BlocksSound, HaltPlayback, Goto
<1>7. ASSUME NEW t \in Stoppers, TearDown(t) PROVE BlocksSound'
  <2>1. Counting' = Counting
    BY <1>7 DEF Counting, TearDown
  <2>2. QED BY <1>7, <2>1, CountingIsFinite, FlashBounds DEF FlashTypes, PlayType, PastType,
            BlocksSound, TearDown, PlaybackGone, Fault, CaptureGone, Goto
<1>8. ASSUME NEW t \in Stoppers, StopEnds(t) PROVE BlocksSound'
  <2>1. Counting' = Counting
    BY <1>8 DEF Counting, StopEnds
  <2>2. QED BY <1>8, <2>1, CountingIsFinite, FlashBounds DEF FlashTypes, PlayType, PastType,
            BlocksSound, StopEnds, MayEnd, EndAudioActivity, Fault, Goto
<1>9. CASE PressKey
  <2>1. Counting' = Counting
    BY <1>9 DEF Counting, PressKey
  <2>2. QED BY <1>9, <2>1, CountingIsFinite, FlashBounds DEF FlashTypes, PlayType, PastType,
            BlocksSound, PressKey, Gesture, Gestured, Goto
<1>10. CASE LeavePage
  <2>1. Counting' = Counting
    BY <1>10 DEF Counting, LeavePage
  <2>2. QED BY <1>10, <2>1, CountingIsFinite, FlashBounds DEF FlashTypes, PlayType, PastType,
            BlocksSound, LeavePage, Gesture, Gestured, Goto
<1>11. CASE AbortFlashPlayback
  <2>1. Counting' = Counting
    BY <1>11 DEF Counting, AbortFlashPlayback
  <2>2. QED BY <1>11, <2>1, CountingIsFinite, FlashBounds DEF FlashTypes, PlayType, PastType,
            BlocksSound, AbortFlashPlayback, Gesture, Gestured, DrainPlaybackRingbuf,
            SetStreamAudioAmp
<1>12. CASE PollFlashAmpIdle
  <2>1. Counting' = Counting
    BY <1>12 DEF Counting, PollFlashAmpIdle
  <2>2. QED BY <1>12, <2>1, CountingIsFinite, FlashBounds DEF FlashTypes, PlayType, PastType,
            BlocksSound, PollFlashAmpIdle, SetStreamAudioAmp
<1>13. CASE EnsurePlaybackRingbuf
  <2>1. Counting' = Counting
    BY <1>13 DEF Counting, EnsurePlaybackRingbuf
  <2>2. QED BY <1>13, <2>1, CountingIsFinite, FlashBounds DEF FlashTypes, PlayType, PastType,
            BlocksSound, EnsurePlaybackRingbuf, FreshPlayback, Goto
<1>14. CASE BeginSession
  <2>1. Counting' = Counting
    BY <1>14 DEF Counting, BeginSession
  <2>2. QED BY <1>14, <2>1, CountingIsFinite, FlashBounds DEF FlashTypes, PlayType, PastType,
            BlocksSound, BeginSession, Goto, Fault
<1>15. CASE OpenClient
  <2>1. Counting' = Counting
    BY <1>15, FlashBounds DEF FlashTypes, ClientType, Counting, Clients, OpenClient
  <2>2. QED BY <1>15, <2>1, CountingIsFinite, FlashBounds DEF FlashTypes, PlayType, PastType,
            BlocksSound, OpenClient, Fault, SetErrorLocked, EndAudioActivity, Goto
<1>16. CASE Press
  <2>1. Counting' = Counting
    BY <1>16 DEF Counting, Press
  <2>2. QED BY <1>16, <2>1, CountingIsFinite, FlashBounds DEF FlashTypes, PlayType, PastType,
            BlocksSound, Press, Talking, NoTurn, Goto
<1>17. CASE BargeIn
  <2>1. Counting' = Counting
    BY <1>17 DEF Counting, BargeIn
  <2>2. QED BY <1>17, <2>1, CountingIsFinite, FlashBounds DEF FlashTypes, PlayType, PastType,
            BlocksSound, BargeIn, DrainPlaybackRingbuf, SetStreamAudioAmp, Goto
<1>18. CASE Listen
  <2>1. Counting' = Counting
    BY <1>18 DEF Counting, Listen
  <2>2. QED BY <1>18, <2>1, CountingIsFinite, FlashBounds DEF FlashTypes, PlayType, PastType,
            BlocksSound, Listen, StartAudioStreaming, Goto, SetStreamAudioAmp, Fault,
            SetErrorLocked, RequestFlashTerminalStop
<1>19. CASE AwaitCapture
  <2>1. Counting' = Counting
    BY <1>19 DEF Counting, AwaitCapture
  <2>2. QED BY <1>19, <2>1, CountingIsFinite, FlashBounds DEF FlashTypes, PlayType, PastType,
            BlocksSound, AwaitCapture, Fault, Goto
<1>20. CASE Mute
  <2>1. Counting' = Counting
    BY <1>20 DEF Counting, Mute
  <2>2. QED BY <1>20, <2>1, CountingIsFinite, FlashBounds DEF FlashTypes, PlayType, PastType,
            BlocksSound, Mute, SetStreamAudioAmp, Goto
<1>21. CASE Submit
  <2>1. Counting' = Counting
    BY <1>21 DEF Counting, Submit
  <2>2. QED BY <1>21, <2>1, CountingIsFinite, FlashBounds DEF FlashTypes, PlayType, PastType,
            BlocksSound, Submit, MaySubmit, Goto
<1>22. CASE SendTurnEnd
  <2>1. Counting' = Counting
    BY <1>22 DEF Counting, SendTurnEnd
  <2>2. QED BY <1>22, <2>1, CountingIsFinite, FlashBounds DEF FlashTypes, PlayType, PastType,
            BlocksSound, SendTurnEnd, Goto
<1>23. CASE OpenCapture
  <2>1. Counting' = Counting
    BY <1>23 DEF Counting, OpenCapture
  <2>2. QED BY <1>23, <2>1, CountingIsFinite, FlashBounds DEF FlashTypes, PlayType, PastType,
            BlocksSound, OpenCapture, Fault, SetErrorLocked, RequestFlashTerminalStop
<1>24. CASE SendBlock
  <2>1. Counting' = Counting
    BY <1>24 DEF Counting, SendBlock
  <2>2. QED BY <1>24, <2>1, CountingIsFinite, FlashBounds DEF FlashTypes, PlayType, PastType,
            BlocksSound, SendBlock
<1>25. CASE Receive
  <2>1. Counting' = Counting
    BY <1>25 DEF Counting, Receive
  <2>2. /\ play'.ring = play.ring \/ play'.ring = play.ring - 1
        /\ play'.queued = play.queued /\ UNCHANGED past
    BY <1>25 DEF FlashTypes, PlayType, Receive
  <2>3. QED BY <2>1, <2>2, CountingIsFinite DEF FlashTypes, PlayType, PastType, BlocksSound
<1>26. CASE Discard
  <2>1. Counting' = Counting
    BY <1>26 DEF Counting, Discard
  <2>2. /\ play'.ring \in {0, play.ring}
        /\ play'.queued \in {0, play.queued} /\ UNCHANGED past
    BY <1>26 DEF FlashTypes, PlayType, Discard
  <2>3. QED BY <2>1, <2>2, CountingIsFinite DEF FlashTypes, PlayType, PastType, BlocksSound
<1>27. CASE CheckBlock
  <2>1. Counting' = Counting
    BY <1>27 DEF Counting, CheckBlock
  <2>2. QED BY <1>27, <2>1, CountingIsFinite, FlashBounds DEF FlashTypes, PlayType, PastType,
            BlocksSound, CheckBlock
<1>28. CASE OpenAmplifier
  <2>1. Counting' = Counting
    BY <1>28 DEF Counting, OpenAmplifier
  <2>2. QED BY <1>28, <2>1, CountingIsFinite, FlashBounds DEF FlashTypes, PlayType, PastType,
            BlocksSound, OpenAmplifier, SetStreamAudioAmp
<1>29. CASE WriteBlock
  <2>1. Counting' = Counting
    BY <1>29 DEF Counting, WriteBlock
  <2>2. QED BY <1>29, <2>1, CountingIsFinite, FlashBounds DEF FlashTypes, PlayType, PastType,
            BlocksSound, WriteBlock
<1>30. CASE ArmTail
  <2>1. Counting' = Counting
    BY <1>30 DEF Counting, ArmTail
  <2>2. QED BY <1>30, <2>1, CountingIsFinite, FlashBounds DEF FlashTypes, PlayType, PastType,
            BlocksSound, ArmTail
<1>31. ASSUME NEW c \in Clients, Connected(c) PROVE BlocksSound'
  <2>1. Counting' = Counting
    BY <1>31, FlashBounds DEF FlashTypes, ClientType, Counting, Clients, Connected
  <2>2. QED BY <1>31, <2>1, CountingIsFinite, FlashBounds DEF FlashTypes, PlayType, PastType,
            BlocksSound, Connected
<1>32. ASSUME NEW c \in Clients, SessionReady(c) PROVE BlocksSound'
  <2>1. Counting' = Counting
    BY <1>32, FlashBounds DEF FlashTypes, ClientType, Counting, Clients, SessionReady
  <2>2. QED BY <1>32, <2>1, CountingIsFinite, FlashBounds DEF FlashTypes, PlayType, PastType,
            BlocksSound, SessionReady
<1>33. ASSUME NEW c \in Clients, AutoRecord(c) PROVE BlocksSound'
  <2>1. Counting' = Counting
    BY <1>33, FlashBounds DEF FlashTypes, ClientType, Counting, Clients, AutoRecord
  <2>2. QED BY <1>33, <2>1, CountingIsFinite, FlashBounds DEF FlashTypes, PlayType, PastType,
            BlocksSound, AutoRecord, StartAudioStreaming, SetStreamAudioAmp, Fault,
            SetErrorLocked, RequestFlashTerminalStop
<1>34. ASSUME NEW c \in Clients, AudioArrives(c) PROVE BlocksSound'
  <2>1. Counting' = Counting \cup {c} /\ c \notin Counting
    BY <1>34 DEF FlashTypes, ClientType, Counting, AudioArrives, Hearing
  <2>2. Cardinality(Counting') = Cardinality(Counting) + 1
    BY <2>1, CountingIsFinite, FS_AddElement
  <2>3. /\ play'.ring = play.ring + 1 /\ play'.queued = play.queued
        /\ past'.blocks = past.blocks + 1
    BY <1>34 DEF FlashTypes, PlayType, PastType, AudioArrives
  <2>4. QED BY <2>2, <2>3, CountingIsFinite DEF FlashTypes, PlayType, PastType, BlocksSound
<1>35. ASSUME NEW c \in Clients, AudioCounted(c) PROVE BlocksSound'
  <2>1. Counting' = Counting \ {c} /\ c \in Counting
    BY <1>35 DEF FlashTypes, ClientType, Counting, AudioCounted
  <2>2. Cardinality(Counting') = Cardinality(Counting) - 1
    BY <2>1, CountingIsFinite, FS_RemoveElement
  <2>3. /\ play'.ring = play.ring /\ play'.queued = play.queued + 1 /\ UNCHANGED past
    BY <1>35 DEF FlashTypes, PlayType, AudioCounted
  <2>4. QED BY <2>2, <2>3, CountingIsFinite DEF FlashTypes, PlayType, PastType, BlocksSound
<1>36. ASSUME NEW c \in Clients, ErrorArrives(c) PROVE BlocksSound'
  <2>1. Counting' = Counting
    BY <1>36 DEF Counting, ErrorArrives
  <2>2. QED BY <1>36, <2>1, CountingIsFinite, FlashBounds DEF FlashTypes, PlayType, PastType,
            BlocksSound, ErrorArrives, Fault, SetErrorLocked, RequestFlashTerminalStop
<1>37. ASSUME NEW c \in Clients, Disconnected(c) PROVE BlocksSound'
  <2>1. Counting' = Counting
    BY <1>37, FlashBounds DEF FlashTypes, ClientType, Counting, Clients, Disconnected
  <2>2. QED BY <1>37, <2>1, CountingIsFinite, FlashBounds DEF FlashTypes, PlayType, PastType,
            BlocksSound, Disconnected, Fault, SetErrorLocked, RequestFlashTerminalStop
<1>38. QED BY <1>1, <1>2, <1>3, <1>4, <1>5, <1>6, <1>7, <1>8, <1>9, <1>10, <1>11, <1>12, <1>13,
    <1>14, <1>15, <1>16, <1>17, <1>18, <1>19, <1>20, <1>21, <1>22, <1>23, <1>24, <1>25, <1>26,
    <1>27, <1>28, <1>29, <1>30, <1>31, <1>32, <1>33, <1>34, <1>35, <1>36, <1>37 DEF FlashNext,
    Stop, Ui, Capture, Playback, WebsocketEvent, StopBegins, Detach, LifecycleWakes,
    LifecycleReports, ReleaseKey, ReadBlock, FinishAudioStreamingTask, TranscriptArrives,
    ThinkingArrives, TextArrives, TurnDone, Handled


\* A row that the words of a user still allow keeps the history in order, and takes
\* nothing from the other kind.
LEMMA RowMayFollow ==
    ASSUME NEW rows \in Seq(RowKinds), NEW kind \in RowKinds \ {"user"},
           RowsInOrder(rows), MayGet(rows, kind)
    PROVE  /\ RowsInOrder(Append(rows, kind))
           /\ \A rest \in RowKinds \ {kind} :
                MayGet(rows, rest) => MayGet(Append(rows, kind), rest)
<1> DEFINE more == Append(rows, kind)
<1>1. /\ Len(rows) \in Nat /\ Len(more) = Len(rows) + 1 /\ DOMAIN more = 1..(Len(rows) + 1)
      /\ DOMAIN rows = 1..Len(rows)
      /\ more[Len(rows) + 1] = kind /\ \A i \in 1..Len(rows) : more[i] = rows[i]
  OBVIOUS
<1> HIDE DEF more
<1>2. RowsInOrder(more)
  <2>1. SUFFICES ASSUME NEW i \in 1..(Len(rows) + 1), more[i] # "user"
                 PROVE  \E j \in 1..(i - 1) :
                            /\ more[j] = "user"
                            /\ \A k \in (j + 1)..(i - 1) : more[k] \notin {"user", more[i]}
    BY <1>1 DEF RowsInOrder
  <2>2. CASE i = Len(rows) + 1
    <3>1. PICK j \in 1..Len(rows) : /\ rows[j] = "user"
                                    /\ \A k \in (j + 1)..Len(rows) : rows[k] \notin {"user", kind}
      BY DEF MayGet
    <3>2. j \in 1..(i - 1) /\ more[j] = "user"
      BY <1>1, <2>2, <3>1
    <3>3. \A k \in (j + 1)..(i - 1) : more[k] \notin {"user", more[i]}
      BY <1>1, <2>2, <3>1
    <3>4. QED BY <3>2, <3>3
  <2>3. CASE i \in 1..Len(rows)
    <3>1. PICK j \in 1..(i - 1) : /\ rows[j] = "user"
                                  /\ \A k \in (j + 1)..(i - 1) : rows[k] \notin {"user", rows[i]}
      BY <1>1, <2>1, <2>3 DEF RowsInOrder
    <3>2. more[j] = "user" /\ \A k \in (j + 1)..(i - 1) : more[k] \notin {"user", more[i]}
      BY <1>1, <2>3, <3>1
    <3>3. QED BY <3>2
  <2>4. QED BY <1>1, <2>2, <2>3
<1>3. ASSUME NEW rest \in RowKinds \ {kind}, MayGet(rows, rest) PROVE MayGet(more, rest)
  <2>1. PICK j \in 1..Len(rows) : /\ rows[j] = "user"
                                  /\ \A k \in (j + 1)..Len(rows) : rows[k] \notin {"user", rest}
    BY <1>3 DEF MayGet
  <2>2. j \in 1..Len(more) /\ more[j] = "user"
    BY <1>1, <2>1
  <2>3. \A k \in (j + 1)..Len(more) : more[k] \notin {"user", rest}
    BY <1>1, <2>1
  <2>4. QED BY <2>2, <2>3 DEF MayGet
<1>4. QED BY <1>2, <1>3 DEF more

\* The words of a user may be followed by a row of either kind.
LEMMA UserMayFollow ==
    ASSUME NEW rows \in Seq(RowKinds), RowsInOrder(rows)
    PROVE  /\ RowsInOrder(Append(rows, "user"))
           /\ \A kind \in RowKinds : MayGet(Append(rows, "user"), kind)
<1> DEFINE more == Append(rows, "user")
<1>1. /\ Len(rows) \in Nat /\ Len(more) = Len(rows) + 1 /\ DOMAIN more = 1..(Len(rows) + 1)
      /\ DOMAIN rows = 1..Len(rows)
      /\ more[Len(rows) + 1] = "user" /\ \A i \in 1..Len(rows) : more[i] = rows[i]
  OBVIOUS
<1> HIDE DEF more
<1>2. RowsInOrder(more)
  <2>1. SUFFICES ASSUME NEW i \in 1..(Len(rows) + 1), more[i] # "user"
                 PROVE  \E j \in 1..(i - 1) :
                            /\ more[j] = "user"
                            /\ \A k \in (j + 1)..(i - 1) : more[k] \notin {"user", more[i]}
    BY <1>1 DEF RowsInOrder
  <2>2. i \in 1..Len(rows)
    BY <1>1, <2>1
  <2>3. PICK j \in 1..(i - 1) : /\ rows[j] = "user"
                                /\ \A k \in (j + 1)..(i - 1) : rows[k] \notin {"user", rows[i]}
    BY <1>1, <2>1, <2>2 DEF RowsInOrder
  <2>4. more[j] = "user" /\ \A k \in (j + 1)..(i - 1) : more[k] \notin {"user", more[i]}
    BY <1>1, <2>2, <2>3
  <2>5. QED BY <2>4
<1>3. \A kind \in RowKinds : MayGet(more, kind)
  BY <1>1 DEF MayGet
<1>4. QED BY <1>2, <1>3 DEF more

\* The rows that complete a turn keep the history in order.
LEMMA RowsStayInOrder ==
    ASSUME NEW x \in ChatType, InOrder(x)
    PROVE  InOrder(EnsureThinking(x)) /\ InOrder(FinalizeAssistant(x))
<1>1. x.turn \in TurnType /\ x.rows \in Seq(RowKinds)
  BY DEF ChatType
<1>2. ASSUME NEW kind \in {"thinking", "assistant"}, x.turn.user,
             kind = "thinking" => ~x.turn.thinkRow, kind = "assistant" => ~x.turn.textRow,
             NEW turn \in TurnType, turn.user,
             turn.thinkRow = (x.turn.thinkRow \/ kind = "thinking"),
             turn.textRow = (x.turn.textRow \/ kind = "assistant")
      PROVE  InOrder([turn |-> turn, rows |-> Append(x.rows, kind)])
  <2>1. MayGet(x.rows, kind) /\ RowsInOrder(x.rows) /\ kind \in RowKinds \ {"user"}
    BY <1>2 DEF InOrder, RowKinds
  <2>2. /\ RowsInOrder(Append(x.rows, kind))
        /\ \A rest \in RowKinds \ {kind} :
            MayGet(x.rows, rest) => MayGet(Append(x.rows, kind), rest)
    BY <1>1, <2>1, RowMayFollow
  <2>3. /\ ~turn.thinkRow => kind # "thinking" /\ ~x.turn.thinkRow
        /\ ~turn.textRow => kind # "assistant" /\ ~x.turn.textRow
    BY <1>2
  <2>4. QED BY <1>2, <2>2, <2>3 DEF InOrder, RowKinds
<1>3. InOrder(EnsureThinking(x))
  <2> DEFINE turn == [x.turn EXCEPT !.thinkRow = TRUE]
  <2>1. CASE x.turn.user /\ x.turn.think /\ ~x.turn.thinkRow
    <3>1. /\ turn \in TurnType /\ turn.user /\ turn.thinkRow = TRUE
          /\ turn.textRow = x.turn.textRow
      BY <1>1, <2>1 DEF TurnType
    <3>2. EnsureThinking(x) = [turn |-> turn, rows |-> Append(x.rows, "thinking")]
      BY <2>1 DEF EnsureThinking
    <3> HIDE DEF turn
    <3>3. QED BY <1>1, <1>2, <2>1, <3>1, <3>2 DEF TurnType
  <2>2. QED BY <2>1 DEF EnsureThinking
<1>4. InOrder(FinalizeAssistant(x))
  <2> DEFINE turn == [x.turn EXCEPT !.textRow = TRUE]
  <2>1. CASE x.turn.user /\ x.turn.text /\ ~x.turn.textRow
    <3>1. /\ turn \in TurnType /\ turn.user /\ turn.textRow = TRUE
          /\ turn.thinkRow = x.turn.thinkRow
      BY <1>1, <2>1 DEF TurnType
    <3>2. FinalizeAssistant(x) = [turn |-> turn, rows |-> Append(x.rows, "assistant")]
      BY <2>1 DEF FinalizeAssistant
    <3> HIDE DEF turn
    <3>3. QED BY <1>1, <1>2, <2>1, <3>1, <3>2 DEF TurnType
  <2>2. QED BY <2>1 DEF FinalizeAssistant
<1>5. QED BY <1>3, <1>4

\* What does not touch the rows and the flags of the rows keeps the order.
LEMMA SameRows ==
    ASSUME NEW x \in ChatType, NEW y \in ChatType, InOrder(x), y.rows = x.rows,
           y.turn.user => x.turn.user, y.turn.thinkRow = x.turn.thinkRow \/ ~y.turn.user,
           y.turn.textRow = x.turn.textRow \/ ~y.turn.user
    PROVE  InOrder(y)
BY DEF InOrder

\* The history stays in order.
LEMMA HistoryStep ==
    ASSUME FlashTypes, HistorySound, FlashNext
    PROVE  HistorySound'
<1>1. CASE UNCHANGED <<chat>>
  BY <1>1 DEF HistorySound
<1>2. CASE BeginSession
  <2> DEFINE next == [chat EXCEPT !.turn.think = FALSE, !.turn.text = FALSE]
  <2>1. chat' \in {chat, next}
    BY <1>2 DEF BeginSession
  <2>2. /\ next \in ChatType /\ next.rows = chat.rows /\ next.turn.user = chat.turn.user
        /\ next.turn.thinkRow = chat.turn.thinkRow /\ next.turn.textRow = chat.turn.textRow
    BY DEF FlashTypes, ChatType, TurnType
  <2>3. InOrder(next)
    BY <2>2, SameRows DEF FlashTypes, HistorySound
  <2>4. QED BY <2>1, <2>3 DEF HistorySound
<1>3. CASE Press
  <2> DEFINE next == [chat EXCEPT !.turn = NoTurn]
  <2>1. chat' \in {chat, next}
    BY <1>3 DEF Press
  <2>2. next \in ChatType /\ next.rows = chat.rows /\ ~next.turn.user
    BY DEF FlashTypes, ChatType, TurnType, NoTurn
  <2>3. InOrder(next)
    BY <2>2, SameRows DEF FlashTypes, HistorySound
  <2>4. QED BY <2>1, <2>3 DEF HistorySound
<1>4. ASSUME NEW c \in Clients, TranscriptArrives(c) PROVE HistorySound'
  <2> DEFINE said == IF chat.turn.user THEN chat
                     ELSE [turn |-> [chat.turn EXCEPT !.user = TRUE],
                           rows |-> Append(chat.rows, "user")]
  <2>1. chat.turn \in TurnType /\ chat.rows \in Seq(RowKinds)
    BY DEF FlashTypes, ChatType
  <2>2. said \in ChatType
    <3>1. [chat.turn EXCEPT !.user = TRUE] \in TurnType
      BY <2>1 DEF TurnType
    <3>2. Append(chat.rows, "user") \in Seq(RowKinds)
      BY <2>1 DEF RowKinds
    <3>3. QED BY <3>1, <3>2 DEF FlashTypes, ChatType
  <2>3. InOrder(said)
    <3>1. CASE ~chat.turn.user
      <4>1. said.rows = Append(chat.rows, "user")
        BY <3>1
      <4>2. RowsInOrder(chat.rows)
        BY DEF HistorySound, InOrder
      <4>3. QED BY <2>1, <4>1, <4>2, UserMayFollow DEF InOrder, RowKinds
    <3>2. QED BY <3>1 DEF HistorySound
  <2>4. chat' \in {EnsureThinking(said), FinalizeAssistant(EnsureThinking(said))}
    BY <1>4 DEF TranscriptArrives
  <2> HIDE DEF said
  <2>5. QED BY <2>2, <2>3, <2>4, RowsAreTyped, RowsStayInOrder DEF HistorySound
<1>5. ASSUME NEW c \in Clients, ThinkingArrives(c) PROVE HistorySound'
  <2> DEFINE next == [chat EXCEPT !.turn.think = TRUE]
  <2>1. chat' = EnsureThinking(next)
    BY <1>5 DEF ThinkingArrives
  <2>2. /\ next \in ChatType /\ next.rows = chat.rows /\ next.turn.user = chat.turn.user
        /\ next.turn.thinkRow = chat.turn.thinkRow /\ next.turn.textRow = chat.turn.textRow
    BY DEF FlashTypes, ChatType, TurnType
  <2>3. InOrder(next)
    BY <2>2, SameRows DEF FlashTypes, HistorySound
  <2>4. QED BY <2>1, <2>2, <2>3, RowsStayInOrder DEF HistorySound
<1>6. ASSUME NEW c \in Clients, TextArrives(c) PROVE HistorySound'
  <2> DEFINE next == [chat EXCEPT !.turn.text = TRUE]
  <2>1. chat' = next
    BY <1>6 DEF TextArrives
  <2>2. /\ next \in ChatType /\ next.rows = chat.rows /\ next.turn.user = chat.turn.user
        /\ next.turn.thinkRow = chat.turn.thinkRow /\ next.turn.textRow = chat.turn.textRow
    BY DEF FlashTypes, ChatType, TurnType
  <2>3. InOrder(next)
    BY <2>2, SameRows DEF FlashTypes, HistorySound
  <2>4. QED BY <2>1, <2>3 DEF HistorySound
<1>7. ASSUME NEW c \in Clients, TurnDone(c) PROVE HistorySound'
  <2> DEFINE next == [chat EXCEPT !.turn.done = TRUE]
  <2>1. chat' \in {next, FinalizeAssistant(EnsureThinking(next))}
    BY <1>7 DEF TurnDone
  <2>2. /\ next \in ChatType /\ next.rows = chat.rows /\ next.turn.user = chat.turn.user
        /\ next.turn.thinkRow = chat.turn.thinkRow /\ next.turn.textRow = chat.turn.textRow
    BY DEF FlashTypes, ChatType, TurnType
  <2>3. InOrder(next)
    BY <2>2, SameRows DEF FlashTypes, HistorySound
  <2> HIDE DEF next
  <2>4. QED BY <2>1, <2>2, <2>3, RowsAreTyped, RowsStayInOrder DEF HistorySound
<1>8. QED BY <1>1, <1>2, <1>3, <1>4, <1>5, <1>6, <1>7 DEF FlashNext, Stop, Ui, Capture,
    Playback, WebsocketEvent, StopBegins, Join, StopPlayback, Detach, Destroy, Linger,
    HaltPlayback, TearDown, StopEnds, LifecycleWakes, LifecycleReports, PressKey, LeavePage,
    ReleaseKey, AbortFlashPlayback, PollFlashAmpIdle, EnsurePlaybackRingbuf, OpenClient,
    BargeIn, Listen, AwaitCapture, Mute, Submit, SendTurnEnd, OpenCapture, ReadBlock,
    SendBlock, FinishAudioStreamingTask, Receive, Discard, CheckBlock, OpenAmplifier,
    WriteBlock, ArmTail, Connected, SessionReady, AutoRecord, AudioArrives, AudioCounted,
    ErrorArrives, Disconnected


\* A failure is counted.
LEMMA FaultCounts ==
    ASSUME FlashTypes, Fault
    PROVE  past'.faults # 0
<1>1. past'.faults = past.faults + 1 /\ past.faults \in 0..MaxFlashFaults
  BY DEF FlashTypes, PastType, Fault
<1>2. QED BY <1>1, FlashBounds

\* Without a failure and a stray connection the UI task alone stops sessions.
LEMMA FaultlessStep ==
    ASSUME FlashTypes, ClientsSound, KeySound, Faultless, FlashNext
    PROVE  Faultless'
<1>1. CASE UNCHANGED <<flash, capture, audio, flashPc, local, ending, server, past>>
  BY <1>1 DEF Faultless
<1>2. ASSUME NEW t \in Stoppers, StopBegins(t) PROVE Faultless'
  BY <1>2 DEF FlashTypes, FlashType, SoundType, PlaceType, LocalType, EndingType, ServerType,
     PastType, Stoppers, StopPlaces, Stopping, Faultless, StopBegins, Goto
<1>3. ASSUME NEW t \in Stoppers, Join(t) PROVE Faultless'
  BY <1>3 DEF FlashTypes, FlashType, SoundType, PlaceType, LocalType, EndingType, ServerType,
     PastType, Stoppers, StopPlaces, Stopping, Faultless, Join, Fault, Goto
<1>4. ASSUME NEW t \in Stoppers, StopPlayback(t) PROVE Faultless'
  BY <1>4 DEF FlashTypes, FlashType, SoundType, PlaceType, LocalType, EndingType, ServerType,
     PastType, Stoppers, StopPlaces, Stopping, Faultless, StopPlayback, DrainPlaybackRingbuf,
     SetStreamAudioAmp, Goto
<1>5. ASSUME NEW t \in Stoppers, Detach(t) PROVE Faultless'
  BY <1>5 DEF FlashTypes, FlashType, SoundType, PlaceType, LocalType, EndingType, ServerType,
     PastType, Stoppers, StopPlaces, Stopping, Faultless, Detach, Goto
<1>6. ASSUME NEW t \in Stoppers, Destroy(t) PROVE Faultless'
  BY <1>6 DEF FlashTypes, FlashType, SoundType, PlaceType, LocalType, EndingType, ServerType,
     PastType, Stoppers, StopPlaces, Stopping, Faultless, Destroy, Goto
<1>7. ASSUME NEW t \in Stoppers, Linger(t) PROVE Faultless'
  BY <1>7 DEF FlashTypes, FlashType, SoundType, PlaceType, LocalType, EndingType, ServerType,
     PastType, Stoppers, StopPlaces, Stopping, Faultless, Linger, Fault, Goto
<1>8. ASSUME NEW t \in Stoppers, HaltPlayback(t) PROVE Faultless'
  BY <1>8 DEF FlashTypes, FlashType, SoundType, PlaceType, LocalType, EndingType, ServerType,
     PastType, Stoppers, StopPlaces, Stopping, Faultless, HaltPlayback, Goto
<1>9. ASSUME NEW t \in Stoppers, TearDown(t) PROVE Faultless'
  BY <1>9 DEF FlashTypes, FlashType, SoundType, PlaceType, LocalType, EndingType, ServerType,
     PastType, Stoppers, StopPlaces, Stopping, Faultless, TearDown, PlaybackGone, Fault,
     CaptureGone, Goto
<1>10. ASSUME NEW t \in Stoppers, StopEnds(t) PROVE Faultless'
  <2>1. SUFFICES ASSUME past'.faults = 0, ~past'.stray PROVE Faultless'
    BY DEF Faultless
  <2>2. past.faults = 0 /\ ~past.stray /\ past'.faults = past.faults /\ UNCHANGED past
    BY <1>10, <2>1 DEF FlashTypes, PastType, StopEnds, Fault
  <2>3. t = "ui" /\ flashPc.ui = "end" /\ ~audio.rx /\ ~audio.tx /\ capture = "none"
    BY <1>10, <2>2 DEF StopEnds, Stoppers, Faultless, Stopping
  <2>4. flash.client = 0 /\ local.dead["ui"] = 0 /\ ~local.again
    BY <2>2, <2>3 DEF Faultless, Stopping, ClientsSound, Stoppers
  <2>5. /\ flashPc'.ui = "idle" /\ flashPc'.life = flashPc.life
        /\ local'.dead = local.dead /\ ~local'.again
    BY <1>10, <2>3, <2>4 DEF FlashTypes, PlaceType, LocalType, StopEnds, Goto
  <2>6. audio'.rx = audio.rx /\ audio'.tx = audio.tx /\ (ending'.reason => ending.reason)
    BY <1>10 DEF FlashTypes, SoundType, EndingType, StopEnds, EndAudioActivity
  <2>7. UNCHANGED <<flash, capture, server>>
    BY <1>10 DEF StopEnds
  <2>8. QED BY <2>1, <2>2, <2>3, <2>4, <2>5, <2>6, <2>7 DEF Faultless, Stopping
<1>11. CASE LifecycleWakes
  BY <1>11 DEF FlashTypes, FlashType, SoundType, PlaceType, LocalType, EndingType, ServerType,
     PastType, Stoppers, StopPlaces, Stopping, Faultless, LifecycleWakes, Goto
<1>12. CASE LifecycleReports
  BY <1>12 DEF FlashTypes, FlashType, SoundType, PlaceType, LocalType, EndingType, ServerType,
     PastType, Stoppers, StopPlaces, Stopping, Faultless, LifecycleReports, SetErrorLocked, Goto
<1>13. CASE PressKey
  BY <1>13 DEF FlashTypes, FlashType, SoundType, PlaceType, LocalType, EndingType, ServerType,
     PastType, Stoppers, StopPlaces, Stopping, Faultless, PressKey, Gesture, Gestured, Goto
<1>14. CASE LeavePage
  BY <1>14 DEF FlashTypes, FlashType, SoundType, PlaceType, LocalType, EndingType, ServerType,
     PastType, Stoppers, StopPlaces, Stopping, Faultless, LeavePage, Gesture, Gestured, Goto
<1>15. CASE ReleaseKey
  BY <1>15 DEF FlashTypes, FlashType, SoundType, PlaceType, LocalType, EndingType, ServerType,
     PastType, Stoppers, StopPlaces, Stopping, Faultless, ReleaseKey, Goto
<1>16. CASE AbortFlashPlayback
  BY <1>16 DEF FlashTypes, FlashType, SoundType, PlaceType, LocalType, EndingType, ServerType,
     PastType, Stoppers, StopPlaces, Stopping, Faultless, AbortFlashPlayback, Gesture, Gestured,
     DrainPlaybackRingbuf, SetStreamAudioAmp
<1>17. CASE PollFlashAmpIdle
  BY <1>17 DEF FlashTypes, FlashType, SoundType, PlaceType, LocalType, EndingType, ServerType,
     PastType, Stoppers, StopPlaces, Stopping, Faultless, PollFlashAmpIdle, SetStreamAudioAmp
<1>18. CASE EnsurePlaybackRingbuf
  BY <1>18 DEF FlashTypes, FlashType, SoundType, PlaceType, LocalType, EndingType, ServerType,
     PastType, Stoppers, StopPlaces, Stopping, Faultless, EnsurePlaybackRingbuf, FreshPlayback,
     Goto
<1>19. CASE BeginSession
  <2>1. SUFFICES ASSUME past'.faults = 0, ~past'.stray PROVE Faultless'
    BY DEF Faultless
  <2>2. past.faults = 0 /\ ~past.stray /\ UNCHANGED past
    BY <1>19, <2>1 DEF FlashTypes, PastType, BeginSession, Fault
  <2>3. flashPc.ui = "begin" /\ UNCHANGED <<capture, local, ending, server>>
    BY <1>19 DEF BeginSession
  <2>4. flashPc'.life = flashPc.life /\ flashPc'.ui \in {"press", "connect"}
    BY <1>19 DEF FlashTypes, PlaceType, BeginSession, Goto
  <2>5. flash.client = 0 /\ local.dead["ui"] = 0 /\ local.dead["life"] = 0 /\ server.on = 0
    <3>1. flash.client = 0 /\ local.dead["ui"] = 0 /\ local.dead["life"] = 0
      BY <2>2, <2>3 DEF Faultless, Stopping, ClientsSound, Stoppers
    <3>2. server.on # 0 => server.on \in Clients
      BY FlashBounds DEF FlashTypes, ServerType, Clients
    <3>3. QED BY <3>1, <3>2 DEF ClientsSound
  <2>6. CASE flashPc'.ui = "press" /\ UNCHANGED <<flash, audio>>
    BY <2>1, <2>2, <2>3, <2>4, <2>5, <2>6 DEF Faultless, Stopping
  <2>7. CASE /\ audio' = [audio EXCEPT !.session = TRUE]
             /\ flash' = [flash EXCEPT !.status = "connecting", !.inFlight = FALSE]
    <3>1. /\ audio'.session /\ audio'.rx = audio.rx /\ audio'.tx = audio.tx
          /\ flash'.status = "connecting" /\ flash'.client = 0
          /\ flash'.connected = flash.connected
      BY <2>5, <2>7 DEF FlashTypes, SoundType, FlashType
    <3>2. QED BY <2>1, <2>2, <2>3, <2>4, <2>5, <3>1 DEF Faultless, Stopping
  <2>8. QED BY <1>19, <2>2, <2>4, <2>6, <2>7
            DEF FlashTypes, PlaceType, PastType, BeginSession, Goto, Fault
<1>20. CASE OpenClient
  BY <1>20 DEF FlashTypes, FlashType, SoundType, PlaceType, LocalType, EndingType, ServerType,
     PastType, Stoppers, StopPlaces, Stopping, Faultless, OpenClient, Fault, SetErrorLocked,
     EndAudioActivity, Goto
<1>21. CASE Press
  BY <1>21 DEF FlashTypes, FlashType, SoundType, PlaceType, LocalType, EndingType, ServerType,
     PastType, Stoppers, StopPlaces, Stopping, Faultless, Press, Talking, NoTurn, Goto
<1>22. CASE BargeIn
  BY <1>22 DEF FlashTypes, FlashType, SoundType, PlaceType, LocalType, EndingType, ServerType,
     PastType, Stoppers, StopPlaces, Stopping, Faultless, BargeIn, DrainPlaybackRingbuf,
     SetStreamAudioAmp, Goto
<1>23. CASE Listen
  <2>1. SUFFICES ASSUME past'.faults = 0, ~past'.stray PROVE Faultless'
    BY DEF Faultless
  <2>2. StartAudioStreaming
    BY <1>23 DEF Listen
  <2>3. ~Fault
    BY <2>1, FaultCounts
  <2>4. /\ UNCHANGED <<flash, ending, past>> /\ capture' \in {capture, "warmup"}
        /\ UNCHANGED audio \/ SetStreamAudioAmp(FALSE)
    BY <2>2, <2>3 DEF StartAudioStreaming
  <2>5. /\ audio'.rx = audio.rx /\ audio'.tx = audio.tx /\ audio'.session = audio.session
    BY <2>4 DEF FlashTypes, SoundType, SetStreamAudioAmp
  <2>6. past.faults = 0 /\ ~past.stray
    BY <2>1, <2>4
  <2>7. /\ flashPc.ui = "listen" /\ flashPc'.ui = "idle" /\ flashPc'.life = flashPc.life
        /\ UNCHANGED <<local, server>>
    BY <1>23 DEF FlashTypes, PlaceType, Listen, Goto
  <2>8. QED BY <2>1, <2>4, <2>5, <2>6, <2>7 DEF Faultless, Stopping
<1>24. CASE AwaitCapture
  BY <1>24 DEF FlashTypes, FlashType, SoundType, PlaceType, LocalType, EndingType, ServerType,
     PastType, Stoppers, StopPlaces, Stopping, Faultless, AwaitCapture, Fault, Goto
<1>25. CASE Mute
  BY <1>25 DEF FlashTypes, FlashType, SoundType, PlaceType, LocalType, EndingType, ServerType,
     PastType, Stoppers, StopPlaces, Stopping, Faultless, Mute, SetStreamAudioAmp, Goto
<1>26. CASE Submit
  <2>1. /\ flashPc.ui = "submit" /\ UNCHANGED <<capture, audio, ending, server, past>>
        /\ local'.dead = local.dead /\ local'.again = local.again
    BY <1>26 DEF FlashTypes, LocalType, Submit
  <2>2. /\ flash'.status = flash.status /\ flash'.client = flash.client
        /\ flash'.connected = flash.connected
    BY <1>26 DEF FlashTypes, FlashType, Submit
  <2>3. /\ flashPc'.life = flashPc.life
        /\ \/ flashPc'.ui = "idle" /\ flash'.inFlight = flash.inFlight
           \/ flashPc'.ui = "send" /\ flash'.inFlight /\ ~flash.inFlight
    BY <1>26 DEF FlashTypes, FlashType, PlaceType, Submit, MaySubmit, Goto
  <2>4. QED BY <2>1, <2>2, <2>3 DEF Faultless, Stopping
<1>27. CASE SendTurnEnd
  <2>1. /\ flashPc.ui = "send" /\ flashPc'.ui = "idle" /\ flashPc'.life = flashPc.life
        /\ UNCHANGED <<flash, capture, audio, ending>>
    BY <1>27 DEF FlashTypes, PlaceType, SendTurnEnd, Goto
  <2>2. local'.dead = local.dead /\ local'.again = local.again /\ local.to # 0
    BY <1>27 DEF FlashTypes, LocalType, SendTurnEnd, ClientsSound
  <2>3. /\ past'.faults = past.faults /\ past'.stray = past.stray
        /\ past'.overlap => past.overlap \/ server.on = local.to
    BY <1>27 DEF FlashTypes, PastType, SendTurnEnd
  <2>4. QED BY <2>1, <2>2, <2>3 DEF Faultless, Stopping
<1>28. CASE OpenCapture
  <2>1. SUFFICES ASSUME past'.faults = 0, ~past'.stray PROVE Faultless'
    BY DEF Faultless
  <2>2. past.faults = 0 /\ ~past.stray
    BY <1>28, <2>1 DEF FlashTypes, PastType, OpenCapture, Fault
  <2>3. capture = "warmup" /\ audio.session /\ audio.tx = audio.rx
    BY <1>28, <2>2 DEF OpenCapture, Faultless
  <2>4. /\ capture' = "read" /\ UNCHANGED <<flash, ending, past>>
        /\ audio' = [audio EXCEPT !.tx = @ \/ ~audio.rx, !.rx = TRUE]
    BY <1>28, <2>1, <2>3 DEF FlashTypes, SoundType, PastType, OpenCapture, Fault
  <2>5. audio'.tx /\ audio'.rx /\ audio'.session = audio.session
    BY <2>3, <2>4 DEF FlashTypes, SoundType
  <2>6. UNCHANGED <<flashPc, local, server>>
    BY <1>28 DEF OpenCapture
  <2>7. flashPc.ui \notin Stopping
    BY <2>2, <2>3 DEF Faultless
  <2>8. QED BY <2>1, <2>2, <2>3, <2>4, <2>5, <2>6, <2>7 DEF Faultless, Stopping
<1>29. CASE ReadBlock
  BY <1>29 DEF FlashTypes, FlashType, SoundType, PlaceType, LocalType, EndingType, ServerType,
     PastType, Stoppers, StopPlaces, Stopping, Faultless, ReadBlock
<1>30. CASE SendBlock
  BY <1>30 DEF FlashTypes, FlashType, SoundType, PlaceType, LocalType, EndingType, ServerType,
     PastType, Stoppers, StopPlaces, Stopping, Faultless, SendBlock
<1>31. CASE FinishAudioStreamingTask
  BY <1>31 DEF FlashTypes, FlashType, SoundType, PlaceType, LocalType, EndingType, ServerType,
     PastType, Stoppers, StopPlaces, Stopping, Faultless, FinishAudioStreamingTask
<1>32. CASE OpenAmplifier
  BY <1>32 DEF FlashTypes, FlashType, SoundType, PlaceType, LocalType, EndingType, ServerType,
     PastType, Stoppers, StopPlaces, Stopping, Faultless, OpenAmplifier, SetStreamAudioAmp
<1>33. ASSUME NEW c \in Clients, Connected(c) PROVE Faultless'
  <2>1. /\ flash'.status = "updating" /\ flash'.client = flash.client
        /\ flash'.inFlight = flash.inFlight
        /\ UNCHANGED <<capture, audio, flashPc, local, ending, server>>
    BY <1>33 DEF FlashTypes, FlashType, Connected
  <2>2. /\ past'.faults = past.faults /\ past'.overlap = past.overlap
        /\ past'.stray = (past.stray \/ c # flash.client)
    BY <1>33 DEF FlashTypes, PastType, Connected
  <2>3. c # 0
    BY FlashBounds DEF Clients
  <2>4. QED BY <2>1, <2>2, <2>3 DEF Faultless, Stopping
<1>34. ASSUME NEW c \in Clients, SessionReady(c) PROVE Faultless'
  BY <1>34 DEF FlashTypes, FlashType, SoundType, PlaceType, LocalType, EndingType, ServerType,
     PastType, Stoppers, StopPlaces, Stopping, Faultless, SessionReady
<1>35. ASSUME NEW c \in Clients, AutoRecord(c) PROVE Faultless'
  <2>1. SUFFICES ASSUME past'.faults = 0, ~past'.stray PROVE Faultless'
    BY DEF Faultless
  <2>2. StartAudioStreaming
    BY <1>35 DEF AutoRecord
  <2>3. ~Fault
    BY <2>1, FaultCounts
  <2>4. /\ UNCHANGED <<flash, ending, past>> /\ capture' \in {capture, "warmup"}
        /\ UNCHANGED audio \/ SetStreamAudioAmp(FALSE)
    BY <2>2, <2>3 DEF StartAudioStreaming
  <2>5. /\ audio'.rx = audio.rx /\ audio'.tx = audio.tx /\ audio'.session = audio.session
    BY <2>4 DEF FlashTypes, SoundType, SetStreamAudioAmp
  <2>6. past.faults = 0 /\ ~past.stray
    BY <2>1, <2>4
  <2>7. UNCHANGED <<flashPc, local, server>>
    BY <1>35 DEF AutoRecord
  <2>8. c \in {flash.client, local.dead["ui"]} /\ c # 0
    <3>1. ws[c].state # "none"
      BY <1>35 DEF AutoRecord, ClientsSound
    <3>2. QED BY <2>6, <3>1, FlashBounds DEF ClientsSound, Faultless, Clients
  <2>9. audio.session /\ flashPc.ui \notin Stopping
    BY <2>6, <2>8 DEF ClientsSound, Stoppers, Faultless, Stopping
  <2>10. flash.status = "idle" => flashPc.ui = "destroy"
    BY <2>6, <2>8 DEF ClientsSound, Stoppers, Faultless
  <2>11. QED BY <2>1, <2>4, <2>5, <2>6, <2>7, <2>9, <2>10 DEF Faultless, Stopping
<1>36. ASSUME NEW c \in Clients, TranscriptArrives(c) PROVE Faultless'
  BY <1>36 DEF FlashTypes, FlashType, SoundType, PlaceType, LocalType, EndingType, ServerType,
     PastType, Stoppers, StopPlaces, Stopping, Faultless, TranscriptArrives, EnsureThinking,
     FinalizeAssistant, Handled
<1>37. ASSUME NEW c \in Clients, ThinkingArrives(c) PROVE Faultless'
  BY <1>37 DEF FlashTypes, FlashType, SoundType, PlaceType, LocalType, EndingType, ServerType,
     PastType, Stoppers, StopPlaces, Stopping, Faultless, ThinkingArrives, Hearing,
     EnsureThinking, Handled
<1>38. ASSUME NEW c \in Clients, TextArrives(c) PROVE Faultless'
  BY <1>38 DEF FlashTypes, FlashType, SoundType, PlaceType, LocalType, EndingType, ServerType,
     PastType, Stoppers, StopPlaces, Stopping, Faultless, TextArrives, Hearing, Handled
<1>39. ASSUME NEW c \in Clients, TurnDone(c) PROVE Faultless'
  <2>1. /\ flash'.status = flash.status /\ flash'.client = flash.client
        /\ flash'.connected = flash.connected /\ server'.on = 0 /\ server.on = c
        /\ UNCHANGED <<capture, audio, flashPc, local, ending, past>>
    BY <1>39 DEF FlashTypes, FlashType, ServerType, TurnDone, Hearing, Handled
  <2>2. c # 0
    BY FlashBounds DEF Clients
  <2>3. QED BY <2>1, <2>2 DEF Faultless, Stopping
<1>40. ASSUME NEW c \in Clients, AudioArrives(c) PROVE Faultless'
  BY <1>40 DEF FlashTypes, FlashType, SoundType, PlaceType, LocalType, EndingType, ServerType,
     PastType, Stoppers, StopPlaces, Stopping, Faultless, AudioArrives, Hearing
<1>41. ASSUME NEW c \in Clients, ErrorArrives(c) PROVE Faultless'
  BY <1>41 DEF FlashTypes, FlashType, SoundType, PlaceType, LocalType, EndingType, ServerType,
     PastType, Stoppers, StopPlaces, Stopping, Faultless, ErrorArrives, Fault, SetErrorLocked,
     RequestFlashTerminalStop
<1>42. ASSUME NEW c \in Clients, Disconnected(c) PROVE Faultless'
  BY <1>42 DEF FlashTypes, FlashType, SoundType, PlaceType, LocalType, EndingType, ServerType,
     PastType, Stoppers, StopPlaces, Stopping, Faultless, Disconnected, Fault, SetErrorLocked,
     RequestFlashTerminalStop
<1>43. QED BY <1>1, <1>2, <1>3, <1>4, <1>5, <1>6, <1>7, <1>8, <1>9, <1>10, <1>11, <1>12, <1>13,
    <1>14, <1>15, <1>16, <1>17, <1>18, <1>19, <1>20, <1>21, <1>22, <1>23, <1>24, <1>25, <1>26,
    <1>27, <1>28, <1>29, <1>30, <1>31, <1>32, <1>33, <1>34, <1>35, <1>36, <1>37, <1>38, <1>39,
    <1>40, <1>41, <1>42 DEF FlashNext, Stop, Ui, Capture, Playback, WebsocketEvent, Receive,
    Discard, CheckBlock, WriteBlock, ArmTail, AudioCounted


\* The dialogue starts with the invariant.
LEMMA FlashStarts == FlashInit => FlashInv
<1> SUFFICES ASSUME FlashInit PROVE FlashInv
  OBVIOUS
<1>1. /\ flash.client = 0 /\ flash.status = "idle" /\ ~flash.connected /\ ~flash.pressed
      /\ ~flash.capturing /\ flash.seq = 0 /\ flash.base = 0
  BY DEF FlashInit
<1>2. /\ flashPc.ui = "idle" /\ flashPc.life = "idle" /\ ~ending.reason
      /\ ~local.again /\ ~local.was /\ local.dead = [t \in Stoppers |-> 0]
  BY DEF FlashInit
<1>3. /\ past.gestures = 0 /\ past.clients = 0 /\ past.blocks = 0 /\ ~past.overlap
      /\ ~past.emptyTurn /\ ~past.warm
  BY DEF FlashInit
<1>4. /\ \A c \in Clients : ws[c].state = "none" /\ ws[c].busy = "no"
      /\ server.on = 0 /\ capture = "none" /\ play.at = "receive"
      /\ ~audio.session /\ ~audio.rx /\ ~audio.tx
  BY DEF FlashInit, FreshPlayback
<1>5. FlashTypes
  <2>1. flash \in FlashType /\ play \in PlayType /\ audio \in SoundType
    BY FlashBounds DEF FlashInit, FlashType, FreshPlayback, PlayType, SoundType
  <2>2. chat \in ChatType
    BY DEF FlashInit, NoTurn, ChatType, TurnType
  <2>3. flashPc \in PlaceType /\ ending \in EndingType
    BY DEF FlashInit, PlaceType, TalkPlaces, EndingType
  <2>4. local \in LocalType
    <3>1. [t \in Stoppers |-> 0] \in [Stoppers -> 0..MaxGestures]
      BY FlashBounds
    <3>2. QED BY <3>1, FlashBounds DEF FlashInit, LocalType
  <2>5. ws \in [Clients -> ClientType]
    BY DEF FlashInit, ClientType
  <2>6. server \in ServerType /\ past \in PastType
    BY FlashBounds DEF FlashInit, ServerType, PastType
  <2>7. capture = "none"
    BY DEF FlashInit
  <2>8. QED BY <2>1, <2>2, <2>3, <2>4, <2>5, <2>6, <2>7 DEF FlashTypes
<1>6. BlocksSound
  <2>1. Counting = {}
    BY <1>4 DEF Counting
  <2>2. Cardinality(Counting) = 0
    BY <2>1, FS_EmptySet
  <2>3. play.ring = 0 /\ play.queued = 0
    BY DEF FlashInit, FreshPlayback
  <2>4. QED BY <1>3, <2>2, <2>3 DEF BlocksSound
<1>7. ClientsSound
  BY <1>1, <1>2, <1>3, <1>4 DEF ClientsSound, TalkPlaces, Stoppers
<1>8. KeySound /\ TurnsSound
  BY <1>1, <1>2, <1>3 DEF KeySound, TurnsSound, StartPlaces, Unheard
<1>9. HistorySound
  <2>1. chat.rows = <<>> /\ ~chat.turn.user
    BY DEF FlashInit, NoTurn
  <2>2. QED BY <2>1 DEF HistorySound, InOrder, RowsInOrder
<1>10. Faultless
  <2>1. audio.tx = audio.rx /\ local.dead["ui"] = 0 /\ local.dead["life"] = 0
    BY <1>2 DEF FlashInit, Stoppers
  <2>2. QED BY <1>1, <1>2, <1>3, <1>4, <2>1 DEF Faultless, Stopping
<1>11. UsersHaveChannels /\ ChannelsWithinSession
  BY <1>4 DEF UsersHaveChannels, ChannelsWithinSession
<1>12. QED BY <1>5, <1>6, <1>7, <1>8, <1>9, <1>10, <1>11 DEF FlashInv

\* Every step of the five tasks keeps the invariant.
LEMMA FlashSteps == FlashInv /\ [FlashNext]_flashVars => FlashInv'
<1>1. ASSUME FlashInv, FlashNext PROVE FlashInv'
  <2>1. FlashTypes' /\ BlocksSound' /\ ClientsSound' /\ KeySound'
    BY <1>1, FlashTypesStep, BlocksStep, ClientsStep, KeyStep DEF FlashInv
  <2>2. TurnsSound' /\ HistorySound' /\ Faultless'
    BY <1>1, TurnsStep, HistoryStep, FaultlessStep DEF FlashInv
  <2>3. UsersHaveChannels' /\ ChannelsWithinSession'
    BY <1>1, ChannelsStep DEF FlashInv
  <2>4. QED BY <2>1, <2>2, <2>3 DEF FlashInv
<1>2. ASSUME FlashInv, UNCHANGED flashVars PROVE FlashInv'
  BY <1>2 DEF flashVars, FlashInv, FlashTypes, BlocksSound, Counting, ClientsSound, KeySound,
     TurnsSound, Unheard, HistorySound, Faultless, UsersHaveChannels, ChannelsWithinSession
<1>3. QED BY <1>1, <1>2

\* The invariant is all that the property says.
LEMMA FlashInvImplies == FlashInv => FlashSound
<1> SUFFICES ASSUME FlashInv PROVE FlashSound
  OBVIOUS
<1>1. FlashTypeOK
  <2>1. play.ring \in 0..MaxBlocks /\ play.queued \in 0..MaxBlocks
    BY CountingIsFinite, FlashBounds DEF FlashInv, FlashTypes, PlayType, PastType, BlocksSound
  <2>2. flash.status \in {"idle", "connecting", "updating", "streaming", "error"}
        /\ flash.client \in 0..MaxGestures
    BY DEF FlashInv, FlashTypes, FlashType
  <2>3. play.at \in {"none", "receive", "check", "discard", "drained", "open", "write",
                     "written"}
    BY DEF FlashInv, FlashTypes, PlayType
  <2>4. capture \in {"none", "warmup", "read", "send", "exit"}
    BY DEF FlashInv, FlashTypes
  <2>5. QED BY <2>1, <2>2, <2>3, <2>4 DEF FlashTypeOK
<1>2. OneResponse
  <2>1. past.faults \in Nat
    BY FlashBounds DEF FlashInv, FlashTypes, PastType
  <2>2. QED BY <2>1 DEF FlashInv, Faultless, OneResponse
<1>3. WarmTurnHasAudio
  BY DEF FlashInv, TurnsSound, WarmTurnHasAudio
<1>4. RowsFollowUser
  BY DEF FlashInv, HistorySound, InOrder, RowsInOrder, RowsFollowUser
<1>5. QED BY <1>1, <1>2, <1>3, <1>4 DEF FlashInv, FlashSound

\* For any number of gestures, blocks and failures: as long as nothing fails one
\* response is asked for at a time, a turn has audio of its own, rows follow the words
\* of the user, and no task loses the channel it works on or outlives the session.
THEOREM DialogueIsSound == FlashSpec => []FlashSound
<1>1. FlashInit => FlashInv
  BY FlashStarts
<1>2. FlashInv /\ [FlashNext]_flashVars => FlashInv'
  BY FlashSteps
<1>3. QED BY <1>1, <1>2, FlashInvImplies, PTL DEF FlashSpec

================================================================================
