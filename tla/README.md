# TLA+ models of the Note4 firmware

Formal models of `firmware/wqn-zectrix-note4` (called FW below): an ESP32-S3
e-paper study device. They cover the parts where tasks, power losses and sleep
meet; every definition is translated from the source lines that
`PROJECT.json` ("map") names. Paths below are relative to `src/FW`.

## 1. The system

### Tasks and how they meet

| Component | Source | State it keeps | Operations | Talks to |
|---|---|---|---|---|
| Sleep coordinator | `components/power_runtime/runtime/sleep_coordinator.cpp` | lease registry, blocker counters, gate and its generation, light-sleep lock | `SleepLease::TryAcquire/Reset`, `TryBeginSleepQuiesce`, `BeginEmergencySleepQuiesce`, `CancelSleepQuiesce` | every task takes leases; the power task moves the gate |
| Power coordinator | `main/power_manager.cpp`, `main/power/wake_controller.cpp`, `runtime/sleep_snapshot.cpp`, `runtime/wake_context.cpp` | activity generation, retry back-off, emergency request, RTC snapshot, armed wake pins | idle and emergency sleep transactions, rollback | asks display, storage, audio, connectivity to prepare |
| Button input | `main/button_input.cpp` | press classifier, event ring | `PushButtonEvent`, `ReceiveButtonEvent` | publishes user activity, feeds the UI task |
| UI task | `main/device_ui.cpp`, `main/ui/*`, `main/*_app.cpp` | `AppState`, pages, staged effects | event drain, result drain, render | persist worker, cloud runner, display |
| Persist worker | `main/ui/persist_worker.cpp` | slots, busy flags, mailboxes | reserve, enqueue, execute, publish, ack | storage service, sleep leases |
| Storage service | `main/services/storage_service.cpp` | two queues, completion blocks | foreground and background transactions | runs every NVS/SPIFFS write |
| Word-study store | `main/word_study_store.cpp` | journal, session snapshot, quarantine journal, resident cache | load, save, clear, commit, peek, ack, quarantine, prepare for sleep | called through the storage service |
| Sync service | `main/services/sync_service.cpp`, `main/wqn_api.cpp` | requests, back-off per journal, claim session, request ids, checkpoint | full round, outbox round, claim, bootstrap, sync | server, stores, storage service |
| Cloud runner | `main/ui/cloud_runner.cpp` | lanes, per-domain mailboxes | submit, run, publish, ack | HTTP API, UI task |
| Connectivity service | `main/services/connectivity_service.cpp`, `main/wifi_manager.cpp` | Wi-Fi state machine, retries, lease | start, provision, prepare/rollback sleep | Wi-Fi driver events |
| Audio service | `main/services/audio_service.cpp` | codec state, I2S resources, activity | begin/end, register/close resource, prepare/rollback | AI and flash sessions |
| Display service | `components/display_service/display_service.cpp`, `main/ui/ui_refresh.cpp` | intent slots, ledger of results, partial counters, panel power, frame in RTC memory | submit, refresh, drain, prepare for sleep, idle cleanup | UI task, power task |
| Note and problem stores and apps | `main/note_store.cpp`, `main/problem_store.cpp`, `main/note_app.cpp`, `main/problem_app.cpp` | journals, reducers | as the word store | persist worker, sync |
| Storage schema, settings | `main/storage.cpp`, `main/runtime/storage_schema.cpp` | NVS generation marker, deck-scope marker | boot migration, deck change | boot, persist worker |
| Problem cache | `main/problem_cache.cpp`, `main/ui/ui_state.cpp` | a file and its backup, the list of the problem page | load, merge, save, review | sync task, problem page, storage service |
| Packs | `main/*_pack.cpp` | content files and manifests | download, commit, index | cloud runner |
| Spoken dialogue | `main/flash_session.cpp` | session, current turn, capture and playback tasks, I2S channels | press, release, interrupt, stop; events of the websocket | audio, connectivity, UI and lifecycle task |
| AI sessions | `main/ai_session.cpp`, `main/ai_history.cpp` | recorded question, history | record, upload, stream the answer | audio, cloud, history |

The tasks interact in four ways: bounded queues with replies (storage, audio,
connectivity), generation-stamped mailboxes (persist worker, cloud runner,
display), sleep leases, and a few atomics read without a lock (gate, counters,
activity generation).

### What is hard here, and what makes each part correct

* **Sleep** ends in a reset that loses RAM. A lease must exclude it, an input
  must not be lost to it, and a refused sleep must leave every service as it was.
* **Power loss** may cut any file operation. What the user was told is saved
  must survive it, and the journal must load again.
* **Half-done atomics**: counters, flags and mailboxes are written one word at a
  time while other tasks read them.
* **Timeouts** return control to a caller whose request is still queued, running
  or just answered.
* **Stale results**: a page is reset while its write or request is under way.
* **Dialogue**: five tasks share one session, and an answer meets the next question.
* **Server**: answers are lost, requests are replayed, a sequence gap blocks the
  upload for ever.

`PROJECT.json` lists every hazard with its line and the properties that guard it.

## 2. Modules

| Module | Models | Composes |
|---|---|---|
| `LeaseGate` | abstract: the gate that admits work and closes for sleep | |
| `SleepCoordinator` | the lease registry, counters, gate and light-sleep lock, one atomic access per step | implements `LeaseGate` |
| `ObservationLog` | abstract: observations pending until their verdict | |
| `WordStore` | journal, session and quarantine files, the resident cache, every transaction as its file operations, I/O errors and power losses | |
| `WordStudy` | the word page, the upload loop, sleep preparation and the server around the store | extends `WordStore`, implements `ObservationLog` |
| `WordInvariant` | the inductive invariant of `WordStudy` (definitions only) | extends `WordStudy` |
| `Places` | the records at some of the places of a file, in order | used by `WordStore` and `ProblemOutbox` |
| `StorageCall` | abstract: a transaction is run at most once, or refused and never run | |
| `StorageService` | queues, completion blocks, timeouts, the storage task | implements `StorageCall` |
| `PersistWorker` | slots, worker, mailboxes, pages, over the gate | instantiates `LeaseGate`, implements `StorageCall` |
| `PowerCoordinator` | the sleep and emergency transaction with its rollback, the sleep side of audio and connectivity, the way of an input into RAM, resets | instantiates `LeaseGate` |
| `DisplayPipeline` | a frame from the page through two slots, a secondary intent and the EPD task to its result, and the lease over it | |
| `EpdCommands` | sleep preparation and idle maintenance as the EPD task serves them | |
| `EpdPanel` | the driver: waveform, what it believes the panel shows, RTC memory | |
| `AudioService` | calls with deadlines, activities, driver operations and their drain, resources, codec, sleep | |
| `Connectivity` | Wi-Fi policy, driver events, retries, provisioning, lease, sleep | |
| `CloudRunner` | lanes, result slots, busy flags and leases of the cloud domains | |
| `NoteSession` | a note-browsing session: page, cloud requests, note store, upload, reboots | extends `CloudRunner` |
| `ProblemOutbox` | verdicts on problems: page, journal, upload, power losses | |
| `SyncService` | the sync task: who asks for a round, what it does, when the next comes | |
| `ProblemCache` | the cache of problems: a file and its backup, the merge of the sync task, the review of the problem page | |
| `DeviceControl` | claim, bootstrap, checkpoint in NVS, merge before checkpoint | extends `ProblemCache` |
| `FlashSession` | a spoken dialogue: key, capture, playback, websocket client and lifecycle task, two stops at once | |
| `SleepCoordinatorProofs`, `StorageServiceProofs`, `PersistWorkerProofs`, `PowerCoordinatorProofs`, `DisplayPipelineProofs`, `SyncProofs`, `OwnerTaskProofs`, `WordStudyProofs` | theorems (section 4) | extend the modules they are about |

The `MC...` modules give a specification its constants for TLC. Three of them join
components that share no variable here: `MCOwnerTasks` (gate, panel, audio,
connectivity, device control, spoken dialogue), `MCStudyPages` (words, cloud runner,
note session, verdicts on problems) and `MCDisplayPipeline` (frames, commands of the EPD
task). Such an instance is the disjoint union of its parts: a variable `part`, chosen in
the initial state, says which one runs, and the others stay as they started. It says
what a run per part would say, with the bounds of each part in the module or in the
cfg, and its invariants are the definitions the theorems speak of.

### How state and actions correspond to the code

*SleepCoordinator.* `records`, `blockerCounts`, `totalBlockers`, `quiescing`,
`quiesceGeneration`, `nextLeaseId` are the globals of the same names;
`pmCount` counts the ESP-IDF lock. `TryAcquire` is `CheckGate` (unlocked early
check), `Register`/`Refuse` (the critical section), `AcquirePmLock` (after it);
`Reset` is `ReleaseRecord`, `ReleaseCount`, `ReleaseTotal`, `ReleasePmLock`.
`coord` is what the power task believes after `TryBegin...`, `Begin...` and
`Cancel...`. A task runs one lease at a time. `DeepSleep` is the reset that ends a
sleep. Ids are counted modulo `Modulus` (2^32 in the code).

*WordStore and WordStudy.* A file is its sequence of records, `Torn` for a
partial one, `Absent` when it does not exist; each has a primary and a backup.
A transaction is planned as the sequence of file operations the code makes
(`todo`), each of which is a step that succeeds, fails cleanly or is cut by a
power loss. `cache` is `g_outbox_cache`. The record encoding is abstracted to
whether a scan accepts it. One study mode's session slot is modelled (the slots
are independent), its cursor as `next`, the number of cards as `end`. The upload
loop peeks, submits, and acknowledges or quarantines; the server (external) keeps
a next sequence per session and the verdicts it gave, and its answer may be lost.

*StorageService.* One step per queue, semaphore, notification or exchange of the
completion state. A timeout is a step that may happen whenever its wait goes on.
The completion block is its `state`, `signalled` and `result`; `freed` marks the
`delete`.

*PersistWorker.* One step per store that another task can observe: slot state,
lease, mailbox fields, mailbox generation, ack, busy flag. A page is quiet,
armed or persisting; `ResetPage` is a page left or re-scoped. Operation ids go on
over a reset so that the histories `asked`, `outcome` and `fate` tell operations
apart.

*PowerCoordinator.* `pc` is the place of the power task in
`EnterDeepSleepIfEnabled` and the functions it calls; `attempt` is the command,
its activity baseline and whether all parts answered kReady. `activity`,
`interacted`, `nextGeneration` and `request` are the globals
`g_user_activity_generation`, `g_user_interacted_current_boot`,
`g_next_sleep_generation` and `g_battery_shutdown_requested`. `rtc` is what a deep
sleep keeps. An input goes from `line` (the pin) through `hand` (the button task
between classification, publication and the ring) to `ring` and `staged` (a write
armed in RAM that waits for its lease). A service has a command queue and a reply;
a caller gives up at any time and its command is executed later. `"stuck"` is an
audio service whose codec did not come back. Late replies are drained before the
next command, so a reply that finds no caller is dropped at once. A call may end before
its command is sent, because another client holds the mutex or the queue is full: a
prepare then refuses the sleep, a rollback is lost (`LoseRollback`, remembered in
`unsent`).

*DisplayPipeline.* `slots`, `consumer`, `pending`, `secondary` are the intents under
`g_refresh_mutex`; each section under it is one step. `held` is the frame the EPD task
works on, the ledger is the ring of results the UI drains and acknowledges. A revision
is counted per submission; a frame stands for its pixels, signature and clock label. A
transfer succeeds or fails. `unowned` remembers a failure no full refresh has followed,
`unasked` a change of the page that nobody has asked to show (`TransferProgress`).

*EpdCommands.* Request, claim, result and cancelled generations of the channel in
`display_service.cpp` one by one, semaphore and task notification beside them. The
power task may stop waiting at any time.

*EpdPanel.* One caller at a time holds the operation mutex. `previous` and `synced`
are the driver's copy of the panel, `rtcFrame` and `trusted` the checksum in RTC
memory, `panel` what is really shown; `Strategy` chooses the waveform from the counters
as `SelectEpdRefresh` does. How much two frames differ is a choice.

*AudioService, Connectivity.* A call is a record in a bounded queue and a reply that is
late or not; the owner task takes one command at a time, and each wait inside a command
(a driver call, a drain, the codec) is a step of its own. `slots` holds the resources
clients registered, `inflight` their driver operations. `netState`, `timer`, `retries`
and `resume` are the members of the connectivity owner; `wifi`, `radio` and `events`
are the driver, `known` what `wifi_manager` tells callers about the link.

*CloudRunner, NoteSession.* `busy` and `leased` are taken by the UI task, `lanes` are
the queues, `slot` the mailbox of a domain with its generation, `acked` what the UI
took. A session is named by the request that created it; `primary` and `backup` are its
file, `outbox` the journal of opened notes as the program has it in memory, `filed` and
`tail` what is in the file, `aside` its backup: they differ after an append that failed
with its record, or a part of it, in the file. A storage transaction is one step here,
which `StorageService` justifies; a save of the session may be cut between its renames.

*ProblemOutbox.* `verdicts` is the journal as lines: the record a line decodes to, the
requests whose ids occur in its text, and whether its newline was written. A verdict
goes `given` (the key), written, `told` (the page knows), uploaded or quarantined.
The rewrite of the journal is its file operations.

*SyncService.* `wait` is the set of reasons for which the wait of the task may end: the
notification, the interval, the quiet period, a back-off. `journal` counts records per
domain, `backoff` says whose head has been put off and until when. A round is the
stages of `RunSyncRound` or `RunWordOutboxOnlyRound`, each of which succeeds, fails or
loses the token.

*DeviceControl.* `nvs` has the three keys `ClearIdentityStateRaw` erases one by one, a
storage transaction (`storageJob`) writes one key per step, and `ram` is the copy the sync
task uses. `bodies[kind]` is what has been sent under the request id that is kept for a
retry, {} when none is. The server decides when it is asked; a claim and the identity
it yields have one number.

*ProblemCache.* A file is the set of pages in it, {} when it is not there. A save is
`DropBackup`, `KeepPrimary` and the rename of the new file, each a step that may fail or
be cut; a load reads the backup when there is no primary and leaves it there. The sync
task merges into what it has read, the problem page saves `uiList`, which it has read
at the start or at its last reload. `cacheLost` remembers what went from the files.

*FlashSession.* `flash` is the part of `g_flash` that decides (status, client, key,
capture, sequence, response), `chat` the assembly of the turn with the rows of the
history, `audio` the session, the two channels and GPIO46. `capture` and `play` are the
places of the two audio tasks, `flashPc` those of the UI and the lifecycle task, each of which
may be inside `StopFlashSession`. A section under `g_flash.mutex` is one step. The task
of a client handles one event at a time, and its destruction waits for the handler. The
server answers the turns it is given in any order of transcript, reasoning, text, audio
and end.

## 3. Runs

| Run | What it asks | Result |
|---|---|---|
| `owner_tasks` | gate: counters exact at every instant, no stale release, light-sleep lock balanced, idle closure excludes work, refinement of `LeaseGate`. Panel: picture, power and bias are what the driver believes, no window after a full-frame partial. Audio: nothing runs without session, lease and rail, clients get their service. Connectivity: quiet once ready, state, timer, lease and link agree. Device control: an id names one request, a sync carries the checkpoint of its own identity, the cursor stays behind the cache, with three exceptions (section 5). Dialogue: one response at a time, no silent turn on an open session, rows in order, no channel goes from under its user | holds |
| `study_pages` | words: nothing saved is lost, cache equals file, cursor survives a reboot, sequences neither repeat nor skip. Cloud and notes: one request per domain and no foreign answer, the session on file is the one shown, no sequence used twice unless a start reads what a failed append has left. Problems: a recorded verdict is uploaded in order and the page knows | holds |
| `word_study_live` | refinement of `ObservationLog`; every observation is resolved | holds |
| `word_study_torn` | an incomplete tail is discarded (an append that *fails* leaves one in the middle) | violated |
| `storage_service` | no dangling context, no leak or double free, one overtaking, at-most-once, bounded queue wait, every call returns | holds |
| `persist_worker` | one write per kind, no sleep over a write, no lost or misdirected result, at-most-once, every write settled | holds |
| `power_coordinator` | no published input lost to idle sleep, idle sleep only with every part prepared by this attempt, an abort leaves the device running but for a service whose rollback was never sent, a cancelled sleep is not counted | holds |
| `power_coordinator_live` | a battery that stays low stops the device; a quiesced service works again, or the chip sleeps, or its rollback was never sent | holds |
| `display_pipeline` | one terminal result per accepted revision, no frame on its way over a sleep, a failure owes a full refresh, the panel ends up with the page unless its last change was a step of a transfer's progress; a preparation that is ready answers its own request, one taken back is not carried out | holds |
| `panel_skip` | a frame whose checksum is in RTC memory is on the panel | violated |
| `problem_rewrite` | the journal of verdicts is rewritten atomically | violated |
| `sync_service` | no round works into a sleep, the task never parks over a record it forgot, every head leaves its journal | holds |

The three violated ones are disagreements of the code with a sentence of the
repository; `PROJECT.json` "findings" quotes it.

### Bounds and why they are enough

* Gate: three tasks and two records, so a task meets a full registry and a reused
  record; two blockers; `Modulus = 3` makes ids wrap and collide within a run.
* Panel: two frames, a partial limit of 3 and a heavy limit of 2, two failed transfers
  and two boots, so each escalation and a picture left by a crash occur.
* Audio: two clients and a worker, one slot, four calls, one sleep generation, one
  failure: a full registry, a late reply under a newer request, a drain that times out.
* Connectivity: queue and replies of two, two retries, one driver event beside the link,
  two calls, two sleeps, one failure: a full queue, exhausted retries, a rollback that
  is lost.
* Problems: capacity 2, two sets of two problems; three verdicts and one fault, or two
  verdicts and two faults (`VerdictBounds`, per part): a full journal, a torn append that
  the next one is glued to, a failure of the rewrite after one of the append.
* Dialogue: two gestures and one failure; two gestures and a block of reply audio; one
  gesture, a block and two failures (`DialogueBounds`, per part), so a turn meets the
  answer to the last one, a stop meets a task that does not go, and two stops meet. All
  three together (two gestures, a block, a failure) were run alone: 3.1 million states.
  What a stray connection does shows at larger bounds only; the invariant of section 4
  was also checked alone with two failures and with five gestures.
  A lost connection stays lost: the client opens another after 2 s, the stop that the
  loss asks for begins after 20 ms.
* Device control: two claims with one page of problems each, without a problem page, and
  one claim with two pages and the problem page (`ControlBounds`, per part); one fault
  and one power loss each. A cut between the renames is met by a save that fails, and a
  review by a merge, in the second.
* Words: two observations and two sessions, capacity 2 (the journal gets full) and a
  compaction every two ACKs; one power loss and one clean I/O error at any file
  operation. `word_study_live` has one session and one fault, a power loss or a
  failed file operation.
* Notes: two domains, lanes of two, two sessions and one reboot, a list of two pages;
  either two opened notes and two requests, or one and three (`NoteBounds`, per part). One append
  that fails with its record or a part of it in the file (`MaxAppendFaults`), before an
  open, an acknowledgement, a compaction or the reboot.
* `storage_service`: two foreground callers and one background caller for three
  calls through queues of depth 1: one running, one queued, one waiting for room.
* `persist_worker`: two kinds, two slots, three writes and one reset (of a page
  or of the chip), so a slot and a mailbox are reused under a stale result. A full
  pool only disables `Reserve`.
* `power_coordinator`: one key (on a wake pin), a ring of one event and two
  activities a boot, so a full ring and an input in every window of a transaction
  occur; two sleep generations, so a command or reply of the first meets the second
  and a wake-up follows a sleep. `power_coordinator_live` has one generation and the
  emergency after it. One rollback of a boot is never sent, and none once the battery is
  low (`LossBounds`); the theorems have no such bound.
* `display_pipeline`: two frames, four revisions over two slots and a ledger of three
  (the code's is larger, the rule that it has room is what is checked), one failed
  transfer, one sleep; three preparations and six activities of the EPD task.
* `sync_service`: two journals, of which one is numbered, batches of one, two records,
  and one interaction, request, sleep, fault or boot. A batch of one record makes each
  record end a batch; a second event was tried for the safety part only.

`CHECK_DEADLOCK FALSE` is set where a bound on calls, requests or faults ends the
behaviour.

### Fairness

* Storage: a FreeRTOS task that is ready runs, and the tick interrupt ends every
  bounded wait (weak fairness of each caller and of the service). Weak fairness of
  `Transact` is *not* assumed; `EveryCallReturns` states it as its hypothesis.
* Word store: the storage task finishes what it was given; each caller takes its
  answer. The upload loop is strongly fair because the sync task wakes on its timer
  for ever while other transactions come and go; that the server gives an answer
  infinitely often is an assumption about the network.
* Persist worker: the worker and the UI loop run; the UI visits every mailbox in
  each round (strong fairness of taking a generation).
* Power: only the power task is assumed to run, since every wait of it has a timeout.
  That a battery stays low is the hypothesis of `EmergencyShutsDown`; that the two
  services run is the hypothesis of `ServicesResume`.
* Display: the UI loop and the EPD task run, and a sleep transaction ends in a reset or
  an abort. Draining and submitting are strongly fair because the UI loop comes back to
  both in each round.
* Sync: the sync task runs, its timers fire, a sleep transaction ends. Strong fairness
  of `ClaimApproved`, `ControlDone` and `Applied` is an assumption about the outside: an
  owner who is asked again and again approves, a server asked again and again answers.

## 4. Proofs

TLC checks the instances of section 3; the theorems below hold for every value of the
constants that the named assumptions allow (finite sets where the code has finite
tables, numbers for depths and bounds). The bounds on requests, failures, sleeps and
boots are constants too, so a theorem says the same of any number of them. TLC
evaluates every assumption in the runs. Each inductive invariant was checked as an
invariant of the component's run before it was proved.

| Module | Theorems | Property |
|---|---|---|
| `SleepCoordinatorProofs` | `RegistryAlwaysSound`, `IdleQuiesceSafe`, `PmLockAlwaysBalanced`, `CoordinatorImplementsGate` | `RegistrySound` (with its parts), `IdleQuiesceExcludesWork`, `PmLockBalanced`, refinement of `LeaseGate` |
| | `ChannelAlwaysSound`, `ReadyIsServed`, `PanelIsKnown`, `WindowIsEscalated` | `ChannelSound`, `ReadyMeansServed`, `PanelKnown`, `NoWindowAfterFullFrame` |
| `StorageServiceProofs` | `SharedMemoryIsSound`, `OvertakenOnce`, `ServiceImplementsCall` | `SharedMemorySound`, `ForegroundOvertakenOnce`, refinement of `StorageCall` |
| | `RunnerKeepsItsBooks`, `RequestsAreAccounted`, `SessionsAreSound`, `VerdictsAreAccounted` | `OneRequestPerDomain`, `RequestsAccounted`, `NoteSessionSound`, `VerdictsAccounted` |
| `PersistWorkerProofs` | `PoolIsSound`, `OwnOutcomeShown`, `WorkerImplementsOperation` | `PoolSound`, `PageShownItsOwnOutcome`, refinement of `StorageCall` per operation |
| `PowerCoordinatorProofs` | `InputsSurviveIdleSleep`, `SleepIsPrepared`, `TransactionIsSound`, `GateIsLeaseGate` | `NoInputLostToIdleSleep`, `IdleSleepFullyPrepared`, `TransactionSound`, steps of the gate are those of `LeaseGate` |
| `DisplayPipelineProofs` | `LedgerIsSound`, `SleepIsQuiet`, `FailureIsOwed` | `LedgerSound`, `SleepFindsNoFrame`, `FailureOwesFullRefresh` |
| `SyncProofs` | `RoundsAreSound`, `ControlIsSound`, `DialogueIsSound` | `RoundsSound`, `ControlSound`, `FlashSound` |
| `OwnerTaskProofs` | `ResourcesAreSound`, `ClientsAreServed`, `ConnectivityIsSound` | `ResourcesSound`, `ClientsServed`, `ConnectivitySound` |
| `WordStudyProofs` | `WordStoreInvariant` | `WordInv`, the inductive invariant |
| | `StoreIsSound`, `NothingIsLost`, `SequencesAreSound`, `StoreImplementsLog` | `StoreSound`, `NoObservationLost`, `SequencesSound`, refinement of `ObservationLog` |

None of the properties is inductive. What has to be added, and why:

* *Sleep coordinator.* Exact counters give the test `totalBlockers = 0` its meaning;
  the ownership of records keeps a release from being dropped as stale, which would
  leak counters; the owner of the gate keeps it closed while an idle sleep runs, which
  with the second check inside the critical section excludes new leases;
  `GenerationNotZero` makes a rollback effective. The light-sleep lock is taken and
  given back outside the critical section: `PmInv` equates what is held and owed, and
  says at most one task is on its way to take it.
* *Storage service.* That a completion block is never used after it was freed rests
  on who owns a request (`Owners`) and on what each state of a block says of its owners
  (`Blocks`). The refinement adds what was run and returned (`History`), the bound on
  the wait what a background request has overtaken (`Overtaking`).
* *Persist worker.* The invariant follows a command from hand to hand: each state of
  a slot names who holds it and what mailbox, busy flag, lease and page know of its
  operation (`Commands`, `Boxes`, `LeasesHeld`, `Pages`); UI task and worker name the
  slot they are about. A page that is shown an outcome is then shown its own.
* *Power coordinator.* Inputs: the idle check saw none under way, and each later one
  moves the activity away from the sampled baseline before it reaches the ring. Services:
  a reply of this generation is the last thing its service did. Rollback: whatever
  was or will be prepared has its rollback behind it, in a queue or in the rest of
  the transaction, unless that one was never sent (`Undone`, `Lost`): a late prepare
  must find the rollback of its own generation still to come. `Running` and `Asleep`
  say this per place of the power task.
* *Display pipeline.* An accepted revision moves from place to place; the places
  never share one, and the ledger is all of them (`Places`), so its count leaves
  room for every result. The records of the UI follow one step behind (`Recorded`), the
  lease covers all of it (`Covered`), a failure is owed wherever its repair waits.
* *EPD task.* Channel: the order of the four generations makes a result belong to one
  request (`Handed`), a request taken back is nobody's claim (`TakenBack`), the gate
  keeps frames out while one is waited for (`Noticed`). Driver: a partial waveform is
  under way only over a picture it knows (`Sound`), RTC memory is vouched for once
  this boot has drawn or trusts an earlier one (`Remembered`), counters and history of
  waveforms agree (`Tallied`).
* *Sync task.* `RoundsSound` speaks of a task that waits; its invariant follows the
  round that made it wait, lane by lane (`Batches`, `Settled`). An id names one request
  because nothing that goes into a request changes while its id is kept: without a
  token everything is forgotten (`Unclaimed`), with one everything in memory belongs
  to it or to the last there was (`Claimed`), although the 401 of another task may
  erase the keys at any moment. The cursor is behind the cache because every
  checkpoint is (`Cached`), and the cache never loses a page unnoticed (`CacheInv`): a
  backup has nothing that is not in the primary or at risk, and a list that is saved
  has every known page but what its task could not read or has read too early.
* *Audio.* A reply with the id of a call was made for it because ids grow from the
  replies over the command at hand to the end of the queue (`Line`), and what it says is
  still true because only the call that waits, or one that was given up, ends a session
  (`Answered`, `Ended`). The rollback that undoes a preparation is owed or queued
  behind it (`Restored`). A slot is freed when its users are none and closed by one
  operation only (`Locked`), and the counts are those of the sets they stand for
  (`Counted`).
* *Connectivity.* A prepare that was promised has no rollback before or behind it, by
  the order of the ids (`Ordered`), and everything else that is queued finds the
  service deaf (`Quiet`). A session of the portal meets no station and no sleep that was
  not forced, so no rollback resumes one (`Portal`, `Spared`). Between what wifi_manager
  noted and what the owner heard stand two queues: the last news in each is true of
  the link, and a start of the station is never the last of a joined one (`Air`,
  `Posted`), hence `g_online` is the link once both are empty of news.
* *Cloud runner.* A place is a lane with a position in it, so that the jobs of a domain
  can be counted without counting the queues. A domain has one job and the causes of
  its busy flag exclude each other (`OneJob`, `CausesApart`); a job that waits will take
  a generation above every one that was published (`JobsHaveSlots`).
* *Note session.* The page waits for its own (`PageWaits`, `NoteRequests`): every job of
  the domain is the page's, so the one that runs answers it. `ReconcileSession` is
  stated in closed form (`Moved`: the last record that moves the cursor decides), which
  makes what a longer or shorter journal does to a cursor a lemma (`CursorMoves`,
  `CursorStays`). A reboot restores the page because an open is written under the
  number its cursor shows and no record of its session is past it; once it is durable,
  `Page` is what the result will make of the page (`PageStored`, `OpenWritten`). An open has a fresh id, so the idempotent branch of the
  commit is taken by none. A new session is in no file, page or record (`StartIsNew`);
  without it a start would reset the numbering of a session that has opens. A cursor, in
  the file moved by the journal as well as in the page, is one more than the number of
  durable opens of its session (`CursorsCount`); a `Clear` that is cut brings back a
  session whose number nobody keeps, and a start may read what failed appends have left
  in the file, which `astray` says. Whatever that is, it is records of opens that were
  made (`FiledKnown`).
* *Words.* A transaction is a plan of file operations, any of which may fail or be the
  last before a power loss, so `WordInv` speaks of what is left of the plan. `PlanShape`:
  its steps come in one order (`Rank`: quarantine, ACK, session, journal, observation) and
  those of a replacement one behind the other (`Follows`), so a file is where its step
  needs it. `JournalInv`: the journal a reboot reads holds each observation once and an
  ACK behind its observation, a partial record at most at its end; the cache says what it
  says; what a compaction installs is what waits. `SessionInv`: the snapshot a reboot
  reads is moved past all that the journal holds, or the plan will move it there before
  a record goes, and the page has the session of the files. `UploadInv`: the loop holds
  the head, since nothing but it removes one; no number below one that waits, or below a
  cursor, is missing at the server and in the journal; a record that goes has its verdict.
  A power loss needs no case per place of a plan: what the files alone say (`OnDisk`)
  is the invariant once plan, cache and page are gone. The replacement of an
  absent file is the creation of a new one, which makes the two branches of the code one
  proof (`RotationIsCreation`). For the refinement a step leaves the list that waits as it
  is, takes its judged head or appends what is new (`WaitingMoves`). The records at some
  places of a file are given in closed form (`Places`), hence no induction over files.
* *Verdicts on problems.* The verdict on its way to the worker is known to nobody, so it
  is greater than every id in the journal and at the server (`Known`), and an append
  keeps the records in order, also one that is glued to a torn line. The upload loop is
  busy with the first record although the worker may append at any moment (`IsFirst`),
  so nothing behind it can be applied before it, and a removal takes a record that was
  answered. That a rewrite retains every other record in its order is a lemma about
  counting the members of a set (`NthNumber`). The result finds the page on the problem
  because a write under way keeps the commit "persisting" (`WriteSound`). To reason about
  it the model had to say that an append is preceded by the test for a mentioned id in
  every branch: it had allowed a torn append of a request that is already recorded.
* *Spoken dialogue.* A client exists only while the session or a stop that detached it
  names it, and only the UI task makes one, when the session has none (`ClientsSound`);
  recording goes on under the key alone (`KeySound`). So the sequence of a turn on an
  open session cannot restart before its first block (`TurnsSound`), unless a stray
  connection completes. Rows stay in order because a turn that may still get one
  has words of its user with none behind them (`HistorySound`). Without a failure only
  the UI task stops, and a response under way is known to the session (`Faultless`).
  The attempt at this proof found two errors of the model: a refused open had ended an
  audio session that still had channels, and the stray connection was unknown.

Refinements are proved step by step: initial states map to initial states and every
step to a step or a stutter. `WorkerImplementsOperation` is about each operation
apart, as the run checks it.

What TLC alone checks:

* liveness (every property under "Fairness" in section 3, `EveryObservationResolved` among
  them), since fairness and ENABLED are out of the prover's reach;
* appends that fail with part of a record written (`word_study_torn`): with them the
  journal of words is not sound, as the run shows, so its theorems are about `Spec`, where
  a partial record comes from a power loss only.

The proofs are about the models, with what section 6 leaves out of them: a queue of
`PowerCoordinator` may refuse a command at any moment but has no depth;
`AudioService` and `Connectivity` have the bounded replies and the mutex, and a power
task reduced to what reaches them.

Some properties admit by name something the code does (section 5): `TransactionSound`,
`ServicesResume`, `ClientsServed` and `ConnectivitySound` a rollback that was never sent, `NoteSessionSound` a
file that differs from what the program believes (`Marred`, `astray`), `ControlSound`
pages that were lost from the cache (`cacheLost`), `PipelineConverges` the progress of a
transfer (`unasked`). Each theorem and run says that there is no other way.

## 5. What the models showed that no run states

These were reached while modelling, by the run of the module or by an extra invariant
or action property that is not kept. Each is how the code behaves today.

*Display.* An idle maintenance that is skipped because its generation moved need not be
re-armed on the next poll, as `ui_refresh.cpp:873-874` says. Maintenance claimed in a later round
may touch a panel that was already prepared for sleep, where 984-987 says the two never
run back-to-back. A result may read "presented", and be recorded in RTC state, for a frame
the panel does not show, against `device_ui.cpp:382-383`. The repaint for the progress of
a transfer is put into `refresh_schedule` after the dispatch of the round
(`device_ui.cpp:1130-1131`), and the next round starts that variable anew from
`pending_refresh_schedule` (517-518), which its neighbours use (1108, 1114, 1134): a step
of the progress is shown only with the next event, against the comment at 1117-1119.

*Power and storage.* A key that is on no wake pin and is pressed after the last look
does not wake the chip (against `power_manager.cpp:646-649`). A started transaction that hangs
holds its caller for ever (`storage_service.cpp:257`). The deadline of the word
preparation returns ESP_OK, where `WORD_OFFLINE_OUTBOX.md:9` says it refuses the sleep.
A quarantine rotation that is cut after its backup was replaced loses an observation,
which `word_study_store.cpp:1344` says cannot happen.

A rollback that waits in vain for the mutex of the service or for room in its queue
(`connectivity_service.cpp:618`, `:635`, `audio_service.cpp:770`) is never sent, and its
result is ignored: connectivity stays quiesced until the rollback of the next attempt,
audio for good, since it answers to the generation it prepared only, and every later idle
sleep is then refused. `ARCHITECTURE.md:75` has any denial or timeout roll back all
prepared services. `TransactionSound` and `ServicesResume` say that nothing else leaves
a service behind.

*Audio.* A token may stop being valid before `EndActivity` when the owner recovers the
codec, against `audio_service.h:30-31`.

*Connectivity.* A rollback that is not answered leaves `kQuiescing` for good, against
`ARCHITECTURE.md:75`. A rollback without a prepare, or a start that meets an ending
session, leaves the timer armed in a state that ignores it. A radio that does not
restart keeps the lease through the back-off. Provisioning that ends without
credentials keeps state and lease until the next start.

*Notes.* A cancelled start is still saved, so a reboot resumes it. `Clear` removes the
primary first: a power loss then brings back an older backup with its sequence. An
append that reports a failure after its record is in the file (`note_store.cpp:606-615`)
is told to the page as failed (`note_app.cpp:1394-1397`), and the next open takes a new
id with the same number. The transactions go on with what is in memory; a start reads the
file, finds two opens under one number, and uploads both, where `note_store.cpp:743-745`
calls the number "the server-facing invariant". If only a part of the record is in the
file, the next record follows it and no later scan accepts the file: a start falls
back on the backup of the last compaction, or has no journal at all, and then every
commit fails.

*Problems.* A torn append glues the next record to a line: reported durable, lost at the
next parse. A failed commit whose record is durable leads to two verdicts. An answer
that cannot be parsed (a 401, a gateway page) quarantines the verdict, up to a batch of
32 with one stale token.

*Sync.* An outbox request whose round is denied its lease has used up its flag, and one
second later becomes a full round; so do one with a notification left over and one that
failed, although `TROUBLESHOOTING.md:181-182` says that opening a note never launches
one. A batch that yields while another head has a back-off due wakes after a tick. A
stale `kPending` after a lost token polls the claim without its ten-second floor. With
auto-sync off a reboot parks until the link comes up. A head that keeps failing makes
every wake an outbox round, each of which restarts the interval: the automatic full
sync starves.

*Device control.* A request of another task that was sent with an old token and is
refused late clears the new one. After a 401 of another task during a sync the
checkpoint is written once more for an identity that is gone, and after a power loss
before the next bootstrap, that bootstrap carries it. A power loss between the two
keys makes a bootstrap carry two halves. A sync never does: a bootstrap comes first in
every boot and for every token.

*Problem cache.* In three ways cached pages are lost while the cursor stays, so that the
server does not send them again. A cache that cannot be read is replaced by the page at
hand, or cleared at the start (`storage.cpp:510-522`). A save that is cut between its
renames (`problem_cache.cpp:1111`, `1115`) leaves the backup alone, which `Load` reads
and does not restore; the next save removes it before it writes anything (985), and if
that one fails or is cut as well nothing is left. The problem page saves the list it
read at the start or at its last reload with the reviewed problem in it
(`ui/ui_state.cpp:227-228`), over the pages the sync task has merged since.

*Spoken dialogue.* `capture_base_seq` is set for a turn on an open session only, so the
turn that starts with the connection may be submitted with no audio, which the comment
at `flash_session.cpp:2456-2461` sets out to prevent. That turn does not reset the
assembly either: in a second session it gets no row of its user and its answer replaces
an old row. An error event clears `response_in_flight` while the server may go on, so a
second end of turn can be sent over a response (against 147-153). After response.done
the key does not drain what is still queued: it may sound during the capture, where 519
says the amplifier is off, and a block that is aborted stays counted in
`playback_queued_bytes`, so the idle tail closes the amplifier only after a full drain.
A block "put back" while there is no channel is dropped (685-690). An interruption with a
late transcript gives the next turn the words of the last. The handler of a connection
does not ask whose it is (1698-1709): that of a client which a stop has detached, and
which completes before `esp_websocket_client_stop` takes effect, marks the session
connected and restarts `uplink_seq`, so an empty turn on an open session or a second
response over the first becomes possible. The first of two stops to end
clears `g_intentional_stop` for the other, and a stop by the lifecycle task may hit a
session that was started after its reason.

## 6. Not modelled, and why

Byte formats, CRCs, JSON, cryptography, fonts and drawing (pure data), register
and codec I/O, the vendored websocket client.

* Sleep: the CPU-frequency lease. Power: the charger, the idle token, the back-off and
  the deadlines are choices; repeat events (which may be dropped by policy), a crash
  reset and the panel cache are left out; the idle threshold of 60 s or more is assumed
  not to pass while an input is on its way. Why a command is not sent (a mutex that
  another client holds, a full queue) is a choice there.
* Storage: the failed allocation of a completion block. Words: the content of the
  paused-flag file, the study slots of the other two modes, the deck-scope change.
* Display: the emergency preparation, which may meet frames under way; drawing.
* Connectivity: the captive portal, event handlers registered twice after a first
  start that failed, signal strength, SNTP; `PublishStopped` is one step.
  `kBeginProvisioning` and `kStartWithCredentials` have no caller.
* Notes: image and body requests beyond their place in the lane, an acknowledgement
  that is in the file although its append failed (it is as if the upload had made it
  after the next start), a power loss inside a compaction (as in the words), a server that
  answers a start with an existing session. Problems: the image viewer.
* Sync: the legacy pairing and review upload, the back-off of the claim, the pages of
  the index beyond one. Problem cache: capacity, the blocks and the index of a file.
* Dialogue: a full playback buffer, the reconnect of the client, the switch to another
  tier (it stops the session as leaving the page does), tool and state events (texts
  of the page only). The look at `stream_task` under the mutex and the removal of the
  channel outside it (`flash_session.cpp:1073-1081`) are one step.
* Content packs, the recorded question of `ai_session.cpp`, the time app, button classification and the
  study reducers: next in the plan.

## 7. Plan

1. Pack commits (download, manifest, index) on the pattern of `WordStore`; the
   deck-scope marker and the storage schema gate.
2. `ButtonInput` and the study reducers as pure operators against a reference.
3. The recorded question of `ai_session.cpp` with its event stream; the time app.
4. Proofs of those modules, on the pattern of `WordStudyProofs` (a plan and its order).
