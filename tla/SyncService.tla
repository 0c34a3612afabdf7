------------------------------ MODULE SyncService ------------------------------
(***************************************************************************)
(* The task of the sync service (main/services/sync_service.cpp): who asks *)
(* it for a round, what a round does, and how long it waits for the next.  *)
(*                                                                         *)
(* A full round claims a token if there is none, bootstraps, uploads the   *)
(* journals and fetches content; a round that was asked for by the timer   *)
(* of the journals only uploads.  What the calls of a stage say to the     *)
(* server is left out: a stage succeeds, fails, or loses the token.  The   *)
(* journals are counts (WordStore, NoteSession and ProblemOutbox have      *)
(* their records), and a time is a reason for the wait to end.             *)
(***************************************************************************)
EXTENDS Integers, Sequences

CONSTANTS
    Lanes,              \* the journals, in the order of their upload
    Sequenced,          \* those whose records have a number in a session
    BatchSize,          \* kMaxWordObservationsPerRound and its like
    MaxRecords,         \* bound on the records made
    MaxEvents           \* bound on interactions, requests, sleeps, faults and boots

Domains == {Lanes[i] : i \in DOMAIN Lanes}

ASSUME ServiceAssumption ==
    /\ Lanes \in Seq(Domains) /\ Lanes # <<>>
    /\ Sequenced \subseteq Domains
    /\ BatchSize \in Nat \ {0}
    /\ {MaxRecords, MaxEvents} \subseteq Nat

VARIABLES
    full,           \* g_full_sync_requested
    only,           \* g_word_outbox_sync_requested
    notified,       \* the notification of the task
    timer,          \* whether g_word_outbox_timer runs
    pc,             \* "wait", "begin", or the stage of a round
    scope,          \* "full" or "outbox" during a round
    wait,           \* what may end the wait, besides a notification
    synced,         \* last_round_success
    autoSync,       \* whether an interval is configured
    token,          \* whether an access token is stored
    outbox,         \* number of records in each journal
    retry,          \* per journal, the backoff of its head: "none", "deferred", "due"
    last,           \* g_last_*_outbox_upload_state
    lane, processed, interacted,    \* the batch: its journal, its progress, whether
                                    \* g_word_interaction_generation has moved
    unreported,     \* a record is durable and the page has not heard of it yet
    quiescing,      \* the sleep gate
    records, events \* the bounds so far

flags == <<full, only, notified, timer>>
batch == <<lane, processed, interacted>>
device == <<unreported, quiescing, autoSync>>
vars == <<flags, pc, scope, wait, synced, token, outbox, retry, last, batch, device,
          records, events>>

Stages == {"identify", "control", "upload", "content"}
Event == events < MaxEvents /\ events' = events + 1
NoBatch == lane' = 1 /\ processed' = 0 /\ interacted' = FALSE

--------------------------------------------------------------------------------
(* The wait after a round *)

\* WordOutboxRetryWaitDelay and its like: a backoff that has run out is one tick.
Backoffs ==
    {IF retry'[d] = "due" THEN "short" ELSE d : d \in {e \in Domains : retry'[e] # "none"}}

\* NextSyncWaitDelay.
NextSyncWait(ok, asked) ==
    (IF asked THEN {"control"}
     ELSE IF ~token' THEN {"claim"}
     ELSE IF ~autoSync' THEN {}
     ELSE IF ok THEN {"interval"} ELSE {"retry"})
    \cup (IF token' THEN Backoffs ELSE {})

Ended(state) == \E d \in Domains : last'[d] = state

\* Mutant of ResumeAfterYield: nobody starts the timer again.
ResumeForgotten(delay) == wait' = delay /\ UNCHANGED <<timer, only>>

\* A batch that made way for the user goes on after another quiet period; when the
\* queue of the timer task is full, soon.
ResumeAfterYield(delay) ==
    \/ timer' = TRUE /\ wait' = delay /\ UNCHANGED only
    \/ only' = TRUE /\ wait' = delay \cup {"short"} /\ UNCHANGED timer

\* The end of SyncServiceTask's loop; asked is whether g_control_retry_after_ms is set.
EndRound(ok, asked) ==
    /\ pc' = "wait" /\ scope' = "none" /\ synced' = ok /\ NoBatch
    /\ LET delay == NextSyncWait(ok, asked) IN
        IF Ended("yielded") THEN ResumeAfterYield(delay)
        ELSE IF Ended("pending")
        THEN /\ only' = TRUE
             /\ wait' = delay \cup (IF Backoffs = {} THEN {"short"} ELSE Backoffs)
             /\ UNCHANGED timer
        ELSE wait' = delay /\ UNCHANGED <<timer, only>>

--------------------------------------------------------------------------------
(* The start of a round *)

\* ulTaskNotifyTake returns with a notification ...
Wake ==
    /\ pc = "wait" /\ notified
    /\ pc' = "begin" /\ wait' = {} /\ notified' = FALSE
    /\ UNCHANGED <<full, only, timer, scope, synced, token, outbox, retry, last, batch,
                   device, records, events>>

\* ... or when the shortest of the delays is over.
Timeout ==
    /\ pc = "wait" /\ ~notified
    /\ \E r \in wait :
        /\ "short" \in wait => r = "short"
        /\ retry' = [d \in Domains |-> IF d = r /\ retry[d] # "none" THEN "due" ELSE retry[d]]
    /\ pc' = "begin" /\ wait' = {}
    /\ UNCHANGED <<flags, scope, synced, token, outbox, last, batch, device, records, events>>

\* Both flags are taken; a round that gets no sleep lease ends before it begins.
Denied ==
    /\ pc = "begin" /\ quiescing
    /\ full' = FALSE /\ only' = FALSE
    /\ pc' = "wait" /\ wait' = {"denied"}
    /\ UNCHANGED <<notified, timer, scope, synced, token, outbox, retry, last, batch, device,
                   records, events>>

\* Mutant of Leased: the gate is not asked.
LeasedAlways == pc = "begin"

Leased == pc = "begin" /\ ~quiescing

BeginFull ==
    /\ Leased /\ (full \/ ~only)
    /\ full' = FALSE /\ only' = FALSE
    /\ pc' = "control" /\ scope' = "full"
    /\ UNCHANGED <<notified, timer, wait, synced, token, outbox, retry, last, batch, device,
                   records, events>>

BeginOutboxOnly ==
    /\ Leased /\ only /\ ~full
    /\ only' = FALSE
    /\ pc' = "identify" /\ scope' = "outbox"
    /\ UNCHANGED <<full, notified, timer, wait, synced, token, outbox, retry, last, batch,
                   device, records, events>>

\* RunWordOutboxOnlyRound: without a token it asks for a full round.
Identify ==
    /\ pc = "identify"
    /\ UNCHANGED <<notified, token, outbox, retry, device, records, events>>
    /\ \/ /\ token
          /\ pc' = "upload" /\ NoBatch
          /\ UNCHANGED <<full, only, timer, scope, wait, synced, last>>
       \/ /\ ~token
          /\ full' = TRUE
          /\ last' = [last EXCEPT ![Lanes[1]] = "pending"]
          /\ EndRound(FALSE, FALSE)

--------------------------------------------------------------------------------
(* The stages of a full round that are not the upload *)

\* ClearAccessToken and SaveAccessToken end in RequestSyncNow.
TokenChanged(stored) ==
    /\ token' = stored
    /\ full' = TRUE /\ notified' = TRUE

\* RunDeviceClaimRoundV3: the owner has approved the claim.
ClaimApproved ==
    /\ pc = "control" /\ ~token
    /\ TokenChanged(TRUE)
    /\ UNCHANGED <<only, timer, pc, scope, wait, synced, outbox, retry, last, batch, device,
                   records, events>>

\* BootstrapControlV3 and UploadPendingReviewsIfAny.
ControlDone ==
    /\ pc = "control" /\ token
    /\ pc' = "upload" /\ NoBatch
    /\ UNCHANGED <<flags, scope, wait, synced, token, outbox, retry, last, device,
                   records, events>>

\* SyncDueProblemsAndCacheV3, which may bring another interval, and
\* RefreshProblemIndexIfAvailable.
ContentDone ==
    /\ pc = "content" /\ token
    /\ autoSync' \in BOOLEAN
    /\ UNCHANGED <<full, notified, token, outbox, retry, last, unreported, quiescing,
                   records, events>>
    /\ EndRound(TRUE, FALSE)

\* A stage fails, with a time to wait or without.
StageFails ==
    /\ pc \in {"control", "content"}
    /\ UNCHANGED <<full, notified, token, outbox, retry, last, device, records, events>>
    /\ \E asked \in BOOLEAN : EndRound(FALSE, asked /\ (pc = "control" \/ token))

\* ClearTokenOnUnauthorized in one of these stages.
StageUnauthorized ==
    /\ pc \in {"control", "content"} /\ token
    /\ Event
    /\ TokenChanged(FALSE)
    /\ UNCHANGED <<outbox, retry, last, device, records>>
    /\ EndRound(FALSE, FALSE)

--------------------------------------------------------------------------------
(* The upload: a batch of each journal *)

Domain == Lanes[lane]

\* The batch of a journal ends in a state; the next one begins, or the stage is over.
EndBatch(state) ==
    /\ last' = [last EXCEPT ![Domain] = state]
    /\ IF lane < Len(Lanes)
       THEN /\ lane' = lane + 1 /\ processed' = 0 /\ interacted' = FALSE
            /\ UNCHANGED <<only, timer, pc, scope, wait, synced>>
       ELSE IF scope = "outbox"
       THEN EndRound(~Ended("failed"), FALSE)
       ELSE pc' = "content" /\ NoBatch /\ UNCHANGED <<only, timer, scope, wait, synced>>

\* The head is dealt with, and the batch goes on.
HeadDone ==
    /\ outbox' = [outbox EXCEPT ![Domain] = @ - 1]
    /\ retry' = [retry EXCEPT ![Domain] = "none"]
    /\ processed' = processed + 1
    /\ UNCHANGED <<only, timer, pc, scope, wait, synced, last, lane, interacted>>

\* ScheduleWordOutboxRetry and its like.
HeadDeferred ==
    /\ retry' = [retry EXCEPT ![Domain] = "deferred"] /\ UNCHANGED outbox
    /\ EndBatch("pending")

Uploading == pc = "upload" /\ processed < BatchSize

\* The user has done something since the batch began.
Yield ==
    /\ Uploading /\ interacted
    /\ UNCHANGED <<full, notified, token, outbox, retry, device, records, events>>
    /\ EndBatch("yielded")

\* A last look says whether records remain, unless it fails.
BatchOver ==
    /\ pc = "upload" /\ processed = BatchSize
    /\ UNCHANGED <<full, notified, token, outbox, retry, device, records>>
    /\ \/ UNCHANGED events /\ EndBatch(IF outbox[Domain] = 0 THEN "drained" ELSE "pending")
       \/ Event /\ EndBatch("failed")

\* The journal is empty, cannot be read, or its head has to wait.
PeekEndsBatch ==
    /\ Uploading /\ ~interacted
    /\ UNCHANGED <<full, notified, token, outbox, device, records>>
    /\ \/ /\ outbox[Domain] = 0
          /\ retry' = [retry EXCEPT ![Domain] = "none"]
          /\ UNCHANGED events /\ EndBatch("drained")
       \/ Event /\ UNCHANGED retry /\ EndBatch("failed")
       \/ /\ outbox[Domain] > 0 /\ retry[Domain] = "deferred"
          /\ UNCHANGED <<retry, events>> /\ EndBatch("pending")

\* Mutant of HeadReady: a head that was deferred once stays deferred.
HeadReadyOnce == outbox[Domain] > 0 /\ retry[Domain] = "none"

HeadReady == outbox[Domain] > 0 /\ retry[Domain] # "deferred"

Sending == Uploading /\ ~interacted /\ HeadReady

\* The server has applied the head.
Applied ==
    /\ Sending /\ token
    /\ HeadDone
    /\ UNCHANGED <<full, notified, token, device, records, events>>

\* It has, and the record cannot be taken out of the journal.
AcknowledgeFails ==
    /\ Sending /\ token
    /\ Event
    /\ UNCHANGED <<full, notified, token, device, records>>
    /\ HeadDeferred

\* No answer, or one that says to come back.
Unavailable ==
    /\ Sending /\ token
    /\ UNCHANGED <<full, notified, token, device, records, events>>
    /\ HeadDeferred

\* The server refuses the head for good: the number of a sequenced record is skipped
\* first, then the record goes to the journal of the rejected ones.
Refused ==
    /\ Sending /\ token
    /\ UNCHANGED <<full, notified, token, device, records>>
    /\ \/ HeadDone /\ UNCHANGED events
       \/ /\ Event
          /\ retry' = [retry EXCEPT ![Domain] = "none"] /\ UNCHANGED outbox
          /\ EndBatch("failed")
       \/ Domain \in Sequenced /\ HeadDeferred /\ UNCHANGED events
       \/ Domain \in Sequenced /\ UNCHANGED <<outbox, retry, events>> /\ EndBatch("failed")

\* 401: the token is cleared, the batch goes on with its copy.  The skip of a sequenced
\* record is refused too; one that is not sequenced counts as refused for good.
Unauthorized ==
    /\ Sending
    /\ IF token THEN Event ELSE UNCHANGED events
    /\ TokenChanged(FALSE)
    /\ UNCHANGED <<device, records>>
    /\ IF Domain \in Sequenced
       THEN UNCHANGED <<outbox, retry>> /\ EndBatch("failed")
       ELSE HeadDone

--------------------------------------------------------------------------------
(* The others *)

\* A page makes a record durable ...
Commit(d) ==
    /\ ~unreported /\ records < MaxRecords
    /\ records' = records + 1
    /\ outbox' = [outbox EXCEPT ![d] = @ + 1]
    /\ unreported' = TRUE
    /\ UNCHANGED <<flags, pc, scope, wait, synced, token, retry, last, batch, quiescing,
                   autoSync, events>>

\* Mutant of RequestOutboxUpload: the flag is set, nobody is told.
RequestSilently == only' = TRUE /\ UNCHANGED <<timer, notified>>

\* RequestWordOutboxUpload, RequestNoteOutboxUpload, RequestProblemOutboxUpload: the
\* timer starts anew, or the task is told at once.
RequestOutboxUpload ==
    \/ timer' = TRUE /\ UNCHANGED <<only, notified>>
    \/ only' = TRUE /\ notified' = TRUE /\ UNCHANGED timer

\* ... and asks for its upload when it hears of it.
Report ==
    /\ unreported
    /\ unreported' = FALSE
    /\ RequestOutboxUpload
    /\ UNCHANGED <<full, pc, scope, wait, synced, token, outbox, retry, last, batch, quiescing,
                   autoSync, records, events>>

\* WordOutboxTimerCallback: the quiet period is over.
TimerFires ==
    /\ timer
    /\ timer' = FALSE /\ only' = TRUE /\ notified' = TRUE
    /\ UNCHANGED <<full, pc, scope, wait, synced, token, outbox, retry, last, batch, device,
                   records, events>>

\* The backoff of a head runs out.
BackoffEnds(d) ==
    /\ retry[d] = "deferred"
    /\ retry' = [retry EXCEPT ![d] = "due"]
    /\ UNCHANGED <<flags, pc, scope, wait, synced, token, outbox, last, batch, device,
                   records, events>>

\* NoteWordInteraction, while a batch is under way.
NoteInteraction ==
    /\ pc = "upload" /\ ~interacted /\ Event
    /\ interacted' = TRUE
    /\ UNCHANGED <<flags, pc, scope, wait, synced, token, outbox, retry, last, lane, processed,
                   device, records>>

\* RequestSyncNow: the link is up, the user asked, a setting or a review was saved.
RequestSyncNow ==
    /\ Event
    /\ full' = TRUE /\ notified' = TRUE
    /\ UNCHANGED <<only, timer, pc, scope, wait, synced, token, outbox, retry, last, batch,
                   device, records>>

\* The power task begins a sleep when no round holds a lease, and takes it back.
TryBeginSleepQuiesce ==
    /\ ~quiescing /\ pc \notin Stages /\ Event
    /\ quiescing' = TRUE
    /\ UNCHANGED <<flags, pc, scope, wait, synced, token, outbox, retry, last, batch,
                   unreported, autoSync, records>>

CancelSleepQuiesce ==
    /\ quiescing /\ quiescing' = FALSE
    /\ UNCHANGED <<flags, pc, scope, wait, synced, token, outbox, retry, last, batch,
                   unreported, autoSync, records, events>>

\* The first round waits for a notification when there is nothing to do on its own.
FirstPc == IF autoSync \/ ~token THEN "begin" ELSE "wait"

\* A reset, or the end of a deep sleep: the journals, the token and the settings are left.
Boot ==
    /\ Event
    /\ pc' = FirstPc
    /\ full' = FALSE /\ only' = FALSE /\ notified' = FALSE /\ timer' = FALSE
    /\ scope' = "none" /\ wait' = {} /\ synced' = FALSE /\ NoBatch
    /\ retry' = [d \in Domains |-> "none"] /\ last' = [d \in Domains |-> "drained"]
    /\ unreported' = FALSE /\ quiescing' = FALSE
    /\ UNCHANGED <<token, autoSync, outbox, records>>

--------------------------------------------------------------------------------

Init ==
    /\ token \in BOOLEAN /\ autoSync \in BOOLEAN
    /\ pc = FirstPc
    /\ full = FALSE /\ only = FALSE /\ notified = FALSE /\ timer = FALSE
    /\ scope = "none" /\ wait = {} /\ synced = FALSE
    /\ lane = 1 /\ processed = 0 /\ interacted = FALSE
    /\ retry = [d \in Domains |-> "none"] /\ last = [d \in Domains |-> "drained"]
    /\ unreported = FALSE /\ quiescing = FALSE
    /\ outbox = [d \in Domains |-> 0]
    /\ records = 0 /\ events = 0

Round ==
    \/ Wake \/ Timeout \/ Denied \/ BeginFull \/ BeginOutboxOnly \/ Identify
    \/ Yield \/ BatchOver \/ PeekEndsBatch

Server ==
    \/ ClaimApproved \/ ControlDone \/ ContentDone \/ StageFails \/ StageUnauthorized
    \/ Applied \/ AcknowledgeFails \/ Unavailable \/ Refused \/ Unauthorized

Next ==
    \/ Round \/ Server
    \/ \E d \in Domains : Commit(d) \/ BackoffEnds(d)
    \/ Report \/ TimerFires \/ NoteInteraction \/ RequestSyncNow
    \/ TryBeginSleepQuiesce \/ CancelSleepQuiesce \/ Boot

Spec == Init /\ [][Next]_vars

\* The tasks run, the timers fire, a sleep ends; an owner who is asked again and again
\* approves, and a server that is asked again and again answers.
Fairness ==
    /\ WF_vars(Round) /\ WF_vars(Server)
    /\ WF_vars(Report) /\ WF_vars(TimerFires) /\ WF_vars(CancelSleepQuiesce)
    /\ \A d \in Domains : WF_vars(BackoffEnds(d))
    /\ SF_vars(ClaimApproved) /\ SF_vars(ControlDone)
    /\ \A d \in Domains : SF_vars(Applied /\ Domain = d)

FairSpec == Spec /\ Fairness

--------------------------------------------------------------------------------
(* Properties *)

\* No round talks to the server while the device falls asleep.
RoundsKeepAwake == pc \in Stages => ~quiescing

\* The task waits for a notification only.
Parked == pc = "wait" /\ wait = {} /\ ~notified

\* After a round that succeeded, whatever the interleaving with the pages, the user and
\* the timer, the task is not left waiting for nothing with a record to upload: the
\* timer runs, or the journal is one the round has given up on.
NothingForgotten ==
    Parked /\ synced /\ ~unreported =>
        \A d \in Domains : outbox[d] = 0 \/ timer \/ last[d] = "failed"

\* The task never works into a sleep, and never forgets its journals.
RoundsSound == RoundsKeepAwake /\ NothingForgotten

\* A record does not stay at the head of its journal for ever, whatever the server
\* answers first, when the interval is on; when it is off, unless the last round failed.
HeadsMove ==
    \A d \in Domains : \A n \in 1..MaxRecords :
        (outbox[d] = n) ~> (outbox[d] # n \/ (~autoSync /\ (~synced \/ last[d] = "failed")))
================================================================================
