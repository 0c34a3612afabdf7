---------------------------- MODULE DisplayPipeline ----------------------------
(***************************************************************************)
(* The way of a frame from the UI task (main/device_ui.cpp) through the    *)
(* intents and the EPD task (main/ui/ui_refresh.cpp) to the panel, with    *)
(* the sleep lease that covers it.  The panel driver is EpdPanel, the      *)
(* commands the EPD task serves while it is idle EpdCommands: here a       *)
(* transfer succeeds or fails and a preparation is one step.               *)
(*                                                                         *)
(* A frame stands for its pixels, its signature and its clock label at     *)
(* once.  Due ticks are choices: a deadline passes whenever it is waited   *)
(* for.  Each section under g_refresh_mutex is one step.                   *)
(***************************************************************************)
EXTENDS Naturals, Sequences, FiniteSets

CONSTANTS Frames,       \* what the UI may want to show
          Depth,        \* kDisplayResultQueueDepth
          MaxRevision,  \* bound: render revisions, counted over all boots
          MaxFailures,  \* bound: panel transfers that fail
          MaxSleeps     \* bound: deep sleeps begun

\* A garbled panel shows no frame; every failure is a revision of the UI's.
ASSUME LimitsAssumption ==
    /\ "garbled" \notin Frames
    /\ Depth \in Nat \ {0}
    /\ {MaxRevision, MaxFailures, MaxSleeps} \subseteq Nat /\ MaxFailures < MaxRevision

VARIABLES
    \* UI task
    ui,          \* its place: "loop", "submitted", "acking"
    handled,     \* the submission or the result it is busy with
    desired,     \* the frame of the current AppState
    need,        \* refresh_schedule and pending_refresh_schedule
    force,       \* force_next_submission, the one-shot full-refresh flag
    revision,    \* AppState.revision
    records,     \* the occupied SubmittedDisplayRecords
    presented,   \* presented_signature
    unasked,     \* history: the page changed and nobody asks for it to be shown
    \* intents, under g_refresh_mutex
    slots,       \* g_pending_frames, _signatures and _intents
    consumer,    \* g_consumer_index
    pending,     \* g_refresh_pending
    busy,        \* g_refresh_busy
    secondary,   \* g_secondary
    outstanding, \* g_outstanding_display_revisions
    results,     \* g_display_result_queue
    lease,       \* g_display_sleep_lease is held
    \* EPD task
    epd,         \* its place
    taken,       \* consume_idx
    held,        \* local_sig and local_intent
    outcome,     \* render_result
    shown,       \* displayed_signature
    notified,    \* its task notification
    \* panel, power, RTC memory
    panel,       \* what the panel shows
    failures,    \* transfers that failed
    unowned,     \* history: nobody repairs the failed transfer on the panel
    power,       \* "awake", "preparing", "prepared"
    sleeps,      \* deep sleeps begun
    rtcShown     \* g_rtc_last_rendered_screen_id and _clock

uiVars == <<ui, handled, desired, need, force, revision, records, presented, unasked>>
intentVars == <<slots, consumer, pending, busy, secondary, outstanding, lease>>
epdVars == <<taken, held, outcome, shown>>
panelVars == <<panel, failures, unowned>>
powerVars == <<power, sleeps, rtcShown>>
vars == <<uiVars, intentVars, results, epd, epdVars, notified, panelVars, powerVars>>

NoFrame == "no frame"
Garbled == "garbled"

\* RefreshSchedule without its shades: a clock tick, a change, a commit.
Schedules == {"clock", "change", "commit"}
RefreshRank == [none |-> 0, clock |-> 1, change |-> 2, commit |-> 3]
StrongerSchedule(a, b) == IF RefreshRank[a] >= RefreshRank[b] THEN a ELSE b

\* An intent: its frame, its waveform requirement, revision 0 for none.
NoIntent == [rev |-> 0, frame |-> NoFrame, full |-> FALSE]
NoRecord == [rev |-> 0, frame |-> NoFrame, full |-> FALSE, sched |-> "none"]
Intents == [rev : 1..MaxRevision, frame : Frames, full : BOOLEAN]

GateOpen == power = "awake"

Init ==
    /\ ui = "loop" /\ handled = NoRecord
    /\ desired \in Frames /\ need = "change" /\ force = FALSE /\ revision = 1
    /\ records = {} /\ presented = NoFrame /\ unasked = FALSE
    /\ slots = [i \in {0, 1} |-> NoIntent] /\ consumer = 0
    /\ pending = FALSE /\ busy = FALSE /\ secondary = NoIntent
    /\ outstanding = {} /\ results = <<>> /\ lease = FALSE
    /\ epd = "outer" /\ taken = 0 /\ held = NoIntent /\ outcome = "ok"
    /\ shown = NoFrame /\ notified = FALSE
    /\ panel = NoFrame /\ failures = 0 /\ unowned = FALSE
    /\ power = "awake" /\ sleeps = 0 /\ rtcShown = NoFrame

--------------------------------------------------------------------------------
(* UI task: events, results, dispatch *)

\* A reducer changes the page and asks for a refresh; each one is a revision.
UiEvent ==
    /\ ui = "loop" /\ revision + MaxFailures < MaxRevision
    /\ \E f \in Frames, s \in Schedules :
          /\ desired' = f
          /\ need' = StrongerSchedule(need, s)
    /\ revision' = revision + 1 /\ unasked' = FALSE
    /\ UNCHANGED <<ui, handled, force, records, presented, intentVars, results, epd, epdVars,
                   notified, panelVars, powerVars>>

\* The progress of a transfer changes the page after the dispatch, and what it asks for
\* goes into the schedule that the next iteration overwrites: the page is shown with
\* whatever asks next.
TransferProgress ==
    /\ ui = "loop" /\ revision + MaxFailures < MaxRevision
    /\ desired' \in Frames \ {desired}
    /\ revision' = revision + 1 /\ unasked' = (need = "none")
    /\ UNCHANGED <<ui, handled, need, force, records, presented, intentVars, results, epd, epdVars,
                   notified, panelVars, powerVars>>

\* DrainDisplayResults takes one result: a presented one is the record of what
\* the panel shows, a failed one asks for a full refresh under a new revision.
DrainResult ==
    /\ ui = "loop" /\ results # <<>>
    /\ LET result == Head(results)
           record == CHOOSE r \in records : r.rev = result.rev
       IN  /\ records' = records \ {record}
           /\ handled' = record
           /\ IF result.status = "presented"
              THEN presented' = record.frame /\ rtcShown' = record.frame
              ELSE UNCHANGED <<presented, rtcShown>>
           /\ IF result.status = "failed"
              THEN /\ force' = TRUE
                   /\ need' = StrongerSchedule(need, "change")
                   /\ revision' = revision + 1 /\ unasked' = FALSE
              ELSE UNCHANGED <<force, need, revision, unasked>>
    /\ results' = Tail(results) /\ ui' = "acking"
    /\ UNCHANGED <<desired, intentVars, epd, epdVars, notified, panelVars, power, sleeps>>

\* Mutant of LeaseAfter: the results the UI has not taken yet do not count.
LeaseAfterRender(p, b, s, o) == lease /\ (p \/ b \/ s # NoIntent)

\* MaybeReleaseDisplayLeaseLocked
LeaseAfter(p, b, s, o) == lease /\ (p \/ b \/ s # NoIntent \/ o # {})

AcknowledgeDisplayResult ==
    /\ ui = "acking"
    /\ outstanding' = outstanding \ {handled.rev}
    /\ lease' = LeaseAfter(pending, busy, secondary, outstanding')
    /\ ui' = "loop" /\ handled' = NoRecord
    /\ UNCHANGED <<desired, need, force, revision, records, presented, unasked, slots, consumer,
                   pending, busy, secondary, results, epd, epdVars, notified, panelVars, powerVars>>

\* The latest submission that has no result yet.
Submitted == IF records = {} THEN NoRecord
             ELSE CHOOSE r \in records : \A q \in records : q.rev <= r.rev

ForceSubmission == force \/ need = "commit"

ShouldSubmit ==
    LET submitted == Submitted
        same == submitted # NoRecord /\ desired = submitted.frame
        stronger == /\ same
                    /\ \/ RefreshRank[need] > RefreshRank[submitted.sched]
                       \/ ForceSubmission /\ ~submitted.full
    IN  /\ ~same \/ stronger \/ ForceSubmission
        /\ submitted # NoRecord \/ desired # presented \/ ForceSubmission

\* What is wanted is shown or on its way.
SkipSubmission ==
    /\ ui = "loop" /\ need # "none" /\ ~ShouldSubmit
    /\ need' = "none"
    /\ UNCHANGED <<ui, handled, desired, force, revision, records, presented, unasked, intentVars,
                   results, epd, epdVars, notified, panelVars, powerVars>>

--------------------------------------------------------------------------------
(* RequestEpdUiRefresh *)

\* Mutant of MergeDisplayPolicy: the newest intent replaces the policy as well.
MergeNewestOnly(old, new) == new

\* MergeDisplayPolicy: the newest pixels keep the strongest waveform.
MergeDisplayPolicy(old, new) == [new EXCEPT !.full = new.full \/ old.full]

Superseded(rev) == [rev |-> rev, status |-> "superseded"]

HasRoom == Len(results) < Depth

\* Mutant of Replaced: a secondary intent is overwritten without a result.
ReplacedPrimary == IF ~busy /\ pending THEN slots[consumer] ELSE NoIntent

\* The intent that a submission would replace before it was rendered.
Replaced == IF busy THEN secondary ELSE IF pending THEN slots[consumer] ELSE NoIntent

Accepts ==
    /\ revision \notin outstanding
    /\ Cardinality(outstanding) < Depth
    /\ lease \/ GateOpen
    /\ Replaced # NoIntent => HasRoom

RequestEpdUiRefresh ==
    /\ ui = "loop" /\ need # "none" /\ ShouldSubmit /\ Accepts
    /\ LET intent == [rev |-> revision, frame |-> desired, full |-> ForceSubmission]
           merged == IF Replaced = NoIntent THEN intent ELSE MergeDisplayPolicy(Replaced, intent)
       IN  /\ IF busy
              THEN secondary' = merged /\ UNCHANGED <<slots, consumer, pending>>
              ELSE /\ slots' = [slots EXCEPT ![1 - consumer] = merged]
                   /\ consumer' = 1 - consumer /\ pending' = TRUE
                   /\ UNCHANGED secondary
           /\ handled' = [rev |-> revision, frame |-> desired, full |-> merged.full, sched |-> need]
    /\ results' = IF Replaced = NoIntent THEN results ELSE Append(results, Superseded(Replaced.rev))
    /\ outstanding' = outstanding \cup {revision}
    /\ lease' = TRUE
    /\ ui' = "submitted"
    /\ UNCHANGED <<desired, need, force, revision, records, presented, unasked, busy, epd, epdVars,
                   notified, panelVars, powerVars>>

\* After the mutex: the notification of the EPD task (which finds a secondary
\* intent itself) and the record.
TrackDisplaySubmission ==
    /\ ui = "submitted"
    /\ notified' = (notified \/ secondary.rev # handled.rev)
    /\ records' = records \cup {handled}
    /\ force' = FALSE /\ need' = "none"
    /\ ui' = "loop" /\ handled' = NoRecord
    /\ UNCHANGED <<desired, revision, presented, unasked, intentVars, results, epd, epdVars,
                   panelVars, powerVars>>

\* A refused submission is tried again in the next iteration.
DeferSubmission ==
    /\ ui = "loop" /\ need # "none" /\ ShouldSubmit /\ ~Accepts
    /\ force' = ForceSubmission
    /\ UNCHANGED <<ui, handled, desired, need, revision, records, presented, unasked, intentVars,
                   results, epd, epdVars, notified, panelVars, powerVars>>


--------------------------------------------------------------------------------
(* EpdRefreshTask *)

\* ulTaskNotifyTake, in the outer loop and in a wait of the inner one.
TakeNotification ==
    /\ epd \in {"outer", "wait", "timed"} /\ notified
    /\ notified' = FALSE /\ epd' = "look"
    /\ UNCHANGED <<uiVars, intentVars, results, epdVars, panelVars, powerVars>>

\* The head of the inner loop.
Look ==
    /\ epd = "look"
    /\ epd' = IF pending THEN "timed" ELSE "idle"
    /\ lease' = LeaseAfter(pending, busy, secondary, outstanding)
    /\ UNCHANGED <<uiVars, slots, consumer, pending, busy, secondary, outstanding, results, epdVars,
                   notified, panelVars, powerVars>>

\* Mutant of Consume: the renderer is not marked busy.
ConsumeUnmarked ==
    /\ epd = "timed" /\ pending
    /\ taken' = consumer /\ held' = slots[consumer]
    /\ pending' = FALSE /\ UNCHANGED busy
    /\ epd' = "render"
    /\ UNCHANGED <<uiVars, slots, consumer, secondary, outstanding, lease, results, outcome, shown,
                   notified, panelVars, powerVars>>

\* Mutant of Consume: the slot that the producer fills next is taken.
ConsumeOtherSlot ==
    /\ epd = "timed" /\ pending
    /\ taken' = 1 - consumer /\ held' = slots[1 - consumer]
    /\ pending' = FALSE /\ busy' = TRUE
    /\ epd' = "render"
    /\ UNCHANGED <<uiVars, slots, consumer, secondary, outstanding, lease, results, outcome, shown,
                   notified, panelVars, powerVars>>

\* The due tick has come: the intent is taken and its slot is read by reference.
Consume ==
    /\ epd = "timed" /\ pending
    /\ taken' = consumer /\ held' = slots[consumer]
    /\ pending' = FALSE /\ busy' = TRUE
    /\ epd' = "render"
    /\ UNCHANGED <<uiVars, slots, consumer, secondary, outstanding, lease, results, outcome, shown,
                   notified, panelVars, powerVars>>

CanDeduplicate == held.frame = shown /\ ~held.full

RenderDuplicate ==
    /\ epd = "render" /\ CanDeduplicate
    /\ outcome' = "ok" /\ epd' = "publish"
    /\ UNCHANGED <<uiVars, intentVars, results, taken, held, shown, notified, panelVars, powerVars>>

RenderFrameToEpd ==
    /\ epd = "render" /\ ~CanDeduplicate
    /\ panel' = slots[taken].frame
    /\ shown' = held.frame /\ outcome' = "ok" /\ unowned' = FALSE
    /\ epd' = "publish"
    /\ UNCHANGED <<uiVars, intentVars, results, taken, held, notified, failures, powerVars>>

\* The transfer and the recovery of the driver fail.
RenderFails ==
    /\ epd = "render" /\ ~CanDeduplicate /\ failures < MaxFailures
    /\ panel' = Garbled /\ failures' = failures + 1 /\ unowned' = FALSE
    /\ outcome' = "failed" /\ epd' = "publish"
    /\ UNCHANGED <<uiVars, intentVars, results, taken, held, shown, notified, powerVars>>

\* The terminal result; the one that finds no room in ten seconds is dropped
\* and gives its place in the ledger back.
PublishResult ==
    /\ epd = "publish"
    /\ IF HasRoom
       THEN /\ results' = Append(results, [rev |-> held.rev,
                       status |-> IF outcome = "ok" THEN "presented" ELSE "failed"])
            /\ UNCHANGED <<outstanding, lease>>
       ELSE /\ outstanding' = outstanding \ {held.rev}
            /\ lease' = LeaseAfter(pending, busy, secondary, outstanding')
            /\ UNCHANGED results
    /\ epd' = "finish"
    /\ UNCHANGED <<uiVars, slots, consumer, pending, busy, secondary, epdVars, notified,
                   panelVars, powerVars>>

\* Mutant of Finish: the promoted intent does not wake the task.
FinishSilent ==
    /\ epd = "finish"
    /\ IF secondary # NoIntent
       THEN /\ slots' = [slots EXCEPT ![1 - consumer] = secondary]
            /\ consumer' = 1 - consumer /\ pending' = TRUE
            /\ secondary' = NoIntent
            /\ UNCHANGED <<busy, lease>>
       ELSE /\ busy' = FALSE
            /\ lease' = LeaseAfter(pending, FALSE, secondary, outstanding)
            /\ UNCHANGED <<slots, consumer, pending, secondary>>
    /\ epd' = "outer" /\ held' = NoIntent
    /\ UNCHANGED <<uiVars, outstanding, results, taken, outcome, shown, notified, panelVars,
                   powerVars>>

\* The secondary intent moves into the other slot and the task wakes itself.
Finish ==
    /\ epd = "finish"
    /\ IF secondary # NoIntent
       THEN /\ slots' = [slots EXCEPT ![1 - consumer] = secondary]
            /\ consumer' = 1 - consumer /\ pending' = TRUE
            /\ secondary' = NoIntent /\ notified' = TRUE
            /\ UNCHANGED <<busy, lease>>
       ELSE /\ busy' = FALSE
            /\ lease' = LeaseAfter(pending, FALSE, secondary, outstanding)
            /\ UNCHANGED <<slots, consumer, pending, secondary, notified>>
    /\ epd' = "outer" /\ held' = NoIntent
    /\ UNCHANGED <<uiVars, outstanding, results, taken, outcome, shown, panelVars, powerVars>>

\* The idle command point; what it does is module EpdCommands.
IdleCommands ==
    /\ epd = "idle" /\ epd' = "wait"
    /\ power' = IF power = "preparing" THEN "prepared" ELSE power
    /\ UNCHANGED <<uiVars, intentVars, results, epdVars, notified, panelVars, sleeps, rtcShown>>

--------------------------------------------------------------------------------
(* The power task: the gate closes only when no lease is out. *)

BeginQuiesce ==
    /\ power = "awake" /\ ~lease /\ sleeps < MaxSleeps
    /\ power' = "preparing" /\ sleeps' = sleeps + 1 /\ notified' = TRUE
    /\ UNCHANGED <<uiVars, intentVars, results, epd, epdVars, panelVars, rtcShown>>

\* The deadline, or a refusal elsewhere.
AbortSleep ==
    /\ power # "awake" /\ power' = "awake"
    /\ UNCHANGED <<uiVars, intentVars, results, epd, epdVars, notified, panelVars, sleeps,
                   rtcShown>>

\* TrySkipInitRefresh: after a timer wake-up the first frame may be the one
\* that RTC memory says the panel shows.
SkipsInitRefresh(f, timer) == timer /\ f = rtcShown

DeepSleepAndBoot ==
    /\ power = "prepared"
    /\ \E f \in Frames, timer \in BOOLEAN :
          /\ desired' = f
          /\ presented' = IF SkipsInitRefresh(f, timer) THEN f ELSE NoFrame
          /\ need' = IF SkipsInitRefresh(f, timer) THEN "none"
                     ELSE IF timer THEN "clock" ELSE "change"
    /\ ui' = "loop" /\ handled' = NoRecord
    /\ force' = FALSE /\ records' = {} /\ unasked' = FALSE /\ UNCHANGED revision
    /\ slots' = [i \in {0, 1} |-> NoIntent] /\ consumer' = 0
    /\ pending' = FALSE /\ busy' = FALSE /\ secondary' = NoIntent
    /\ outstanding' = {} /\ results' = <<>> /\ lease' = FALSE
    /\ epd' = "outer" /\ taken' = 0 /\ held' = NoIntent /\ outcome' = "ok"
    /\ shown' = NoFrame /\ notified' = FALSE
    /\ unowned' = (panel = Garbled)
    /\ power' = "awake"
    /\ UNCHANGED <<panel, failures, sleeps, rtcShown>>

--------------------------------------------------------------------------------
UiTask == DrainResult \/ AcknowledgeDisplayResult \/ SkipSubmission \/ RequestEpdUiRefresh
          \/ TrackDisplaySubmission \/ DeferSubmission

EpdTask == TakeNotification \/ Look \/ Consume \/ RenderDuplicate \/ RenderFrameToEpd \/ RenderFails
           \/ PublishResult \/ Finish \/ IdleCommands

PowerTask == BeginQuiesce \/ AbortSleep \/ DeepSleepAndBoot

Next == UiEvent \/ TransferProgress \/ UiTask \/ EpdTask \/ PowerTask

\* Both tasks run for ever; the UI drains before it dispatches, in every
\* iteration, and a sleep transaction ends.
Fairness ==
    /\ SF_vars(DrainResult) /\ WF_vars(AcknowledgeDisplayResult)
    /\ SF_vars(RequestEpdUiRefresh) /\ WF_vars(TrackDisplaySubmission) /\ WF_vars(SkipSubmission)
    /\ WF_vars(EpdTask) /\ WF_vars(AbortSleep \/ DeepSleepAndBoot)

Spec == Init /\ [][Next]_vars /\ Fairness

--------------------------------------------------------------------------------
(* Properties *)

\* Every field stays in its range.
TypeOK ==
    /\ ui \in {"loop", "submitted", "acking"} /\ desired \in Frames
    /\ need \in Schedules \cup {"none"} /\ revision \in 1..MaxRevision
    /\ presented \in Frames \cup {NoFrame}
    /\ \A i \in {0, 1} : slots[i] \in Intents \cup {NoIntent}
    /\ secondary \in Intents \cup {NoIntent} /\ held \in Intents \cup {NoIntent}
    /\ {consumer, taken} \subseteq {0, 1}
    /\ {force, pending, busy, lease, notified, unowned} \subseteq BOOLEAN
    /\ pending => slots[consumer] \in Intents
    /\ epd \in {"render", "publish"} => held \in Intents
    /\ Cardinality(records) <= Depth /\ Len(results) <= Depth
    /\ panel \in Frames \cup {NoFrame, Garbled}

RevOf(intent) == IF intent = NoIntent THEN {} ELSE {intent.rev}

\* The places where an accepted revision waits for its result or its ack.
Waiting == (IF pending THEN {slots[consumer].rev} ELSE {})
           \cup (IF epd \in {"render", "publish"} THEN {held.rev} ELSE {})
           \cup RevOf(secondary)
Answered == {results[i].rev : i \in 1..Len(results)}
            \cup (IF ui = "acking" THEN {handled.rev} ELSE {})

\* An accepted revision is in exactly one place, gets exactly one terminal
\* result, and the room for it in the queue is never taken by another
\* (ui_refresh.cpp, "a result slot was reserved when the intent was accepted").
OneResultPerRevision ==
    /\ outstanding = Waiting \cup Answered
    /\ Cardinality(outstanding) =
          (IF pending THEN 1 ELSE 0) + (IF epd \in {"render", "publish"} THEN 1 ELSE 0)
          + (IF secondary # NoIntent THEN 1 ELSE 0) + Len(results)
          + (IF ui = "acking" THEN 1 ELSE 0)
    /\ epd = "publish" => HasRoom

\* While the gate is closed no frame is anywhere on its way
\* (display_service.cpp, PrepareDisplayForSleep: "no upstream frame left to drain").
SleepFindsNoFrame ==
    power # "awake" => /\ outstanding = {} /\ records = {} /\ ~busy /\ ~pending
                       /\ epd \notin {"render", "publish", "finish"}

\* The slot that is rendered by reference holds still (ui_refresh.cpp,
\* "guaranteed not to be overwritten while the consumer renders it").
RenderedFrameStable == epd = "render" => slots[taken] = held

\* The ledger of revisions and the slots they are rendered from are in order.
LedgerSound == TypeOK /\ OneResultPerRevision /\ RenderedFrameStable

FullIn(intent) == intent # NoIntent /\ intent.full

\* After a failed transfer a full refresh is always owed by somebody, whatever
\* supersedes, coalesces or is presented by deduplication in between.
FailureOwesFullRefresh ==
    (panel = Garbled /\ ~unowned) =>
        \/ force
        \/ epd = "publish" /\ outcome = "failed"
        \/ \E i \in 1..Len(results) : results[i].status = "failed"
        \/ pending /\ FullIn(slots[consumer])
        \/ epd = "render" /\ FullIn(held)
        \/ FullIn(secondary)

\* The panel comes to show the page of the UI once pages, failures and sleeps end, unless
\* nobody owns the repair of a failed transfer, or the last change of the page was the
\* progress of a transfer (device_ui.cpp, "only schedules a repaint on a real segment step").
PanelConverges == <>[](panel = desired \/ unowned \/ unasked)
================================================================================
