------------------------------- MODULE EpdCommands -------------------------------
(***************************************************************************)
(* The commands the EPD task serves between frames: the sleep preparation  *)
(* of the power task, through the channel of display_service.cpp, and the  *)
(* idle maintenance the UI task asks for (ui/ui_refresh.cpp).  A frame is  *)
(* only whether one is pending: how it gets there is DisplayPipeline, what *)
(* the driver does with it EpdPanel.                                       *)
(*                                                                         *)
(* Each access to an atomic, the semaphore or the task notification is a   *)
(* step.  A deadline passes whenever it is waited for.  The preparation    *)
(* for an emergency, which may meet frames under way, is not modelled.     *)
(***************************************************************************)
EXTENDS Naturals, FiniteSets

CONSTANTS MaxRequests,  \* bound: sleep preparations asked for
          MaxActivity   \* bound: the activity generation

ASSUME BoundsAssumption == {MaxRequests, MaxActivity} \subseteq Nat

VARIABLES
    \* channel
    prepState,    \* g_sleep_prep_state
    generation,   \* g_sleep_prep_generation
    prepResult,   \* g_sleep_prep_result_generation (the result is always ESP_OK)
    done,         \* the completion semaphore
    \* power task
    asker,        \* its place
    asked,        \* its local generation
    cancelled,    \* history: generations it has taken back
    \* EPD task
    owner,        \* its place
    claim,        \* the generation it works for
    woken,     \* its task notification
    served,       \* history: the last generation it cut the rail for
    \* maintenance
    arming,       \* the UI task is between its two stores
    requested,    \* g_idle_maintenance_requested
    armedAt,      \* g_idle_maintenance_activity_generation
    activity,     \* g_epd_activity_generation
    recent,       \* the last activity is younger than the idle time
    idleCut,      \* g_epd_idle_cut
    \* panel
    frame,        \* a frame is pending
    heavy,        \* enough heavy partials for a cleanup
    rail          \* g_epd_rail_powered

channelVars == <<prepState, generation, prepResult, done>>
askerVars == <<asker, asked, cancelled>>
ownerVars == <<owner, claim, served>>
maintenanceVars == <<arming, requested, armedAt>>
activityVars == <<activity, recent, idleCut>>
railVars == <<frame, heavy, rail>>
commandVars == <<channelVars, askerVars, ownerVars, woken, maintenanceVars, activityVars, railVars>>

CommandsInit ==
    /\ prepState = "idle" /\ generation = 0 /\ prepResult = 0 /\ done = FALSE
    /\ asker = "none" /\ asked = 0 /\ cancelled = {}
    /\ owner = "parked" /\ claim = 0 /\ woken = FALSE /\ served = 0
    /\ arming = FALSE /\ requested = FALSE /\ armedAt = 0
    /\ activity = 1 /\ recent = TRUE /\ idleCut = FALSE
    /\ frame = FALSE /\ heavy = FALSE /\ rail = TRUE

\* NoteEpdActivity
NoteEpdActivity ==
    /\ activity' = activity + 1 /\ recent' = TRUE /\ idleCut' = FALSE

--------------------------------------------------------------------------------
(* UI task *)

NobodyAsks == asker = "none"

\* An accepted frame is activity and wakes the EPD task.
SubmitFrame ==
    /\ NobodyAsks /\ ~frame /\ ~arming /\ activity + 1 < MaxActivity
    /\ frame' = TRUE /\ NoteEpdActivity /\ woken' = TRUE
    /\ UNCHANGED <<channelVars, askerVars, ownerVars, maintenanceVars, heavy, rail>>

IdleTimePasses ==
    /\ recent /\ recent' = FALSE
    /\ UNCHANGED <<channelVars, askerVars, ownerVars, woken, maintenanceVars, activity, idleCut,
                   railVars>>

\* IsEpdIdleMaintenanceDue, then the generation
StoreGeneration ==
    /\ ~arming /\ ~recent /\ ~idleCut
    /\ armedAt' = activity /\ arming' = TRUE
    /\ UNCHANGED <<channelVars, askerVars, ownerVars, woken, requested, activityVars, railVars>>

\* then the flag; only the request that sets it wakes the EPD task.
RequestEpdIdleMaintenance ==
    /\ arming /\ arming' = FALSE
    /\ requested' = TRUE
    /\ woken' = (woken \/ ~requested)
    /\ UNCHANGED <<channelVars, askerVars, ownerVars, armedAt, activityVars, railVars>>

--------------------------------------------------------------------------------
(* EPD task *)

WakeUp ==
    /\ owner = "parked" /\ woken
    /\ woken' = FALSE
    /\ owner' = IF frame THEN "render" ELSE "serve"
    /\ UNCHANGED <<channelVars, askerVars, claim, served, maintenanceVars, activityVars, railVars>>

\* The frame, a partial that may be heavy; the task then waits for a new
\* notification without a look at its commands.
Render ==
    /\ owner = "render"
    /\ frame' = FALSE /\ rail' = TRUE /\ heavy' \in BOOLEAN
    /\ NoteEpdActivity
    /\ owner' = "parked"
    /\ UNCHANGED <<channelVars, askerVars, claim, served, woken, maintenanceVars>>

\* Mutant of ServeSleepPrep: the request is served without a claim.
ServeUnclaimed ==
    /\ owner = "serve"
    /\ owner' = IF prepState = "pending" THEN "claimed" ELSE "exchange"
    /\ UNCHANGED <<prepState, generation, prepResult, done, askerVars, claim, served, woken,
                   maintenanceVars, activityVars, railVars>>

\* ServiceDisplaySleepPrepCommand: the request is claimed first. A claimed
\* request skips the maintenance of this round.
ServeSleepPrep ==
    /\ owner = "serve"
    /\ IF prepState = "pending"
       THEN prepState' = "claimed" /\ owner' = "claimed"
       ELSE owner' = "exchange" /\ UNCHANGED prepState
    /\ UNCHANGED <<generation, prepResult, done, askerVars, claim, served, woken, maintenanceVars,
                   activityVars, railVars>>

LoadGeneration ==
    /\ owner = "claimed"
    /\ claim' = generation /\ owner' = "powerOff"
    /\ UNCHANGED <<channelVars, askerVars, served, woken, maintenanceVars, activityVars, railVars>>

TryPowerOffEpd ==
    /\ owner = "powerOff"
    /\ rail' = FALSE /\ served' = claim /\ owner' = "publish"
    /\ UNCHANGED <<channelVars, askerVars, claim, woken, maintenanceVars, activityVars, frame,
                   heavy>>

PublishPrepResult ==
    /\ owner = "publish"
    /\ prepResult' = claim /\ owner' = "give"
    /\ UNCHANGED <<prepState, generation, done, askerVars, claim, served, woken, maintenanceVars,
                   activityVars, railVars>>

GiveDone ==
    /\ owner = "give"
    /\ done' = TRUE /\ owner' = "release"
    /\ UNCHANGED <<prepState, generation, prepResult, askerVars, claim, served, woken,
                   maintenanceVars, activityVars, railVars>>

ReleaseChannel ==
    /\ owner = "release"
    /\ prepState' = "idle" /\ owner' = "parked"
    /\ UNCHANGED <<generation, prepResult, done, askerVars, claim, served, woken, maintenanceVars,
                   activityVars, railVars>>

TakeMaintenance ==
    /\ owner = "exchange"
    /\ requested' = FALSE
    /\ owner' = IF requested THEN "validate" ELSE "parked"
    /\ UNCHANGED <<channelVars, askerVars, claim, served, woken, arming, armedAt, activityVars,
                   railVars>>

\* RunIdleMaintenanceIfStillValid
Validate ==
    /\ owner = "validate"
    /\ owner' = IF activity = armedAt /\ ~frame THEN "maintain" ELSE "parked"
    /\ UNCHANGED <<channelVars, askerVars, claim, served, woken, maintenanceVars, activityVars,
                   railVars>>

\* PowerOffEpdAfterIdleIfNeeded: cleanup if called for, then the rail.
Maintain ==
    /\ owner = "maintain"
    /\ owner' = IF recent \/ idleCut THEN "parked" ELSE IF heavy THEN "clean" ELSE "cut"
    /\ rail' = (rail \/ owner' = "clean")
    /\ UNCHANGED <<channelVars, askerVars, claim, served, woken, maintenanceVars, activityVars,
                   frame, heavy>>

CleanUp ==
    /\ owner = "clean"
    /\ heavy' = FALSE /\ owner' = "cut"
    /\ UNCHANGED <<channelVars, askerVars, claim, served, woken, maintenanceVars, activityVars,
                   frame, rail>>

CutRail ==
    /\ owner = "cut"
    /\ rail' = FALSE /\ idleCut' = TRUE /\ owner' = "parked"
    /\ UNCHANGED <<channelVars, askerVars, claim, served, woken, maintenanceVars, activity, recent,
                   frame, heavy>>

--------------------------------------------------------------------------------
(* Power task: PrepareDisplayForSleep *)

Rendering == frame \/ owner = "render"

\* No lease is out; what a request that timed out left behind is drained.
DrainDone ==
    /\ asker = "none" /\ ~Rendering /\ asked < MaxRequests
    /\ done' = FALSE /\ asker' = "post"
    /\ UNCHANGED <<prepState, generation, prepResult, asked, cancelled, ownerVars, woken,
                   maintenanceVars, activityVars, railVars>>

StorePrepGeneration ==
    /\ asker = "post"
    /\ asked' = asked + 1 /\ generation' = asked' /\ asker' = "swap"
    /\ UNCHANGED <<prepState, prepResult, done, cancelled, ownerVars, woken, maintenanceVars,
                   activityVars, railVars>>

\* Mutant of PostPending: the owner is not told.
PostUnnotified ==
    /\ asker = "swap"
    /\ IF prepState = "idle"
       THEN prepState' = "pending" /\ asker' = "wait"
       ELSE asker' = "failed" /\ UNCHANGED prepState
    /\ UNCHANGED <<generation, prepResult, done, asked, cancelled, ownerVars, woken,
                   maintenanceVars, activityVars, railVars>>

\* One request at a time is in the channel.
PostPending ==
    /\ asker = "swap"
    /\ IF prepState = "idle"
       THEN prepState' = "pending" /\ asker' = "notify"
       ELSE asker' = "failed" /\ UNCHANGED prepState
    /\ UNCHANGED <<generation, prepResult, done, asked, cancelled, ownerVars, woken,
                   maintenanceVars, activityVars, railVars>>

NotifyOwner ==
    /\ asker = "notify"
    /\ woken' = TRUE /\ asker' = "wait"
    /\ UNCHANGED <<channelVars, asked, cancelled, ownerVars, maintenanceVars, activityVars,
                   railVars>>

\* Mutant of ResultMatches: any give is the answer.
AnyResult == TRUE

ResultMatches == prepResult = asked

\* The first wait ends with a give or at the deadline.
TakeDone ==
    /\ asker = "wait" /\ done
    /\ done' = FALSE /\ asker' = IF ResultMatches THEN "ready" ELSE "cancel"
    /\ UNCHANGED <<prepState, generation, prepResult, asked, cancelled, ownerVars, woken,
                   maintenanceVars, activityVars, railVars>>

WaitTimesOut ==
    /\ asker \in {"wait", "waitClaimed"}
    /\ asker' = IF asker = "wait" THEN "cancel" ELSE "failed"
    /\ UNCHANGED <<channelVars, asked, cancelled, ownerVars, woken, maintenanceVars,
                   activityVars, railVars>>

\* Mutant of CancelPending: a claimed request is taken back as well.
CancelClaimed ==
    /\ asker = "cancel"
    /\ IF prepState # "idle"
       THEN prepState' = "idle" /\ asker' = "failed" /\ cancelled' = cancelled \cup {asked}
       ELSE asker' = "waitClaimed" /\ UNCHANGED <<prepState, cancelled>>
    /\ UNCHANGED <<generation, prepResult, done, asked, ownerVars, woken, maintenanceVars,
                   activityVars, railVars>>

\* Only a request that is still pending can be taken back.
CancelPending ==
    /\ asker = "cancel"
    /\ IF prepState = "pending"
       THEN prepState' = "idle" /\ asker' = "failed" /\ cancelled' = cancelled \cup {asked}
       ELSE asker' = "waitClaimed" /\ UNCHANGED <<prepState, cancelled>>
    /\ UNCHANGED <<generation, prepResult, done, asked, ownerVars, woken, maintenanceVars,
                   activityVars, railVars>>

TakeLateDone ==
    /\ asker = "waitClaimed" /\ done
    /\ done' = FALSE /\ asker' = IF ResultMatches THEN "ready" ELSE "failed"
    /\ UNCHANGED <<prepState, generation, prepResult, asked, cancelled, ownerVars, woken,
                   maintenanceVars, activityVars, railVars>>

\* Not ready, or another part refuses: the gate opens again.
RollbackDisplay ==
    /\ asker \in {"failed", "ready"} /\ asker' = "none"
    /\ UNCHANGED <<channelVars, asked, cancelled, ownerVars, woken, maintenanceVars,
                   activityVars, railVars>>

--------------------------------------------------------------------------------
MaintenanceUi == StoreGeneration \/ RequestEpdIdleMaintenance

EpdOwner == WakeUp \/ Render \/ ServeSleepPrep \/ LoadGeneration \/ TryPowerOffEpd
           \/ PublishPrepResult \/ GiveDone \/ ReleaseChannel \/ TakeMaintenance \/ Validate
           \/ Maintain \/ CleanUp \/ CutRail

PowerAsker == StorePrepGeneration \/ PostPending \/ NotifyOwner \/ TakeDone
             \/ WaitTimesOut \/ CancelPending \/ TakeLateDone \/ RollbackDisplay

CommandsNext ==
    SubmitFrame \/ IdleTimePasses \/ DrainDone \/ MaintenanceUi \/ EpdOwner \/ PowerAsker

CommandsSpec == CommandsInit /\ [][CommandsNext]_commandVars

--------------------------------------------------------------------------------
(* Properties *)

Serving == owner \in {"claimed", "powerOff", "publish", "give", "release"}

\* Every field stays in its range, and the channel is claimed exactly while
\* the EPD task serves it.
CommandsTypeOK ==
    /\ prepState \in {"idle", "pending", "claimed"}
    /\ {generation, prepResult, asked, claim, served} \subseteq 0..MaxRequests
    /\ cancelled \subseteq 1..MaxRequests
    /\ {armedAt, activity} \subseteq 0..(MaxActivity + 1)
    /\ {done, woken, arming, requested, recent, idleCut, frame, heavy, rail} \subseteq BOOLEAN
    /\ prepState = "claimed" <=> Serving

\* "Ready" is the answer to this request: the rail was cut for it, never only
\* for an earlier one whose answer came late.
ReadyMeansServed == asker = "ready" => served = asked

\* A request that was taken back is never carried out behind the power task.
CancelledNeverServed == owner \in {"powerOff", "publish", "give"} => claim \notin cancelled

\* The EPD task is never asleep with a posted request and no notification.
RequestSeen ==
    asker \in {"wait", "cancel"} /\ prepState = "pending" =>
        woken \/ owner # "parked"

\* The channel between the two tasks is in order: a request is seen, served or
\* taken back, whatever the deadlines do.
ChannelSound == CommandsTypeOK /\ CancelledNeverServed /\ RequestSeen
================================================================================
