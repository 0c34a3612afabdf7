--------------------------- MODULE PowerCoordinator ---------------------------
(***************************************************************************)
(* The deep-sleep transaction of main/power_manager.cpp: the power task    *)
(* samples the activity generation, closes the sleep gate, has display,    *)
(* storage, audio and connectivity prepare, arms the wake pins, commits    *)
(* the RTC snapshot and sleeps, or rolls everything back.  Around it run   *)
(* the button task (main/button_input.cpp), the UI task that turns events  *)
(* into writes, the two services that answer through queues, and resets.   *)
(*                                                                         *)
(* An input travels hand -> ring -> staged -> written.  The gate is        *)
(* LeaseGate; its one holder here is the storage write of the UI.          *)
(*                                                                         *)
(* Time is a choice: a deadline may pass before any step that tests one.   *)
(* The charger, a missing token and the retry back-off only make an        *)
(* attempt end where it may end anyway, so they are no variables either.   *)
(***************************************************************************)
EXTENDS Naturals, Sequences

CONSTANTS Keys,          \* the three keys
          WakeKeys,      \* kUserInputWakeMask: the keys on an EXT1 wake pin
          RingCapacity,  \* kEventRingCapacity
          MaxActivity,   \* bound: activities of one boot, the boot itself included
          MaxGeneration  \* bound: sleep generations used for idle sleep

ASSUME WakeKeysAssumption == WakeKeys \subseteq Keys
ASSUME BoundAssumption ==
    {RingCapacity, MaxActivity, MaxGeneration} \subseteq Nat

VARIABLES
    power,          \* "awake", "asleep" (idle deep sleep), "off" (emergency)
    wake,           \* the kind in g_wake_context: "timer" or "other"
    depleted,       \* the battery is very low and no charger is connected
    rtc,            \* RTC memory: the sleep snapshot, g_consecutive_sleep_cycles
    pc,             \* the power task
    attempt,        \* its sleep transaction: command, baseline, results
    awaiting,       \* the command whose reply it waits for
    nextGeneration, \* g_next_sleep_generation
    request,        \* g_battery_shutdown_requested
    gate, holders,  \* the sleep gate and the leases out
    display, armed, board,
    service,        \* state of the audio and the connectivity service
    prepared,       \* g_prepared_generation of the audio service
    queue,          \* g_command_queue of each service
    reply,          \* what the waiting call finds in g_reply_queue
    unsent,         \* history: the rollbacks of this boot that no queue has seen
    activity,       \* g_user_activity_generation
    interacted,     \* g_user_interacted_current_boot
    idle,           \* the last activity is longer ago than the threshold
    acted,          \* history: an activity was published since the power task started
    uiStarted,      \* the UI task has recorded the boot and started the button task
    line,           \* the keys that pull their pin low
    stable,         \* the keys the button task holds for pressed
    hand,           \* how far the button task is with the event it pushes
    ring,           \* g_ring_count
    staged          \* the UI holds an effect in RAM that waits for its reservation

machineVars == <<power, wake, depleted>>
coordVars == <<pc, attempt, awaiting, nextGeneration>>
gateVars == <<gate, holders>>
hardwareVars == <<display, armed, board>>
serviceVars == <<service, prepared, queue, reply, unsent>>
activityVars == <<activity, interacted, idle, acted>>
inputVars == <<uiStarted, line, stable, hand, ring, staged>>
vars == <<machineVars, rtc, coordVars, request, gateVars, hardwareVars, serviceVars,
          activityVars, inputVars>>

Gate == INSTANCE LeaseGate WITH Tasks <- {"ui"}

Services == {"audio", "connectivity"}
NoSnapshot == [mode |-> "none", gen |-> 0, cycles |-> 0]
EmptyRtc == [snapshot |-> NoSnapshot, cycles |-> 0]
NoCommand == [kind |-> "none", gen |-> 0]
NoReply == [kind |-> "none", gen |-> 0, ok |-> FALSE]
NoAttempt == [gen |-> 0, baseline |-> 0, mode |-> "idle", ready |-> FALSE,
              then |-> "rest"]

Init ==
    /\ power = "awake" /\ wake = "other" /\ depleted = FALSE
    /\ rtc = EmptyRtc
    /\ pc = "down" /\ attempt = NoAttempt /\ awaiting = NoCommand
    /\ nextGeneration = 1 /\ request = FALSE
    /\ gate = "open" /\ holders = {}
    /\ display = "normal" /\ armed = FALSE /\ board = "normal"
    /\ service = [s \in Services |-> "active"] /\ prepared = 0
    /\ queue = [s \in Services |-> <<>>] /\ reply = NoReply /\ unsent = {}
    /\ activity = 0 /\ interacted = FALSE /\ idle = FALSE /\ acted = FALSE
    /\ uiStarted = FALSE /\ line = {} /\ stable = {} /\ hand = "none"
    /\ ring = 0 /\ staged = FALSE

--------------------------------------------------------------------------------
(* The button task. *)

ButtonStep ==
    /\ power = "awake"
    /\ UNCHANGED <<machineVars, coordVars, request, gateVars, hardwareVars, serviceVars,
                   uiStarted, line, staged>>

EventsLeft == activity < MaxActivity

\* A debounced edge, or a hold or long press of a key that stays down.
Classify(k) ==
    /\ ButtonStep
    /\ uiStarted
    /\ hand = "none"
    /\ EventsLeft
    /\ k \in line \cup stable
    /\ stable' = IF k \in line THEN stable \cup {k} ELSE stable \ {k}
    /\ hand' = "classified"
    /\ UNCHANGED <<rtc, activityVars, ring>>

\* PublishUserActivity before its critical section ...
StoreInteracted ==
    /\ ButtonStep
    /\ hand = "classified"
    /\ interacted' = TRUE
    /\ hand' = "interacted"
    /\ UNCHANGED <<rtc, activity, idle, acted, stable, ring>>

\* ... and inside: time, cycle counter and generation under g_activity_gate.
Publish ==
    /\ activity' = activity + 1
    /\ idle' = FALSE
    /\ acted' = (pc # "down")
    /\ rtc' = [rtc EXCEPT !.cycles = 0]

PublishActivity ==
    /\ ButtonStep
    /\ hand = "interacted"
    /\ Publish
    /\ hand' = "published"
    /\ UNCHANGED <<interacted, stable, ring>>

\* Mutant of QueueEvent: the ring is not tested for being full.
QueueEventUnchecked ==
    /\ ButtonStep
    /\ hand = "published"
    /\ ring' = ring + 1
    /\ hand' = "none"
    /\ UNCHANGED <<rtc, activityVars, stable>>

\* The event enters the ring; a full ring drops and counts it.
QueueEvent ==
    /\ ButtonStep
    /\ hand = "published"
    /\ ring' = IF ring < RingCapacity THEN ring + 1 ELSE ring
    /\ hand' = "none"
    /\ UNCHANGED <<rtc, activityVars, stable>>

--------------------------------------------------------------------------------
(* The UI task. *)

UiStep ==
    /\ power = "awake"
    /\ UNCHANGED <<machineVars, coordVars, hardwareVars, serviceVars, line, hand>>

\* CheckBatteryAfterUserActivity.
CheckBattery == request' = (request \/ depleted)

\* DeviceUiTask starts: a boot that is not a timer wake counts as activity, and
\* the button task takes the pins as it finds them.
StartUi ==
    /\ UiStep
    /\ ~uiStarted
    /\ uiStarted' = TRUE
    /\ stable' = line
    /\ IF wake = "timer"
       THEN UNCHANGED <<activityVars, rtc, request>>
       ELSE interacted' = TRUE /\ Publish /\ CheckBattery
    /\ UNCHANGED <<gateVars, ring, staged>>

\* An event is taken and applied; it may arm a write.
ConsumeEvent ==
    /\ UiStep
    /\ ring > 0
    /\ ring' = ring - 1
    /\ staged' \in {staged, TRUE}
    /\ CheckBattery
    /\ UNCHANGED <<rtc, gateVars, activityVars, uiStarted, stable>>

\* The armed write gets its lease, which a closed gate refuses.
ReserveWrite ==
    /\ UiStep
    /\ staged
    /\ Gate!Admit("ui")
    /\ staged' = FALSE
    /\ UNCHANGED <<rtc, request, activityVars, uiStarted, stable, ring>>

FinishWrite ==
    /\ UiStep
    /\ Gate!Finish("ui")
    /\ UNCHANGED <<rtc, request, activityVars, uiStarted, stable, ring, staged>>

--------------------------------------------------------------------------------
(* The power task: StartPowerCoordinator, the loop, the idle checks. *)

Others == UNCHANGED <<wake, depleted, activityVars, inputVars>>

\* The power task moves from one of its steps to the next.
Step(from, to) ==
    /\ power = "awake" /\ pc = from
    /\ pc' = to
    /\ UNCHANGED <<awaiting, serviceVars>>
    /\ Others

StartPowerCoordinator ==
    /\ Step("down", "rest")
    /\ IF rtc.snapshot # NoSnapshot
       THEN /\ nextGeneration' = rtc.snapshot.gen + 1
            /\ rtc' = [rtc EXCEPT !.cycles = rtc.snapshot.cycles]
       ELSE UNCHANGED <<nextGeneration, rtc>>
    /\ UNCHANGED <<power, attempt, request, gateVars, hardwareVars>>

Sampled == [NoAttempt EXCEPT !.gen = attempt.gen, !.baseline = activity]
Ended == [NoAttempt EXCEPT !.gen = attempt.gen]

\* One round: a depleted battery starts the emergency shutdown, otherwise the
\* activity generation is sampled.
Loop ==
    /\ Step("rest", IF request \/ depleted THEN "emergency" ELSE "sampled")
    /\ attempt' = IF request \/ depleted THEN attempt ELSE Sampled
    /\ request' = FALSE
    /\ UNCHANGED <<power, rtc, nextGeneration, gateVars, hardwareVars>>

\* IsUiIdleForSleep.
UiIdle == idle \/ (wake = "timer" /\ ~interacted)

\* Charger, back-off or token may end the round; so does a user who is not idle.
CheckIdle ==
    /\ \/ Step("sampled", "rest") /\ attempt' = Ended
       \/ /\ UiIdle
          /\ nextGeneration <= MaxGeneration
          /\ Step("sampled", "checked") /\ UNCHANGED attempt
    /\ UNCHANGED <<power, rtc, nextGeneration, request, gateVars, hardwareVars>>

Undisturbed == activity = attempt.baseline

Revalidate ==
    /\ Step("checked", IF Undisturbed THEN "begin" ELSE "rest")
    /\ attempt' = IF Undisturbed THEN attempt ELSE Ended
    /\ UNCHANGED <<power, rtc, nextGeneration, request, gateVars, hardwareVars>>

\* NextSleepGeneration and TryBeginSleepQuiesce.
BeginQuiesce ==
    /\ nextGeneration' = nextGeneration + 1
    /\ \/ /\ Step("begin", "closed")
          /\ Gate!CloseForIdle
          /\ attempt' = [attempt EXCEPT !.gen = nextGeneration, !.ready = TRUE]
       \/ /\ Step("begin", "rest")
          /\ holders # {}
          /\ attempt' = Ended
          /\ UNCHANGED gateVars
    /\ UNCHANGED <<power, rtc, request, hardwareVars>>

RevalidateClosed ==
    /\ Step("closed", IF Undisturbed THEN "display" ELSE "reopen")
    /\ UNCHANGED <<power, rtc, attempt, nextGeneration, request, gateVars, hardwareVars>>

--------------------------------------------------------------------------------
(* BroadcastPrepareSleep and, for the two services, the calls of the rollback. *)

Following == [display |-> "storage", storage |-> "audio", audio |-> "connectivity",
              connectivity |-> "prepared", undoConnectivity |-> "undoAudio",
              undoAudio |-> "restore"]

\* The service a step calls.
Callee == [audio |-> "audio", connectivity |-> "connectivity",
           undoAudio |-> "audio", undoConnectivity |-> "connectivity"]
Calling == power = "awake" /\ pc \in DOMAIN Callee

\* Record whether the part is ready and go on.
Conclude(ok) ==
    /\ attempt' = [attempt EXCEPT !.ready = @ /\ ok]
    /\ pc' = Following[pc]
    /\ awaiting' = NoCommand
    /\ reply' = NoReply
    /\ UNCHANGED <<power, rtc, nextGeneration, request, gateVars, armed, board,
                   service, prepared, queue>>
    /\ Others

PrepareDisplay ==
    /\ power = "awake" /\ pc = "display"
    /\ \/ display' = "prepared" /\ Conclude(TRUE)
       \/ UNCHANGED display /\ Conclude(FALSE)
    /\ UNCHANGED unsent

\* PrepareStorageForSleep: refused over a storage lease, and when the outbox fails.
PrepareStorage ==
    /\ power = "awake" /\ pc = "storage"
    /\ \/ "ui" \notin holders /\ Conclude(TRUE)
       \/ Conclude(FALSE)
    /\ UNCHANGED <<display, unsent>>

\* The deadline has passed before the call, or passes while the call waits for its
\* mutex (another client may hold it) or for room in the queue.
SkipService ==
    /\ Calling /\ pc \in Services
    /\ awaiting = NoCommand
    /\ Conclude(FALSE)
    /\ UNCHANGED <<display, unsent>>

\* The same wait of a rollback ends without a command in the queue; the result
\* ESP_ERR_TIMEOUT is looked at by nobody, and nothing sends the rollback again.
LoseRollback ==
    /\ Calling /\ pc \notin Services
    /\ awaiting = NoCommand
    /\ unsent' = unsent \cup {<<Callee[pc], attempt.gen>>}
    /\ Conclude(FALSE)
    /\ UNCHANGED display

SendCommand ==
    /\ Calling
    /\ awaiting = NoCommand
    /\ LET s == Callee[pc]
           c == [kind |-> IF pc \in Services THEN "prepare" ELSE "rollback",
                 gen |-> attempt.gen]
       IN /\ queue' = [queue EXCEPT ![s] = Append(@, c)]
          /\ awaiting' = c
    /\ UNCHANGED <<power, rtc, pc, attempt, nextGeneration, request, gateVars,
                   hardwareVars, service, prepared, reply, unsent>>
    /\ Others

\* Mutant of Answers: the reply is not matched with the request.
AnswersAny(r, c) == r # NoReply

\* request_id: a command of a kind is sent once in a generation.
Answers(r, c) == r.kind = c.kind /\ r.gen = c.gen

\* The reply to the command; any other is discarded.
TakeReply ==
    /\ Calling
    /\ awaiting # NoCommand
    /\ Answers(reply, awaiting)
    /\ Conclude(reply.ok \/ awaiting.kind = "rollback")
    /\ UNCHANGED <<display, unsent>>

\* The call times out, its reply unseen; its command stays in the queue of the service.
GiveUp ==
    /\ Calling
    /\ awaiting # NoCommand
    /\ Conclude(FALSE)
    /\ UNCHANGED <<display, unsent>>

--------------------------------------------------------------------------------
(* The idle sleep after the broadcast. *)

\* PreemptIdleSleepForBatteryEmergency: roll back, then shut down.
Preempt(from) ==
    /\ request
    /\ Step(from, "reopen")
    /\ request' = FALSE
    /\ attempt' = [attempt EXCEPT !.then = "emergency"]

Proceed(from, to) == Step(from, to) /\ UNCHANGED <<request, attempt>>

\* AllServicesReady and the first look for an emergency; an emergency goes on
\* whatever the services said.
Decide ==
    /\ \/ attempt.mode = "idle" /\ ~attempt.ready /\ Proceed("prepared", "reopen")
       \/ attempt.mode = "idle" /\ attempt.ready /\ Preempt("prepared")
       \/ attempt.mode = "idle" /\ attempt.ready /\ ~request /\ Proceed("prepared", "arm")
       \/ attempt.mode = "emergency" /\ Proceed("prepared", "powerDown")
    /\ UNCHANGED <<power, rtc, nextGeneration, gateVars, hardwareVars>>

\* Refused when a wake pin is low, too late, or by the hardware.
ArmWakeSources ==
    /\ \/ /\ line \cap WakeKeys = {}
          /\ armed' = TRUE
          /\ Proceed("arm", "armed")
       \/ armed' = FALSE /\ Proceed("arm", "reopen")
    /\ UNCHANGED <<power, rtc, nextGeneration, gateVars, display, board>>

PreemptArmed ==
    /\ Preempt("armed") \/ (~request /\ Proceed("armed", "hold"))
    /\ UNCHANGED <<power, rtc, nextGeneration, gateVars, hardwareVars>>

\* PrepareBoardPowerState and the last check before the commit.
HoldBoard ==
    /\ Proceed("hold", IF Undisturbed THEN "count" ELSE "reopen")
    /\ board' = "idle"
    /\ UNCHANGED <<power, rtc, nextGeneration, gateVars, display, armed>>

CountSleep ==
    /\ Proceed("count", "snapshot")
    /\ rtc' = [rtc EXCEPT !.cycles = @ + 1]
    /\ UNCHANGED <<power, nextGeneration, gateVars, hardwareVars>>

Snapshot == [mode |-> attempt.mode, gen |-> attempt.gen, cycles |-> rtc.cycles]

CommitSleepSnapshot ==
    /\ Proceed("snapshot", "commit")
    /\ rtc' = [rtc EXCEPT !.snapshot = Snapshot]
    /\ UNCHANGED <<power, nextGeneration, gateVars, hardwareVars>>

\* Mutant of CommitDeepSleep: the check inside the activity gate is left out.
CommitDeepSleepUnchecked ==
    /\ Proceed("commit", "down") /\ power' = "asleep"
    /\ UNCHANGED <<rtc, nextGeneration, gateVars, hardwareVars>>

\* The final check and esp_deep_sleep_start, both inside g_activity_gate.
CommitDeepSleep ==
    /\ \/ Undisturbed /\ Proceed("commit", "down") /\ power' = "asleep"
       \/ ~Undisturbed /\ Proceed("commit", "uncount") /\ UNCHANGED power
    /\ UNCHANGED <<rtc, nextGeneration, gateVars, hardwareVars>>

\* Mutant of UncountSleep: the cycle of the cancelled sleep stays counted.
UncountSleepNot ==
    /\ Proceed("uncount", "reopen")
    /\ UNCHANGED <<power, rtc, nextGeneration, gateVars, hardwareVars>>

UncountSleep ==
    /\ Proceed("uncount", "reopen")
    /\ rtc' = [rtc EXCEPT !.cycles = 0]
    /\ UNCHANGED <<power, nextGeneration, gateVars, hardwareVars>>

--------------------------------------------------------------------------------
(* RollbackSleepPreparation, around the calls to the services. *)

\* Mutant of Reopen: the services are left as they were prepared.
ReopenOnly ==
    /\ Proceed("reopen", "restore")
    /\ armed' = FALSE
    /\ Gate!Reopen
    /\ UNCHANGED <<power, rtc, nextGeneration, display, board>>

\* Disarm, then let the services take their leases again.
Reopen ==
    /\ Proceed("reopen", "undoConnectivity")
    /\ armed' = FALSE
    /\ Gate!Reopen
    /\ UNCHANGED <<power, rtc, nextGeneration, display, board>>

\* Display, board and snapshot.
Restore ==
    /\ Step("restore", attempt.then)
    /\ attempt' = Ended
    /\ display' = "normal"
    /\ board' = "normal"
    /\ rtc' = [rtc EXCEPT !.snapshot = NoSnapshot]
    /\ UNCHANGED <<power, nextGeneration, request, gateVars, armed>>

--------------------------------------------------------------------------------
(* RunBatteryEmergencyShutdown. *)

BeginEmergency ==
    /\ nextGeneration' = nextGeneration + 1
    /\ \/ /\ Step("emergency", "drain")
          /\ Gate!CloseForEmergency
          /\ attempt' = [NoAttempt EXCEPT !.gen = nextGeneration, !.mode = "emergency",
                                          !.ready = TRUE]
       \/ /\ Step("emergency", "rest")
          /\ gate # "open"
          /\ attempt' = Ended
          /\ UNCHANGED gateVars
    /\ UNCHANGED <<power, rtc, request, hardwareVars>>

\* Mutant of EndDrain: the wait has no deadline.
EndDrainWaits ==
    /\ "ui" \notin holders
    /\ Proceed("drain", "display")
    /\ UNCHANGED <<power, rtc, nextGeneration, gateVars, hardwareVars>>

\* The wait for storage work ends, with the work or with its deadline.
EndDrain ==
    /\ Proceed("drain", "display")
    /\ UNCHANGED <<power, rtc, nextGeneration, gateVars, hardwareVars>>

PowerDown ==
    /\ Proceed("powerDown", "shutdown")
    /\ armed' = FALSE
    /\ board' = "off"
    /\ rtc' = [rtc EXCEPT !.snapshot = Snapshot]
    /\ UNCHANGED <<power, nextGeneration, gateVars, display>>

Shutdown ==
    /\ Proceed("shutdown", "down")
    /\ power' = "off"
    /\ UNCHANGED <<rtc, nextGeneration, gateVars, hardwareVars>>

--------------------------------------------------------------------------------
(* The audio and the connectivity service: HandleCommand, one at a time. *)

\* The reply of a handled command, in the queue of its service.  One that finds no
\* caller waiting is drained before the next command is sent, so it is not kept.
Answer(s, c, ok) ==
    /\ queue' = [queue EXCEPT ![s] = Tail(@)]
    /\ reply' = IF Calling /\ Callee[pc] = s /\ awaiting # NoCommand
                THEN [kind |-> c.kind, gen |-> c.gen, ok |-> ok]
                ELSE reply

Turn(s, state) == service' = [service EXCEPT ![s] = state]

\* Mutant of AudioPrepare: the generation is not kept for the rollback.
AudioPrepareForgets(c) ==
    \/ /\ service["audio"] = "active"
       /\ Turn("audio", "quiesced") /\ UNCHANGED prepared /\ Answer("audio", c, TRUE)
    \/ /\ service["audio"] = "active"
       /\ UNCHANGED <<service, prepared>> /\ Answer("audio", c, FALSE)
    \/ /\ service["audio"] # "active"
       /\ UNCHANGED <<service, prepared>> /\ Answer("audio", c, prepared = c.gen)

\* Idle and drained: amplifier and codec go off.  Busy, late or failing: refused.
AudioPrepare(c) ==
    \/ /\ service["audio"] = "active"
       /\ Turn("audio", "quiesced") /\ prepared' = c.gen /\ Answer("audio", c, TRUE)
    \/ /\ service["audio"] = "active"
       /\ UNCHANGED <<service, prepared>> /\ Answer("audio", c, FALSE)
    \/ /\ service["audio"] # "active"
       /\ UNCHANGED <<service, prepared>> /\ Answer("audio", c, prepared = c.gen)

\* Only the generation that was prepared is undone.  When the codec does not come
\* back the state stays kQuiescing, here "stuck".
AudioRollback(c) ==
    \/ /\ service["audio"] = "active" \/ c.gen # prepared
       /\ UNCHANGED <<service, prepared>>
       /\ Answer("audio", c, service["audio"] = "active")
    \/ /\ service["audio"] # "active" /\ c.gen = prepared
       /\ \/ Turn("audio", "active") /\ prepared' = 0 /\ Answer("audio", c, TRUE)
          \/ Turn("audio", "stuck") /\ UNCHANGED prepared /\ Answer("audio", c, FALSE)

\* The state is kQuiescing before the parts that can fail.
ConnectivityPrepare(c) ==
    \/ /\ Turn("connectivity", "quiesced")
       /\ \E ok \in BOOLEAN : Answer("connectivity", c, ok)
    \/ UNCHANGED service /\ Answer("connectivity", c, FALSE)

\* A service that was connecting needs its lease again, which a closed gate refuses.
ConnectivityRollback(c) ==
    \/ Turn("connectivity", "active") /\ Answer("connectivity", c, TRUE)
    \/ gate # "open" /\ UNCHANGED service /\ Answer("connectivity", c, FALSE)

HandleCommand(s) ==
    /\ power = "awake"
    /\ queue[s] # <<>>
    /\ LET c == Head(queue[s])
       IN \/ s = "audio" /\ c.kind = "prepare" /\ AudioPrepare(c)
          \/ s = "audio" /\ c.kind = "rollback" /\ AudioRollback(c)
          \/ s = "connectivity" /\ c.kind = "prepare"
             /\ ConnectivityPrepare(c) /\ UNCHANGED prepared
          \/ s = "connectivity" /\ c.kind = "rollback"
             /\ ConnectivityRollback(c) /\ UNCHANGED prepared
    /\ UNCHANGED <<machineVars, rtc, coordVars, request, gateVars, hardwareVars,
                   activityVars, inputVars, unsent>>

--------------------------------------------------------------------------------
(* Time, the user, the battery, resets. *)

Tasks == <<rtc, coordVars, request, gateVars, hardwareVars, serviceVars>>

\* The idle threshold (60 s or more) passes only when no input is under way.
IdleTimePasses ==
    /\ power = "awake"
    /\ hand = "none" /\ ring = 0 /\ ~staged
    /\ idle' = TRUE
    /\ UNCHANGED <<machineVars, Tasks, activity, interacted, acted, inputVars>>

Finger(k) ==
    /\ EventsLeft \/ k \in line
    /\ line' = IF k \in line THEN line \ {k} ELSE line \cup {k}
    /\ UNCHANGED <<machineVars, Tasks, activityVars, uiStarted, stable, hand, ring, staged>>

\* The battery runs low.
Battery ==
    /\ ~depleted
    /\ depleted' = TRUE
    /\ UNCHANGED <<power, wake, Tasks, activityVars, inputVars>>

\* The reset: RAM and pins are as in Init, the keys stay as they are pressed.
Boot(kind) ==
    /\ power' = "awake" /\ wake' = kind
    /\ pc' = "down" /\ attempt' = NoAttempt /\ awaiting' = NoCommand
    /\ nextGeneration' = 1 /\ request' = FALSE
    /\ gate' = "open" /\ holders' = {}
    /\ display' = "normal" /\ armed' = FALSE /\ board' = "normal"
    /\ service' = [s \in Services |-> "active"] /\ prepared' = 0
    /\ queue' = [s \in Services |-> <<>>] /\ reply' = NoReply /\ unsent' = {}
    /\ activity' = 0 /\ interacted' = FALSE /\ idle' = FALSE /\ acted' = FALSE
    /\ uiStarted' = FALSE /\ stable' = {} /\ hand' = "none"
    /\ ring' = 0 /\ staged' = FALSE
    /\ UNCHANGED line

\* The RTC timer, a key or the charger wakes the chip.
Wake ==
    /\ power = "asleep" /\ armed
    /\ \E kind \in {"timer", "other"} : Boot(kind)
    /\ UNCHANGED <<rtc, depleted>>

\* Power comes back after the board latch was opened.
PowerOn ==
    /\ power = "off"
    /\ Boot("other")
    /\ rtc' = EmptyRtc
    /\ depleted' = FALSE

--------------------------------------------------------------------------------
PowerTask ==
    \/ StartPowerCoordinator \/ Loop \/ CheckIdle \/ Revalidate
    \/ BeginQuiesce \/ RevalidateClosed
    \/ PrepareDisplay \/ PrepareStorage \/ SkipService
    \/ SendCommand \/ LoseRollback \/ TakeReply \/ GiveUp
    \/ Decide \/ ArmWakeSources \/ PreemptArmed \/ HoldBoard
    \/ CountSleep \/ CommitSleepSnapshot \/ CommitDeepSleep \/ UncountSleep
    \/ Reopen \/ Restore
    \/ BeginEmergency \/ EndDrain \/ PowerDown \/ Shutdown

ButtonTask ==
    \/ \E k \in Keys : Classify(k)
    \/ StoreInteracted \/ PublishActivity \/ QueueEvent

UiTask == StartUi \/ ConsumeEvent \/ ReserveWrite \/ FinishWrite

Next ==
    \/ PowerTask
    \/ ButtonTask
    \/ UiTask
    \/ \E s \in Services : HandleCommand(s)
    \/ IdleTimePasses \/ Battery
    \/ \E k \in Keys : Finger(k)
    \/ Wake \/ PowerOn

Spec == Init /\ [][Next]_vars

\* The power task runs: every wait of it is bounded by a timeout.
FairSpec == Spec /\ WF_vars(PowerTask)

--------------------------------------------------------------------------------
(* Properties. *)

\* Generations, counters, the ring and the states of all parts stay in range.
TypeOK ==
    /\ power \in {"awake", "asleep", "off"}
    /\ rtc.cycles \in 0..MaxGeneration + 1
    /\ pc \in DOMAIN Following \cup
          {"down", "rest", "sampled", "checked", "begin", "closed", "prepared", "arm",
           "armed", "hold", "count", "snapshot", "commit", "uncount", "reopen",
           "restore", "emergency", "drain", "powerDown", "shutdown"}
    /\ attempt.baseline \in 0..MaxActivity + 1
    /\ awaiting.kind \in {"none", "prepare", "rollback"}
    /\ Gate!TypeOK
    /\ service \in [Services -> {"active", "quiesced", "stuck"}]
    /\ activity \in 0..MaxActivity + 1
    /\ stable \subseteq Keys /\ line \subseteq Keys
    /\ hand \in {"none", "classified", "interacted", "published"}
    /\ ring \in 0..RingCapacity

\* power_manager.cpp:109-118: an input that was published before the chip sleeps is
\* not lost with RAM.  Idle sleep finds the ring empty, no effect staged, no write
\* running and no event between its publication and the ring.
NoInputLostToIdleSleep ==
    power = "asleep" =>
        /\ hand # "published"
        /\ ring = 0
        /\ ~staged
        /\ "ui" \notin holders

\* BroadcastPrepareSleep .. CommitDeepSleep: the chip goes to idle sleep only with
\* every part prepared by this very attempt (the next boot trusts the panel cache
\* on the strength of it), nothing left in the queues of the services, the wake
\* pins armed, the board held and the snapshot of the attempt in RTC memory.
IdleSleepFullyPrepared ==
    power = "asleep" =>
        /\ gate = "idle"
        /\ display = "prepared"
        /\ \A s \in Services : service[s] = "quiesced" /\ queue[s] = <<>>
        /\ prepared = attempt.gen
        /\ armed /\ board = "idle"
        /\ rtc.snapshot.mode = "idle" /\ rtc.snapshot.gen = attempt.gen

\* The rollback that would undo what the service prepared was not sent: for audio
\* the one of the generation it prepared, for connectivity the last one.
Forsaken(s) ==
    <<s, IF s = "audio" THEN prepared ELSE attempt.gen>> \in unsent

\* The rollback that undoes it waits in the queue of the service.
WillResume(s) ==
    \E i \in DOMAIN queue[s] :
        queue[s][i].kind = "rollback" /\ (s = "audio" => queue[s][i].gen = prepared)

\* RollbackSleepPreparation: between two attempts the device is whole again.  A
\* service still quiesced has the rollback that undoes it in its queue, except one
\* whose rollback was never sent and the audio service whose codec did not come
\* back; the snapshot of an aborted sleep is gone, and a sleep that an interaction
\* cancelled is not counted (power_manager.cpp:795-797).
AbortLeavesDeviceRunning ==
    power = "awake" /\ pc \in {"rest", "emergency"} =>
        /\ gate = "open" /\ ~armed
        /\ board = "normal" /\ display = "normal"
        /\ \A s \in Services :
              service[s] = "quiesced" => WillResume(s) \/ Forsaken(s)
        /\ attempt.gen > 0 => rtc.snapshot = NoSnapshot
        /\ pc = "rest" /\ acted => rtc.cycles = 0

\* The transaction, done or undone, leaves every part in a state of its own.
TransactionSound == TypeOK /\ AbortLeavesDeviceRunning

\* RunBatteryEmergencyShutdown: a device whose battery stays low without a charger
\* stops running, even when no service ever answers.
EmergencyShutsDown == <>[]depleted => []<>(power # "awake")

\* When the services run, one that was quiesced works again, or the chip sleeps, or
\* the rollback that would undo it was never sent: then it stays as it is, for good
\* (audio) or until the next sleep attempt is rolled back (connectivity), although
\* ARCHITECTURE.md:75 has any denial or timeout roll back all prepared services.
ServicesResume ==
    (\A s \in Services : WF_vars(HandleCommand(s))) =>
        \A s \in Services :
            service[s] = "quiesced" ~>
                (service[s] # "quiesced" \/ power # "awake" \/ Forsaken(s))
================================================================================
