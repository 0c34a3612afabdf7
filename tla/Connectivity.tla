------------------------------ MODULE Connectivity ------------------------------
(***************************************************************************)
(* main/services/connectivity_service.cpp with its adapters               *)
(* main/wifi_manager.cpp and main/provision_manager.cpp.                   *)
(*                                                                         *)
(* One task owns the policy: off, provisioning, connecting, online,        *)
(* backoff, quiescing.  Clients and the power coordinator call it through  *)
(* a queue; Wi-Fi events and the result of a provisioning session are      *)
(* posted to the same queue and dropped when it is full.  The driver runs  *)
(* beside it and reports through the event loop, and wifi_manager notes    *)
(* the link before the owner hears of it.  Deadlines pass whenever they    *)
(* are waited for.  Credentials are known or not.                          *)
(***************************************************************************)
EXTENDS Naturals, Sequences

CONSTANTS NetQueueDepth,   \* kCommandQueueDepth
          NetReplyDepth,   \* kReplyQueueDepth
          RetryLimit,      \* kFastRetryLimit
          MaxEvents,       \* bound: events in the loop when the link or a timer moves
          MaxNetRequests,  \* bound: calls made before one of a client
          MaxSleeps,       \* bound: sleep transactions
          MaxNetFailures   \* bound: driver and portal calls that fail

\* What is assumed of the constants.
ASSUME NetAssumption ==
    /\ {NetQueueDepth, NetReplyDepth, RetryLimit} \subseteq Nat \ {0}
    /\ {MaxEvents, MaxNetRequests, MaxSleeps, MaxNetFailures} \subseteq Nat

VARIABLES
    \* calls
    netQueue, netReplies,   \* g_command_queue, g_reply_queue
    netCaller, netSent,     \* the holder of g_call_mutex, the request it waits for
    netRequests,            \* g_next_request_id - 1
    \* owner task
    netPc,                  \* the request it stops a session for, or 0
    netState, online, netLease, timer, retries,  \* g_*; the timer is armed or not
    resume,                 \* g_resume_provisioning
    \* wifi_manager and the driver
    wifi,                \* g_initialized, g_wifi_connected, g_sleep_quiescing, g_resume_...
    radio,               \* the station: "down", "started", "joining", "joined"
    events,              \* the default event loop
    \* provision_manager
    prov,                \* its task, g_session_active, its lease, its event bits
    outcome,             \* g_prov_state once a session has ended
    known,               \* the NVS holds credentials
    \* power coordinator
    netSleep,               \* its transaction
    transactions,
    \* history
    dropped,             \* a posted command found the queue full
    unanswered,          \* a rollback was not answered with success
    strayed,             \* a rollback came with no prepare, or a call to a session that was over
    netFailures

netCallVars == <<netQueue, netReplies, netCaller, netSent, netRequests>>
leaseVars == <<netState, netLease>>
serviceVars == <<netState, online, netLease, timer, retries, resume>>
wifiVars == <<wifi, radio, events>>
provVars == <<prov, outcome, known>>
sleepVars == <<netSleep, transactions>>
netHistory == <<dropped, unanswered, strayed, netFailures>>
netVars == <<netCallVars, netPc, serviceVars, wifiVars, provVars, sleepVars, netHistory>>

NoCaller == "none"
NoSession == [at |-> "idle", active |-> FALSE, lease |-> FALSE, saved |-> FALSE,
              exit |-> FALSE, cancel |-> FALSE, stopped |-> FALSE]

NetInit ==
    /\ netQueue = <<>> /\ netReplies = <<>>
    /\ netCaller = NoCaller /\ netSent = 0 /\ netRequests = 0
    /\ netPc = 0 /\ netState = "off" /\ online = FALSE /\ netLease = FALSE /\ timer = FALSE
    /\ retries = 0 /\ resume = FALSE
    /\ wifi = [initialized |-> FALSE, connected |-> FALSE, quiescing |-> FALSE, resume |-> FALSE]
    /\ radio = "down" /\ events = <<>>
    /\ prov = NoSession /\ outcome = "idle" /\ known \in BOOLEAN
    /\ netSleep = [at |-> "up", forced |-> FALSE] /\ transactions = 0
    /\ dropped = FALSE /\ unanswered = FALSE /\ strayed = FALSE /\ netFailures = 0

NetMayFail(ok) ==
    /\ ok \/ netFailures < MaxNetFailures
    /\ netFailures' = IF ok THEN netFailures ELSE netFailures + 1

--------------------------------------------------------------------------------
(* Calls *)

\* SubmitCommand: late replies are drained under the mutex, the send waits for room.
Call(who, type) ==
    /\ netCaller = NoCaller /\ Len(netQueue) < NetQueueDepth
    /\ netRequests' = netRequests + 1 /\ netCaller' = who /\ netSent' = netRequests'
    /\ netQueue' = Append(netQueue, [type |-> type, id |-> netRequests']) /\ netReplies' = <<>>
    /\ UNCHANGED <<netPc, serviceVars, wifiVars, provVars, sleepVars, netHistory>>

\* StartConnectivity, and WaitForConnectivity before it waits
NetClientCall == netRequests < MaxNetRequests /\ Call("client", "start")

NetPowerCall ==
    \/ netSleep.at = "prepare" /\ Call("power", "prepare")
    \/ netSleep.at = "rollback" /\ Call("power", "rollback")

\* Where a transaction goes after a call, or with no call when its deadline passed.
AfterCall(s, ok) ==
    [s EXCEPT !.at = IF s.at = "rollback" THEN "up"
                     ELSE IF s.forced THEN "off"
                     ELSE IF ok THEN "ready" ELSE "rollback"]

NetConclude(ok) ==
    /\ netCaller' = NoCaller /\ netSent' = 0
    /\ IF netCaller = "power"
       THEN /\ netSleep' = AfterCall(netSleep, ok)
            /\ unanswered' = (unanswered \/ (netSleep.at = "rollback" /\ ~ok))
       ELSE UNCHANGED <<netSleep, unanswered>>
    /\ UNCHANGED <<netQueue, netRequests, netPc, serviceVars, wifiVars, provVars, transactions,
                   dropped, strayed, netFailures>>

NetTakeReply ==
    /\ netCaller # NoCaller /\ netReplies # <<>> /\ netReplies' = Tail(netReplies)
    /\ IF Head(netReplies).id = netSent
       THEN NetConclude(Head(netReplies).ok)
       ELSE UNCHANGED <<netQueue, netCaller, netSent, netRequests, netPc, serviceVars,
                        wifiVars, provVars, sleepVars, netHistory>>

NetGiveUp == netCaller # NoCaller /\ NetConclude(FALSE) /\ UNCHANGED netReplies

\* The mutex or the queue is not free before the deadline, or the deadline passed before.
NeverSent ==
    /\ netSleep.at \in {"prepare", "rollback"} /\ netCaller # "power"
    /\ netSleep' = AfterCall(netSleep, FALSE)
    /\ unanswered' = (unanswered \/ netSleep.at = "rollback")
    /\ UNCHANGED <<netCallVars, netPc, serviceVars, wifiVars, provVars, transactions,
                   dropped, strayed, netFailures>>

--------------------------------------------------------------------------------
(* Power coordinator, as far as it reaches this service *)

\* Idle sleep finds no lease and closes the gate; an emergency does not ask.
NetBeginSleep ==
    /\ netSleep.at = "up" /\ transactions < MaxSleeps
    /\ transactions' = transactions + 1
    /\ \E forced \in BOOLEAN :
          /\ forced \/ (~netLease /\ ~prov.lease)
          /\ netSleep' = [at |-> "prepare", forced |-> forced]
    /\ UNCHANGED <<netCallVars, netPc, serviceVars, wifiVars, provVars, netHistory>>

NetAbortSleep ==
    /\ netSleep.at = "ready" /\ netSleep' = [netSleep EXCEPT !.at = "rollback"]
    /\ UNCHANGED <<netCallVars, netPc, serviceVars, wifiVars, provVars, transactions, netHistory>>

\* esp_deep_sleep_start
CommitSleep ==
    /\ netSleep.at = "ready" /\ netSleep' = [netSleep EXCEPT !.at = "off"]
    /\ UNCHANGED <<netCallVars, netPc, serviceVars, wifiVars, provVars, transactions, netHistory>>

\* The gate is open again before the rollback is sent.
NetGateOpen == netSleep.at \in {"up", "rollback"}
CanHold == netLease \/ NetGateOpen

--------------------------------------------------------------------------------
(* The driver, and wifi_manager on top of it *)

EspStart(ok) ==
    /\ NetMayFail(ok)
    /\ radio' = IF ok /\ radio = "down" THEN "started" ELSE radio
    /\ events' = IF ok /\ radio = "down" THEN Append(events, "started") ELSE events

\* A station that was joined reports that it is not.
EspStop(ok) ==
    /\ NetMayFail(ok)
    /\ radio' = IF ok THEN "down" ELSE radio
    /\ events' = IF ok /\ radio = "joined" THEN Append(events, "lost") ELSE events

\* ConnectWifiStationNow, whose result its callers only log
Connect ==
    radio' = IF ~wifi.quiescing /\ wifi.initialized /\ radio = "started" THEN "joining" ELSE radio

StopWifiStationRadio ==
    IF ~wifi.initialized THEN UNCHANGED <<wifiVars, netFailures>>
    ELSE \E ok \in BOOLEAN :
            /\ EspStop(ok)
            /\ wifi' = [wifi EXCEPT !.connected = @ /\ ~ok]

StartWifiStationRadio(ok) ==
    IF wifi.quiescing \/ ~wifi.initialized
    THEN ~ok /\ UNCHANGED <<wifiVars, netFailures>>
    ELSE EspStart(ok) /\ UNCHANGED wifi

\* New credentials drop the link first, which a stopped radio refuses.
StartWifiWithCredentials(ok) ==
    IF wifi.quiescing \/ (wifi.initialized /\ radio = "down")
    THEN ~ok /\ UNCHANGED <<wifiVars, netFailures>>
    ELSE IF wifi.initialized
    THEN /\ ok /\ radio' = "started"
         /\ events' = IF radio = "started" THEN events ELSE Append(events, "lost")
         /\ UNCHANGED <<wifi, netFailures>>
    ELSE EspStart(ok) /\ wifi' = [wifi EXCEPT !.initialized = ok]

\* StartWifiStationIfEnabled: "none" when no credentials are known.
StartStation(result) ==
    IF wifi.quiescing \/ wifi.initialized \/ ~known
    THEN /\ result = (IF wifi.quiescing THEN "error" ELSE IF wifi.initialized THEN "ok" ELSE "none")
         /\ UNCHANGED <<wifiVars, netFailures>>
    ELSE result # "none" /\ StartWifiWithCredentials(result = "ok")

--------------------------------------------------------------------------------
(* Owner task *)

NetTake(type) ==
    netPc = 0 /\ netQueue # <<>> /\ Head(netQueue).type = type /\ netQueue' = Tail(netQueue)

\* Only a call has an id; a reply that finds the queue full is dropped.
NetReply(id, ok) ==
    netReplies' = IF id # 0 /\ Len(netReplies) < NetReplyDepth
                  THEN Append(netReplies, [id |-> id, ok |-> ok]) ELSE netReplies
NetAnswer(ok) == NetReply(Head(netQueue).id, ok)

\* What no handler of the owner touches.
NetOthers == <<netCaller, netSent, netRequests, outcome, known, sleepVars, dropped, unanswered>>

Leased == {"connecting", "provisioning"}

\* SetState drops the lease in every state but two.
SetState(s, held) == netState' = s /\ netLease' = (held /\ s \in Leased)

\* Mutant of EnterConnecting: the timer of the retry is left as it is.
EnterConnectingUntimed == SetState("connecting", TRUE) /\ UNCHANGED timer

EnterConnecting == SetState("connecting", TRUE) /\ timer' = TRUE

\* StartProvisioningMode
StartProvisioningMode(ok) ==
    IF prov.active THEN ok /\ UNCHANGED prov
    ELSE /\ ok = NetGateOpen
         /\ prov' = IF ok THEN [NoSession EXCEPT !.at = "opening", !.active = TRUE, !.lease = TRUE]
                    ELSE prov

\* BeginProvisioning; its guard is with the callers.
BeginProvisioning ==
    \E ok \in BOOLEAN :
       /\ StartProvisioningMode(ok)
       /\ SetState(IF ok THEN "provisioning" ELSE "off", TRUE)
       /\ online' = FALSE /\ retries' = 0 /\ timer' = FALSE

NetRefuse == UNCHANGED <<serviceVars, wifiVars, prov, netPc, strayed, netFailures>>

\* StartConfiguredConnectivity from the states that ask the driver
StartRadioAgain ==
    \E ok \in BOOLEAN :
       /\ StartWifiStationRadio(ok) /\ NetAnswer(ok)
       /\ IF ok THEN EnterConnecting ELSE netLease' = FALSE /\ UNCHANGED <<netState, timer>>
       /\ UNCHANGED <<online, retries, resume, prov>>

StartFromCredentials ==
    \E result \in {"ok", "none", "error"} :
       /\ StartStation(result)
       /\ CASE result = "none" -> BeginProvisioning /\ NetAnswer(netState' = "provisioning")
            [] result = "ok" -> EnterConnecting /\ NetAnswer(TRUE)
                                /\ UNCHANGED <<online, retries, prov>>
            [] OTHER -> /\ SetState("backoff", FALSE) /\ timer' = TRUE /\ NetAnswer(FALSE)
                        /\ UNCHANGED <<online, retries, prov>>
       /\ UNCHANGED resume

HandleStart ==
    /\ NetTake("start")
    /\ CASE netState = "quiescing" -> NetAnswer(FALSE) /\ NetRefuse
         [] netState # "quiescing" /\ online -> NetAnswer(TRUE) /\ NetRefuse
         [] netState # "quiescing" /\ ~online /\ prov.active ->
               /\ SetState("provisioning", netLease) /\ NetAnswer(TRUE)
               /\ strayed' = (strayed \/ prov.at = "ending")
               /\ UNCHANGED <<online, timer, retries, resume, wifiVars, prov, netPc, netFailures>>
         [] OTHER -> IF ~CanHold THEN NetAnswer(FALSE) /\ NetRefuse
                     ELSE /\ IF netState = "backoff" /\ wifi.initialized
                             THEN StartRadioAgain ELSE StartFromCredentials
                          /\ UNCHANGED <<netPc, strayed>>
    /\ UNCHANGED NetOthers

\* StartWithCredentials
HandleProvisioned ==
    /\ NetTake("provisioned") /\ UNCHANGED netReplies
    /\ IF netState = "quiescing" \/ ~CanHold THEN NetRefuse
       ELSE \E ok \in BOOLEAN :
               /\ StartWifiWithCredentials(ok)
               /\ IF ok THEN EnterConnecting /\ online' = FALSE /\ retries' = 0
                  ELSE SetState("backoff", FALSE) /\ timer' = TRUE /\ UNCHANGED <<online, retries>>
               /\ UNCHANGED <<resume, prov, netPc, strayed>>
    /\ UNCHANGED NetOthers

\* States in which the events of a link that is being taken down are ignored.
Deaf == {"quiescing", "backoff", "provisioning"}

HandleWifiStarted ==
    /\ NetTake("started") /\ UNCHANGED netReplies
    /\ IF netState \in Deaf \/ ~CanHold THEN NetRefuse
       ELSE /\ EnterConnecting /\ Connect
            /\ UNCHANGED <<online, retries, resume, wifi, events, prov, netPc, strayed, netFailures>>
    /\ UNCHANGED NetOthers

\* Mutant of HandleWifiConnected: an address that comes late is good news in every state.
HandleWifiConnectedAlways ==
    /\ NetTake("gotip") /\ UNCHANGED netReplies
    /\ retries' = 0 /\ timer' = FALSE /\ online' = TRUE /\ SetState("online", netLease)
    /\ UNCHANGED <<resume, wifiVars, prov, netPc, strayed, netFailures, NetOthers>>

HandleWifiConnected ==
    /\ NetTake("gotip") /\ UNCHANGED netReplies
    /\ IF netState = "quiescing" THEN NetRefuse
       ELSE /\ retries' = 0 /\ timer' = FALSE /\ online' = TRUE /\ SetState("online", netLease)
            /\ UNCHANGED <<resume, wifiVars, prov, netPc, strayed, netFailures>>
    /\ UNCHANGED NetOthers

\* Mutant of HandleWifiDisconnected: a deaf state ignores the whole event.
HandleWifiDisconnectedDeaf ==
    /\ NetTake("lost") /\ UNCHANGED netReplies
    /\ IF netState \in Deaf THEN NetRefuse
       ELSE /\ online' = FALSE
            /\ IF CanHold THEN EnterConnecting ELSE UNCHANGED <<leaseVars, timer>>
            /\ UNCHANGED <<retries, resume, wifiVars, prov, netPc, strayed, netFailures>>
    /\ UNCHANGED NetOthers

HandleWifiDisconnected ==
    /\ NetTake("lost") /\ UNCHANGED netReplies
    /\ online' = FALSE
    /\ IF netState \in Deaf \/ ~CanHold THEN UNCHANGED <<leaseVars, timer>> ELSE EnterConnecting
    /\ UNCHANGED <<retries, resume, wifiVars, prov, netPc, strayed, netFailures, NetOthers>>

\* wifi_manager's PrepareConnectivityForSleep, whose deadline may have passed.
QuiesceWifi(id) ==
    \/ NetReply(id, FALSE) /\ UNCHANGED <<online, wifiVars, netFailures>>
    \/ /\ ~wifi.initialized /\ NetReply(id, TRUE) /\ online' = FALSE
       /\ wifi' = [wifi EXCEPT !.quiescing = TRUE, !.resume = FALSE]
       /\ UNCHANGED <<radio, events, netFailures>>
    \/ \E ok \in BOOLEAN :
          /\ wifi.initialized /\ EspStop(ok) /\ NetReply(id, ok)
          /\ online' = (online /\ ~ok)
          /\ wifi' = [wifi EXCEPT !.quiescing = TRUE, !.resume = TRUE, !.connected = @ /\ ~ok]

\* PrepareForSleep; the deadline of a caller that gave up has passed.
NetPrepare ==
    /\ NetTake("prepare")
    /\ \/ NetAnswer(FALSE) /\ NetRefuse
       \/ /\ netCaller = "power" /\ netSent = Head(netQueue).id
          /\ resume' = prov.active /\ SetState("quiescing", FALSE) /\ timer' = FALSE
          /\ IF prov.active
             THEN /\ prov' = [prov EXCEPT !.cancel = TRUE] /\ netPc' = Head(netQueue).id
                  /\ UNCHANGED <<netReplies, online, wifiVars, netFailures>>
             ELSE QuiesceWifi(Head(netQueue).id) /\ UNCHANGED <<prov, netPc>>
          /\ UNCHANGED <<retries, strayed>>
    /\ UNCHANGED NetOthers

\* StopProvisioningMode returns: the session has ended, or the wait for it has.
SessionStopped ==
    /\ netPc # 0 /\ netPc' = 0
    /\ \/ prov.stopped /\ QuiesceWifi(netPc)
       \/ NetReply(netPc, FALSE) /\ UNCHANGED <<online, wifiVars, netFailures>>
    /\ UNCHANGED <<netQueue, leaseVars, timer, retries, resume, prov, strayed, NetOthers>>

\* wifi_manager's RollbackConnectivityAfterSleepAbort
ResumeWifi ==
    /\ wifi' = [wifi EXCEPT !.quiescing = FALSE, !.resume = FALSE]
    /\ IF wifi.resume /\ wifi.initialized THEN \E ok \in BOOLEAN : EspStart(ok)
       ELSE UNCHANGED <<radio, events, netFailures>>

\* RollbackAfterSleepAbort, whether or not a prepare came before it.
NetRollback ==
    /\ NetTake("rollback") /\ ResumeWifi
    /\ resume' = FALSE /\ strayed' = (strayed \/ netState # "quiescing")
    /\ CASE resume /\ CanHold -> BeginProvisioning /\ NetAnswer(netState' = "provisioning")
         [] ~resume /\ wifi.connected ->
               /\ online' = TRUE /\ SetState("online", netLease) /\ NetAnswer(TRUE)
               /\ UNCHANGED <<timer, retries, prov>>
         [] ~resume /\ ~wifi.connected /\ wifi.initialized /\ CanHold ->
               /\ online' = FALSE /\ EnterConnecting /\ retries' = 0 /\ NetAnswer(TRUE)
               /\ UNCHANGED prov
         [] ~resume /\ ~wifi.connected /\ ~wifi.initialized ->
               /\ SetState("off", FALSE) /\ NetAnswer(TRUE)
               /\ UNCHANGED <<online, timer, retries, prov>>
         [] OTHER -> NetAnswer(FALSE) /\ UNCHANGED <<leaseVars, online, timer, retries, prov>>
    /\ UNCHANGED <<netPc, NetOthers>>

\* HandleScheduledAction, with no command in the queue
TimerExpires == netPc = 0 /\ netQueue = <<>> /\ timer /\ CanHold /\ Len(events) < MaxEvents

\* A fast retry, and ScheduleBackoff after the last one
Retry ==
    /\ TimerExpires /\ netState = "connecting"
    /\ timer' = TRUE
    /\ IF retries + 1 < RetryLimit
       THEN /\ SetState(netState, TRUE) /\ retries' = retries + 1 /\ Connect
            /\ UNCHANGED <<online, wifi, events, netFailures>>
       ELSE /\ SetState("backoff", TRUE) /\ retries' = 0 /\ online' = FALSE
            /\ StopWifiStationRadio
    /\ UNCHANGED <<netQueue, netReplies, netPc, resume, prov, strayed, NetOthers>>

\* The lease of an attempt that failed is kept until the next one.
BackoffEnds ==
    /\ TimerExpires /\ netState = "backoff"
    /\ \E result \in {"ok", "none", "error"} :
          /\ IF wifi.initialized
             THEN result # "none" /\ StartWifiStationRadio(result = "ok")
             ELSE StartStation(result)
          /\ CASE result = "none" -> BeginProvisioning
               [] result = "ok" -> EnterConnecting /\ retries' = 0 /\ UNCHANGED <<online, prov>>
               [] OTHER -> netLease' = TRUE /\ UNCHANGED <<netState, online, timer, retries, prov>>
    /\ UNCHANGED <<netQueue, netReplies, netPc, resume, strayed, NetOthers>>

NetOwner ==
    \/ HandleStart \/ HandleProvisioned \/ HandleWifiStarted \/ HandleWifiConnected
    \/ HandleWifiDisconnected \/ NetPrepare \/ SessionStopped \/ NetRollback
    \/ Retry \/ BackoffEnds

--------------------------------------------------------------------------------
(* Provisioning task *)

ProvisionOnly ==
    UNCHANGED <<netCallVars, netPc, serviceVars, wifiVars, sleepVars, unanswered, strayed>>

\* PostAsyncCommand
Post(type) ==
    IF Len(netQueue) < NetQueueDepth
    THEN netQueue' = Append(netQueue, [type |-> type, id |-> 0]) /\ UNCHANGED dropped
    ELSE dropped' = TRUE /\ UNCHANGED netQueue

PortalStarts ==
    /\ prov.at = "opening"
    /\ \E ok \in BOOLEAN :
          /\ NetMayFail(ok)
          /\ prov' = [prov EXCEPT !.at = IF ok THEN "open" ELSE "ending"]
          /\ outcome' = IF ok THEN outcome ELSE "failed"
    /\ ProvisionOnly /\ UNCHANGED <<known, dropped>>

\* The callbacks of the portal: credentials are saved, the page is left.
UserActs ==
    /\ prov.at = "open"
    /\ \/ ~prov.saved /\ prov' = [prov EXCEPT !.saved = TRUE] /\ known' = TRUE
       \/ ~prov.exit /\ prov' = [prov EXCEPT !.exit = TRUE] /\ UNCHANGED known
    /\ ProvisionOnly /\ UNCHANGED <<outcome, dropped, netFailures>>

PortalStops ==
    /\ prov.at = "open" /\ (prov.exit \/ prov.cancel)
    /\ \E ok \in BOOLEAN :
          /\ NetMayFail(ok)
          /\ IF ok /\ ~prov.cancel /\ prov.saved
             THEN prov' = [prov EXCEPT !.at = "told"] /\ outcome' = "connected"
             ELSE /\ prov' = [prov EXCEPT !.at = "ending"]
                  /\ outcome' = IF prov.cancel THEN "idle" ELSE "failed"
    /\ ProvisionOnly /\ UNCHANGED <<known, dropped>>

\* The service is told before the session ends.
TellDone ==
    /\ prov.at = "told" /\ Post("provisioned") /\ prov' = [prov EXCEPT !.at = "ending"]
    /\ UNCHANGED <<netReplies, netCaller, netSent, netRequests, netPc, serviceVars, wifiVars,
                   outcome, known, sleepVars, unanswered, strayed, netFailures>>

\* PublishStopped, under g_prov_mutex
PublishStopped ==
    /\ prov.at = "ending"
    /\ prov' = [prov EXCEPT !.at = "idle", !.lease = FALSE, !.active = FALSE, !.stopped = TRUE]
    /\ ProvisionOnly /\ UNCHANGED <<outcome, known, dropped, netFailures>>

Provisioning == PortalStarts \/ UserActs \/ PortalStops \/ TellDone \/ PublishStopped

--------------------------------------------------------------------------------
(* The event task and the air *)

\* WifiEventHandler notes the link, then posts.
WifiEvent ==
    /\ events # <<>> /\ events' = Tail(events)
    /\ wifi' = CASE Head(events) = "gotip" -> [wifi EXCEPT !.connected = TRUE]
                 [] Head(events) = "lost" -> [wifi EXCEPT !.connected = FALSE]
                 [] OTHER -> wifi
    /\ Post(Head(events))
    /\ UNCHANGED <<netReplies, netCaller, netSent, netRequests, netPc, serviceVars, radio,
                   provVars, sleepVars, unanswered, strayed, netFailures>>

Link ==
    /\ Len(events) < MaxEvents
    /\ \/ radio = "joining" /\ radio' = "joined" /\ events' = Append(events, "gotip")
       \/ radio \in {"joining", "joined"} /\ radio' = "started" /\ events' = Append(events, "lost")
    /\ UNCHANGED <<netCallVars, netPc, serviceVars, wifi, provVars, sleepVars, netHistory>>

NetCalls == NetClientCall \/ NetPowerCall \/ NetTakeReply \/ NetGiveUp \/ NeverSent
NetPower == NetBeginSleep \/ NetAbortSleep \/ CommitSleep

NetNext ==
    /\ netSleep.at # "off"
    /\ NetCalls \/ NetPower \/ NetOwner \/ Provisioning \/ WifiEvent \/ Link

NetSpec == NetInit /\ [][NetNext]_netVars

--------------------------------------------------------------------------------
(* Properties *)

Queued(type) == \E i \in DOMAIN netQueue : netQueue[i].type = type

\* A service that answered that it is ready stays quiet until the rollback is
\* executed: no radio, no portal, no lease, and no client is told it is online,
\* whatever calls that were given up, Wi-Fi events and results of a session are
\* still in the queue.
QuietOnceReady ==
    netSleep.at = "ready" =>
        /\ netState = "quiescing" /\ ~online /\ ~netLease /\ ~timer
        /\ radio = "down" /\ prov.at \notin {"opening", "open"}

\* Nothing tells of the link any more that the service has not heard.
Heard == events = <<>> /\ ~dropped /\ ~\E t \in {"gotip", "lost"} : Queued(t)

\* Once every event is heard g_online is the link: never true of a station that
\* is not joined, and false of a joined one only while sleep is prepared or a
\* provisioning session has the user.
OnlineTracksLink ==
    Heard =>
        /\ online => radio = "joined" /\ wifi.connected
        /\ radio = "joined" => online \/ netState \in {"quiescing", "provisioning"}

\* Whatever state the service waits in, something will move it.
WaitsForSomething ==
    /\ netState \in {"connecting", "backoff"} => timer
    /\ netState = "quiescing" /\ netSleep.at = "up" => Queued("rollback") \/ unanswered
    /\ netState = "provisioning" =>
          prov.active \/ Queued("provisioned") \/ outcome # "connected" \/ dropped \/ strayed

\* The lease covers a connection attempt, and is held in no state that sleep
\* may interrupt, a failed restart of the radio apart.
LeaseMatchesState ==
    /\ netState = "connecting" => netLease
    /\ netLease => netState \in Leased \/ (netState = "backoff" /\ netFailures > 0)

\* A timer that no state waits for makes the task spin once it has expired: it
\* is left so by a rollback with no prepare, or by a call that meets a session.
TimerMatchesState == timer => netState \in {"connecting", "backoff"} \/ strayed

\* The state of the service, its timer, its lease and the sessions and calls it
\* waits for fit together between any two steps of the owner, and with the link.
StateAccounted ==
    WaitsForSomething /\ LeaseMatchesState /\ TimerMatchesState /\ OnlineTracksLink

\* A service that answered ready stays quiet until it is rolled back, and state,
\* timer, lease, sessions, calls and link fit together.
ConnectivitySound == QuietOnceReady /\ StateAccounted
================================================================================
