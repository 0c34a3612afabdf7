------------------------------ MODULE AudioService ------------------------------
(***************************************************************************)
(* main/services/audio_service.cpp: one task owns the codec rail, the      *)
(* amplifier and the audio session.  AudioClients reach it by calls through a   *)
(* queue, with a deadline; their driver operations run in their own tasks, *)
(* counted so that the owner can drain them.                               *)
(*                                                                         *)
(* A client that talks to the driver is one thread, which registers and    *)
(* closes its resources; the workers use them beside it.  Deadlines pass   *)
(* whenever they are waited for.  Codec and channel slots are alike.       *)
(***************************************************************************)
EXTENDS Naturals, Sequences, FiniteSets

CONSTANTS AudioClients,   \* tasks that hold a session: capture, player, Flash
          Workers,        \* tasks that use its resources
          AudioSlots,     \* resource slots
          ReplyDepth,     \* kReplyQueueDepth
          MaxRequests,    \* bound: calls sent
          MaxGeneration,  \* bound: sleep transactions
          AudioFailures   \* bound: GPIO writes and driver removals that fail

None == "none"
Power == "power"
Callers == AudioClients \cup {Power}
Actors == AudioClients \cup Workers

\* The constants are finite, and their parts apart.
ASSUME ConstantsAssumption ==
    /\ AudioClients \cap Workers = {} /\ {Power, None} \cap Actors = {}
    /\ IsFiniteSet(AudioClients) /\ IsFiniteSet(Workers)
    /\ {ReplyDepth, MaxRequests, MaxGeneration, AudioFailures} \subseteq Nat

VARIABLES
    \* calls
    queue,      \* g_command_queue
    replies,    \* g_reply_queue
    caller,     \* the holder of g_call_mutex
    sent,       \* the command it waits for
    audioRequests,   \* g_next_request_id - 1
    token,      \* the session each client holds, 0 for none
    \* owner task
    audioPc, command,
    state,      \* g_state: "idle", "active", "quiescing"
    session,    \* g_session_id
    sessions,   \* g_next_session_id - 1
    accept,     \* g_accept_operations
    audioLease,      \* g_audio_lease is held
    codec,      \* g_codec_powered
    amp,        \* g_amplifier_enabled
    prepared,   \* g_prepared_generation, mode and g_prepared_previous_state
    \* driver operations
    lock,       \* who is inside g_resource_lock between two of its steps
    driverOp,         \* the operation of each actor
    inflight,   \* g_inflight_operations
    slots,      \* g_codec_slots, g_channel_slots
    \* power coordinator
    sleep,      \* its transaction
    \* history
    maker,      \* whose request made each session
    late,       \* sessions whose End had no answer in time
    lost,       \* a rollback was never sent
    audioFailures

callVars == <<queue, replies, caller, sent, audioRequests>>
ownerVars == <<audioPc, command>>
activityVars == <<state, session, sessions, accept, audioLease>>
railVars == <<codec, amp, prepared>>
operationVars == <<lock, driverOp, inflight, slots>>
clientHistory == <<maker, late, lost, audioFailures>>
audioVars == <<callVars, token, ownerVars, activityVars, railVars, operationVars, sleep,
               clientHistory>>

NoCommand == [id |-> 0, type |-> None, from |-> None, session |-> 0, gen |-> 0, forced |-> FALSE]
NoOp == [at |-> "out", kind |-> None, session |-> 0, slot |-> 0]
Empty == [owner |-> 0, inflight |-> 0, closing |-> FALSE]
NotPrepared == [gen |-> 0, forced |-> FALSE, previous |-> "idle"]

AudioInit ==
    /\ queue = <<>> /\ replies = <<>> /\ caller = None /\ sent = NoCommand /\ audioRequests = 0
    /\ token = [c \in AudioClients |-> 0]
    /\ audioPc = "wait" /\ command = NoCommand
    /\ state = "idle" /\ session = 0 /\ sessions = 0 /\ accept = FALSE /\ audioLease = FALSE
    /\ codec = TRUE /\ amp = FALSE /\ prepared = NotPrepared
    /\ lock = None /\ driverOp = [a \in Actors |-> NoOp] /\ inflight = 0
    /\ slots = [s \in AudioSlots |-> Empty]
    /\ sleep = [at |-> "awake", gen |-> 0, forced |-> FALSE]
    /\ maker = <<>> /\ late = {} /\ lost = FALSE /\ audioFailures = 0

--------------------------------------------------------------------------------
(* Calls *)

\* Call: under the mutex late replies are drained, then the command is sent.
Send(p, type, s) ==
    /\ caller = None /\ audioRequests < MaxRequests
    /\ audioRequests' = audioRequests + 1 /\ caller' = p
    /\ sent' = [id |-> audioRequests', type |-> type, from |-> p, session |-> s,
                gen |-> IF p = Power THEN sleep.gen ELSE 0,
                forced |-> p = Power /\ sleep.forced]
    /\ queue' = Append(queue, sent') /\ replies' = <<>>
    /\ UNCHANGED <<ownerVars, activityVars, railVars, operationVars, clientHistory>>

\* BeginAudioActivity, EndAudioActivity, SetAudioAmplifier, RecoverAudioCodec
ClientCall(c) ==
    /\ driverOp[c] = NoOp
    /\ \/ token[c] = 0 /\ Send(c, "begin", 0)
       \/ token[c] # 0 /\ \E type \in {"end", "amp", "recover"} : Send(c, type, token[c])
    /\ UNCHANGED <<token, sleep>>

\* PrepareAudioServiceForSleep, RollbackAudioServiceAfterSleepAbort
PowerCall ==
    /\ \/ sleep.at = "prepare" /\ Send(Power, "prepare", 0)
       \/ sleep.at = "rollback" /\ Send(Power, "rollback", 0)
    /\ UNCHANGED <<token, sleep>>

\* What the caller makes of the end of its call.
Conclude(ok, made) ==
    /\ caller' = None /\ sent' = NoCommand
    /\ token' = IF ~ok \/ sent.type \notin {"begin", "end"} THEN token
                ELSE [token EXCEPT ![caller] = made]
    /\ sleep' = IF caller # Power THEN sleep
                ELSE [sleep EXCEPT !.at = IF sent.type = "rollback" THEN "awake"
                                          ELSE IF ok THEN "ready" ELSE "rollback"]
    /\ UNCHANGED <<queue, audioRequests, ownerVars, activityVars, railVars, operationVars, maker,
                   lost, audioFailures>>

\* Mutant of Matches: any reply ends the call.
MatchesAny(r) == TRUE

Matches(r) == r.id = sent.id

\* A reply to another request is discarded.
TakeReply ==
    /\ caller # None /\ replies # <<>>
    /\ replies' = Tail(replies)
    /\ IF Matches(Head(replies))
       THEN Conclude(Head(replies).ok, Head(replies).session)
       ELSE UNCHANGED <<queue, caller, sent, audioRequests, token, ownerVars, activityVars,
                        railVars, operationVars, sleep, maker, lost, audioFailures>>
    /\ UNCHANGED late

GiveUp ==
    /\ caller # None /\ Conclude(FALSE, 0)
    /\ late' = IF sent.type = "end" THEN late \cup {sent.session} ELSE late
    /\ UNCHANGED replies

\* The mutex is not free before the deadline of the rollback.
LoseRollback ==
    /\ sleep.at = "rollback" /\ caller \in AudioClients
    /\ sleep' = [sleep EXCEPT !.at = "awake"] /\ lost' = TRUE
    /\ UNCHANGED <<callVars, token, ownerVars, activityVars, railVars, operationVars, maker, late,
                   audioFailures>>

--------------------------------------------------------------------------------
(* Power coordinator, as far as it reaches this service *)

\* An idle sleep finds no lease and closes the gate, an emergency does not ask.
BeginSleep ==
    /\ sleep.at = "awake" /\ sleep.gen < MaxGeneration
    /\ \E forced \in BOOLEAN :
          /\ forced \/ ~audioLease
          /\ sleep' = [at |-> "prepare", gen |-> sleep.gen + 1, forced |-> forced]
    /\ UNCHANGED <<callVars, token, ownerVars, activityVars, railVars, operationVars,
                   clientHistory>>

AbortSleep ==
    /\ sleep.at = "ready" /\ sleep' = [sleep EXCEPT !.at = "rollback"]
    /\ UNCHANGED <<callVars, token, ownerVars, activityVars, railVars, operationVars,
                   clientHistory>>

GateOpen == sleep.at \in {"awake", "rollback"}

--------------------------------------------------------------------------------
(* Owner task *)

\* A reply that finds the queue full is dropped.
Reply(to, ok, made) ==
    replies' = IF Len(replies) < ReplyDepth
               THEN Append(replies, [id |-> to.id, ok |-> ok, session |-> made]) ELSE replies

Take(type) == audioPc = "wait" /\ queue # <<>> /\ Head(queue).type = type /\ queue' = Tail(queue)

Answer(cmd, ok, made) ==
    /\ Reply(cmd, ok, made) /\ audioPc' = "wait" /\ command' = NoCommand

\* What no command of the owner touches.
Others == <<caller, sent, audioRequests, token, lock, driverOp, inflight, slots, sleep, late, lost>>

MayFail(ok) ==
    /\ ok \/ audioFailures < AudioFailures
    /\ audioFailures' = IF ok THEN audioFailures ELSE audioFailures + 1

HandleBegin ==
    /\ Take("begin")
    /\ IF state = "idle" /\ GateOpen
       THEN /\ sessions' = sessions + 1 /\ session' = sessions'
            /\ state' = "active" /\ accept' = TRUE /\ audioLease' = TRUE
            /\ maker' = Append(maker, Head(queue).from)
            /\ Answer(Head(queue), TRUE, sessions')
       ELSE Answer(Head(queue), FALSE, 0) /\ UNCHANGED <<activityVars, maker>>
    /\ UNCHANGED <<Others, railVars, audioFailures>>

\* EndActivity of the session that is active; operations are refused at once.
HandleEnd ==
    /\ Take("end")
    /\ IF Head(queue).session = session
       THEN accept' = FALSE /\ audioPc' = "endDrain" /\ command' = Head(queue) /\ UNCHANGED replies
       ELSE Answer(Head(queue), FALSE, 0) /\ UNCHANGED accept
    /\ UNCHANGED <<Others, state, session, sessions, audioLease, railVars, maker, audioFailures>>

EndDrained ==
    /\ audioPc = "endDrain" /\ inflight = 0 /\ audioPc' = "endCheck"
    /\ UNCHANGED <<Others, queue, replies, command, activityVars, railVars, maker, audioFailures>>

EndDenied ==
    /\ accept' = TRUE /\ Answer(command, FALSE, 0)
    /\ UNCHANGED <<state, session, sessions, audioLease, amp>>

EndTimesOut ==
    /\ audioPc = "endDrain" /\ inflight # 0
    /\ EndDenied
    /\ UNCHANGED <<Others, queue, codec, prepared, maker, audioFailures>>

\* Mutant of HasRegisteredResources: an idle resource does not count.
HasBusyResources(s) == \E i \in AudioSlots : slots[i].owner = s /\ slots[i].inflight > 0

HasRegisteredResources(s) == \E i \in AudioSlots : slots[i].owner = s

\* Mutant of EndActivity: the slots are looked at without the lock.
EndUnlocked ==
    /\ audioPc = "endCheck"
    /\ IF HasRegisteredResources(session)
       THEN EndDenied
       ELSE /\ amp' = FALSE /\ session' = 0 /\ state' = "idle" /\ audioLease' = FALSE
            /\ Answer(command, TRUE, 0) /\ UNCHANGED <<accept, sessions>>
    /\ UNCHANGED <<Others, queue, codec, prepared, maker, audioFailures>>

\* The slots are looked at under the lock, then the amplifier goes off.
EndActivity ==
    /\ audioPc = "endCheck" /\ lock = None
    /\ IF HasRegisteredResources(session)
       THEN EndDenied /\ UNCHANGED audioFailures
       ELSE \E ok \in BOOLEAN :
              /\ MayFail(ok)
              /\ IF ok
                 THEN /\ amp' = FALSE /\ session' = 0 /\ state' = "idle" /\ audioLease' = FALSE
                      /\ Answer(command, TRUE, 0) /\ UNCHANGED <<accept, sessions>>
                 ELSE EndDenied
    /\ UNCHANGED <<Others, queue, codec, prepared, maker>>

\* kSetAmplifier and the check of RecoverCodecPower
SessionServed(cmd) == cmd.session = session /\ accept /\ state = "active"

HandleAmplifier ==
    /\ Take("amp")
    /\ \E enabled, ok \in BOOLEAN :
          /\ IF SessionServed(Head(queue))
             THEN MayFail(ok) /\ amp' = IF ok THEN enabled ELSE amp
             ELSE ok = FALSE /\ UNCHANGED <<amp, audioFailures>>
          /\ Answer(Head(queue), ok, 0)
    /\ UNCHANGED <<Others, activityVars, codec, prepared, maker>>

\* RecoverCodecPower: the rail goes down and up while nothing is registered.
HandleRecover ==
    /\ Take("recover") /\ lock = None
    /\ IF SessionServed(Head(queue)) /\ ~HasRegisteredResources(session)
       THEN \E ok \in BOOLEAN :
              /\ MayFail(ok)
              /\ IF ok
                 THEN /\ amp' = FALSE /\ codec' = FALSE
                      /\ audioPc' = "recover" /\ command' = Head(queue) /\ UNCHANGED replies
                 ELSE Answer(Head(queue), FALSE, 0) /\ UNCHANGED <<amp, codec>>
       ELSE Answer(Head(queue), FALSE, 0) /\ UNCHANGED <<amp, codec, audioFailures>>
    /\ UNCHANGED <<Others, activityVars, prepared, maker>>

RecoverCodec ==
    /\ audioPc = "recover"
    /\ \E ok \in BOOLEAN : MayFail(ok) /\ codec' = ok /\ Answer(command, ok, 0)
    /\ UNCHANGED <<Others, queue, activityVars, amp, prepared, maker>>

\* PrepareForSleep
HandlePrepare ==
    /\ Take("prepare")
    /\ LET cmd == Head(queue)
       IN  \/ /\ state = "quiescing" /\ Answer(cmd, prepared.gen = cmd.gen, 0)
              /\ UNCHANGED accept
           \/ /\ state # "quiescing" /\ (cmd.forced \/ state = "idle")
              /\ accept' = FALSE /\ audioPc' = "sleepDrain" /\ command' = cmd /\ UNCHANGED replies
           \/ /\ ~cmd.forced                          \* busy, or its deadline has passed
              /\ Answer(cmd, FALSE, 0) /\ UNCHANGED accept
    /\ UNCHANGED <<Others, state, session, sessions, audioLease, railVars, maker, audioFailures>>

PrepareFails ==
    /\ accept' = (state # "idle") /\ Answer(command, FALSE, 0)
    /\ UNCHANGED <<state, session, sessions, audioLease>>

\* Mutant of SleepDrained: the deadline of the drain ends it as it does for an emergency.
SleepDrainedOrLate ==
    /\ audioPc = "sleepDrain" /\ audioPc' = "cut"
    /\ UNCHANGED <<Others, queue, replies, command, activityVars, railVars, maker, audioFailures>>

\* An emergency does not wait for the operations beyond its deadline.
SleepDrained ==
    /\ audioPc = "sleepDrain" /\ (inflight = 0 \/ command.forced) /\ audioPc' = "cut"
    /\ UNCHANGED <<Others, queue, replies, command, activityVars, railVars, maker, audioFailures>>

SleepDrainTimesOut ==
    /\ audioPc = "sleepDrain" /\ inflight # 0 /\ ~command.forced
    /\ PrepareFails
    /\ UNCHANGED <<Others, queue, railVars, maker, audioFailures>>

\* Mutant of PrepareForSleep: the generation is not kept for the rollback.
PrepareForgets ==
    /\ audioPc = "cut"
    /\ amp' = FALSE /\ codec' = FALSE /\ state' = "quiescing"
    /\ prepared' = [gen |-> 0, forced |-> command.forced, previous |-> state]
    /\ Answer(command, TRUE, 0)
    /\ UNCHANGED <<Others, queue, session, sessions, accept, audioLease, maker, audioFailures>>

PrepareForSleep ==
    /\ audioPc = "cut"
    /\ \E ok \in BOOLEAN :
          /\ MayFail(ok)
          /\ IF ok
             THEN /\ amp' = FALSE /\ codec' = FALSE /\ state' = "quiescing"
                  /\ prepared' = [gen |-> command.gen, forced |-> command.forced,
                                  previous |-> state]
                  /\ Answer(command, TRUE, 0)
                  /\ UNCHANGED <<session, sessions, accept, audioLease>>
             ELSE PrepareFails /\ UNCHANGED <<codec, prepared>> /\ amp' \in {amp, FALSE}
    /\ UNCHANGED <<Others, queue, maker>>

\* RollbackSleep: only the generation that was prepared is undone; a codec that
\* does not come back leaves the service as it is.
HandleRollback ==
    /\ Take("rollback")
    /\ IF state # "quiescing"
       THEN Answer(Head(queue), TRUE, 0) /\ UNCHANGED <<state, accept, railVars, audioFailures>>
       ELSE IF prepared.gen # Head(queue).gen
       THEN Answer(Head(queue), FALSE, 0) /\ UNCHANGED <<state, accept, railVars, audioFailures>>
       ELSE \E ok \in BOOLEAN :
              /\ MayFail(ok)
              /\ Answer(Head(queue), ok, 0)
              /\ IF ok
                 THEN /\ codec' = TRUE /\ amp' = FALSE /\ prepared' = NotPrepared
                      /\ state' = prepared.previous /\ accept' = (prepared.previous # "idle")
                 ELSE codec' \in BOOLEAN /\ UNCHANGED <<state, accept, amp, prepared>>
    /\ UNCHANGED <<Others, session, sessions, audioLease, maker>>

--------------------------------------------------------------------------------
(* Driver operations *)

OwnerIdleVars == <<callVars, token, ownerVars, activityVars, railVars, sleep, maker, late, lost>>

\* The resource a session operation needs: none, one to use, or one to close.
Eligible(kind, s, i) ==
    IF kind = "register" THEN i = 0
    ELSE i \in AudioSlots /\ slots[i].owner = s /\ ~slots[i].closing

\* The check of DriverOperation and of BeginCloseResource, inside the lock.
Admitted(s) == accept /\ s # 0 /\ s = session /\ state = "active"

Check(a, c, kind, i) ==
    /\ driverOp[a] = NoOp /\ lock = None
    /\ Admitted(token[c]) /\ Eligible(kind, token[c], i)
    /\ driverOp' = [driverOp EXCEPT ![a] =
           [at |-> "counting", kind |-> kind, session |-> token[c], slot |-> i]]
    /\ lock' = a
    /\ UNCHANGED <<OwnerIdleVars, inflight, slots, audioFailures>>

Start ==
    \/ \E c \in AudioClients, kind \in {"register", "close"}, i \in AudioSlots \cup {0} :
          caller # c /\ Check(c, c, kind, i)
    \/ \E w \in Workers, c \in AudioClients, i \in AudioSlots : Check(w, c, "use", i)

\* The count, and the mark on the slot, still inside it.
Enter(a) ==
    /\ driverOp[a].at = "counting"
    /\ driverOp' = [driverOp EXCEPT ![a].at = "io"] /\ lock' = None
    /\ inflight' = inflight + 1
    /\ slots' = CASE driverOp[a].kind = "use" -> [slots EXCEPT ![driverOp[a].slot].inflight = @ + 1]
                  [] driverOp[a].kind = "close" -> [slots EXCEPT ![driverOp[a].slot].closing = TRUE]
                  [] OTHER -> slots
    /\ UNCHANGED <<OwnerIdleVars, audioFailures>>

\* Mutant of Leave: the count is left as it is.
LeaveCounted(a) == driverOp' = [driverOp EXCEPT ![a] = NoOp] /\ UNCHANGED <<inflight, lock>>

Leave(a) == driverOp' = [driverOp EXCEPT ![a] = NoOp] /\ inflight' = inflight - 1 /\ UNCHANGED lock

\* ~DriverOperation of an operation on a resource
Use(a) ==
    /\ driverOp[a].at = "io" /\ driverOp[a].kind = "use" /\ lock = None
    /\ slots' = [slots EXCEPT ![driverOp[a].slot].inflight = @ - 1] /\ Leave(a)
    /\ UNCHANGED <<OwnerIdleVars, audioFailures>>

\* RegisterResource at the end of an AddAudioCodec or CreateAudio...Channel; a
\* resource that gets no slot is deleted again.
RegisterResource(a) ==
    /\ driverOp[a].at = "io" /\ driverOp[a].kind = "register" /\ lock = None
    /\ LET free == {i \in AudioSlots : slots[i] = Empty}
       IN  IF Admitted(driverOp[a].session) /\ free # {}
           THEN slots' = [slots EXCEPT ![CHOOSE i \in free : TRUE].owner = driverOp[a].session]
           ELSE UNCHANGED slots
    /\ Leave(a)
    /\ UNCHANGED <<OwnerIdleVars, audioFailures>>

\* Mutant of CloseResource: the operations on the slot are not drained.
CloseUndrained(a) ==
    /\ driverOp[a].at = "io" /\ driverOp[a].kind = "close" /\ lock = None
    /\ slots' = [slots EXCEPT ![driverOp[a].slot] = Empty] /\ Leave(a)
    /\ UNCHANGED <<OwnerIdleVars, audioFailures>>

\* WaitForResourceDrain and FinishCloseResource; a slot that does not drain, or
\* a driver that fails, keeps the resource.
CloseResource(a) ==
    /\ driverOp[a].at = "io" /\ driverOp[a].kind = "close" /\ lock = None
    /\ \E ok \in BOOLEAN :
          /\ ok => slots[driverOp[a].slot].inflight = 0
          /\ IF slots[driverOp[a].slot].inflight = 0 THEN MayFail(ok) ELSE UNCHANGED audioFailures
          /\ slots' = IF ok THEN [slots EXCEPT ![driverOp[a].slot] = Empty]
                      ELSE [slots EXCEPT ![driverOp[a].slot].closing = FALSE]
    /\ Leave(a)
    /\ UNCHANGED OwnerIdleVars

--------------------------------------------------------------------------------
Caller == (\E c \in AudioClients : ClientCall(c)) \/ PowerCall \/ TakeReply \/ GiveUp \/ LoseRollback

Owner ==
    \/ HandleBegin \/ HandleEnd \/ EndDrained \/ EndTimesOut \/ EndActivity
    \/ HandleAmplifier \/ HandleRecover \/ RecoverCodec
    \/ HandlePrepare \/ SleepDrained \/ SleepDrainTimesOut \/ PrepareForSleep \/ HandleRollback

Driver ==
    Start \/ \E a \in Actors : Enter(a) \/ Use(a) \/ RegisterResource(a) \/ CloseResource(a)

AudioNext == Caller \/ BeginSleep \/ AbortSleep \/ Owner \/ Driver

AudioSpec == AudioInit /\ [][AudioNext]_audioVars

--------------------------------------------------------------------------------
(* Properties *)

InIo == {a \in Actors : driverOp[a].at = "io"}

\* Every field stays in its range, and the count the owner drains is the number
\* of operations under way.
AudioTyped ==
    /\ state \in {"idle", "active", "quiescing"}
    /\ {session, sessions} \subseteq 0..MaxRequests /\ Len(replies) <= ReplyDepth
    /\ caller = None <=> sent = NoCommand
    /\ audioPc = "wait" <=> command = NoCommand
    /\ inflight = Cardinality(InIo)
    /\ \A i \in AudioSlots : slots[i].inflight =
           Cardinality({a \in InIo : driverOp[a].slot = i /\ driverOp[a].kind = "use"})

\* No operation is on a resource that was removed, or that another session has
\* got since.
NoUseAfterClose ==
    \A a \in InIo :
        driverOp[a].kind # "register" => slots[driverOp[a].slot].owner = driverOp[a].session

\* Resources do not outlive their session, and the lease that keeps the device
\* awake covers it.
ResourcesCovered ==
    /\ \A i \in AudioSlots : slots[i].owner \in {0, session}
    /\ session # 0 <=> audioLease

\* No driver operation runs on the rail that an idle sleep has cut, not even one
\* that passed its check while its session was ended.
NoIoOnCutRail == state = "quiescing" /\ ~prepared.forced => InIo = {}

\* The owner of the rail, its sessions, its slots and the operations on them fit
\* together: exact counts, no operation on what was removed, nothing without a
\* session, a lease and a rail under it.
ResourcesSound == AudioTyped /\ NoUseAfterClose /\ ResourcesCovered /\ NoIoOnCutRail

\* The session a client is told of is the one made for its own request.
TokenIsOwn == \A c \in AudioClients : token[c] # 0 => maker[token[c]] = c

\* A client whose End was answered in time never holds a session that is over.
TokenGoesStaleOnlyLate ==
    \A c \in AudioClients : token[c] \notin {0, session} =>
        token[c] \in late \/ (caller = c /\ sent.type = "end")

\* After a transaction the service is back, unless a rail did not come back or
\* the rollback was never sent.
RollbackRestoresService ==
    sleep.at = "awake" /\ queue = <<>> /\ audioPc = "wait" /\ state = "quiescing" =>
        lost \/ audioFailures > 0

\* What clients hold is true, late replies and late deadlines included, and a sleep
\* transaction that is given up gives them their service back.
ClientsServed == TokenIsOwn /\ TokenGoesStaleOnlyLate /\ RollbackRestoresService
================================================================================
