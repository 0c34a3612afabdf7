------------------------- MODULE PowerCoordinatorProofs -------------------------
(***************************************************************************)
(* Proofs about the deep-sleep transaction, for any keys, any capacity of  *)
(* the ring and any number of activities and sleep generations.            *)
(*                                                                         *)
(* Three arguments run through one invariant.  Inputs: the idle check saw  *)
(* no input under way, and every later one moves the activity away from    *)
(* the sampled baseline before it can reach the ring (Inputs, Calm).       *)
(* Services: a reply of this generation is the last thing its service did, *)
(* so a service that said yes is quiesced with an empty queue (Called,     *)
(* Prepared).  Rollback: whatever was or will be prepared has its rollback *)
(* behind it, in the queue or in the part of the transaction that is still *)
(* to come, or its rollback is one that was never sent (Undone).           *)
(***************************************************************************)
EXTENDS PowerCoordinator, TLAPS

CommandType == [kind : {"none", "prepare", "rollback"}, gen : Nat]
ReplyType == [kind : {"none", "prepare", "rollback"}, gen : Nat, ok : BOOLEAN]
SnapshotType == [mode : {"none", "idle", "emergency"}, gen : Nat, cycles : Nat]
RtcType == [snapshot : SnapshotType, cycles : 0..MaxGeneration]
AttemptType == [gen : Nat, baseline : 0..MaxActivity + 1, mode : {"idle", "emergency"},
                ready : BOOLEAN, then : {"rest", "emergency"}]

\* Where the power task is: between two attempts, in the broadcast, on the way to the
\* commit, in a rollback whose gate is open again, in the emergency shutdown.
Free == {"rest", "sampled", "checked", "begin", "emergency"}
Broadcast == {"display", "storage", "audio", "connectivity", "prepared"}
Committing == {"arm", "armed", "hold", "count", "snapshot", "commit"}
Undoing == {"undoConnectivity", "undoAudio", "restore"}
Ending == {"drain", "powerDown", "shutdown"}
Places == {"down", "closed", "uncount", "reopen"} \cup Free \cup Broadcast \cup Committing
             \cup Undoing \cup Ending

Typed ==
    /\ power \in {"awake", "asleep", "off"}
    /\ pc \in Places
    /\ rtc \in RtcType
    /\ attempt \in AttemptType
    /\ awaiting \in CommandType
    /\ reply \in ReplyType
    /\ nextGeneration \in Nat /\ prepared \in Nat
    /\ holders \subseteq {"ui"} /\ gate \in {"open", "idle", "emergency"}
    /\ service \in [Services -> {"active", "quiesced", "stuck"}]
    /\ queue \in [Services -> Seq(CommandType)]
    /\ stable \subseteq Keys /\ line \subseteq Keys
    /\ {armed, interacted, idle, acted, uiStarted, staged, request} \subseteq BOOLEAN
    /\ activity \in 0..MaxActivity + 1
    /\ hand \in {"none", "classified", "interacted", "published"}
    /\ ring \in 0..RingCapacity

\* No input between its publication and its write.
Quiet == hand # "published" /\ ring = 0 /\ ~staged

\* Before the power task may think the user idle, no input is under way.
Inputs ==
    /\ hand \in {"classified", "interacted"} => uiStarted /\ activity < MaxActivity
    /\ ~uiStarted => activity = 0 /\ hand = "none"
    /\ ~interacted => Quiet /\ hand # "interacted"
    /\ idle => Quiet

\* From the idle check to the commit: an input under way has moved the activity.
Calm ==
    /\ attempt.baseline <= activity
    /\ pc \in {"checked", "begin", "closed"} \cup Broadcast \cup Committing
          /\ attempt.mode = "idle" /\ Undisturbed => Quiet

\* The position of the gate and the kind of the attempt follow from the place.
Closure ==
    /\ gate = "idle" => holders = {}
    /\ pc \in {"down"} \cup Free \cup Undoing => gate = "open" /\ attempt.mode = "idle"
    /\ pc \in {"closed", "uncount", "reopen"} \cup Committing =>
          gate = "idle" /\ attempt.mode = "idle"
    /\ pc \in Broadcast => gate = attempt.mode
    /\ pc \in Ending => gate = "emergency" /\ attempt.mode = "emergency"

\* What the transaction has done to the hardware and to RTC memory by now.
Hardware ==
    /\ pc \in {"down"} \cup Free => display = "normal" /\ board = "normal"
    /\ pc \in {"down", "closed"} \cup Free \cup Undoing => ~armed
    /\ pc \in {"armed", "hold", "count", "snapshot", "commit"} => armed
    /\ pc \in {"count", "snapshot", "commit"} => board = "idle"
    /\ pc = "commit" => rtc.snapshot.mode = "idle" /\ rtc.snapshot.gen = attempt.gen
                          /\ rtc.snapshot.cycles <= attempt.gen
    /\ pc \in Free /\ attempt.gen > 0 => rtc.snapshot = NoSnapshot

\* Generations grow; those of idle sleeps stay in their bound.
Generations ==
    /\ attempt.gen < nextGeneration
    /\ pc \in Free => nextGeneration <= MaxGeneration + 1
    /\ pc \in {"checked", "begin"} => nextGeneration <= MaxGeneration
    /\ pc \notin Free /\ attempt.mode = "idle" =>
          nextGeneration <= MaxGeneration + 1 /\ attempt.gen <= MaxGeneration

\* A cycle is counted once in a generation, and not at all once the user has acted.
Cycles ==
    /\ pc # "down" => rtc.cycles < nextGeneration
    /\ pc \in {"closed", "drain", "arm", "armed", "hold", "count"} \cup Broadcast =>
          rtc.cycles < attempt.gen
    /\ pc = "snapshot" => rtc.cycles <= attempt.gen
    /\ acted /\ pc \notin {"snapshot", "commit", "uncount"} => rtc.cycles = 0

\* A boot finds the snapshot of the sleep it comes from, or empty RTC memory.
Booted ==
    pc = "down" =>
        /\ attempt = NoAttempt /\ nextGeneration = 1 /\ ~acted
        /\ IF rtc.snapshot = NoSnapshot
           THEN rtc.cycles = 0
           ELSE rtc.snapshot.gen <= MaxGeneration /\ rtc.snapshot.cycles <= rtc.snapshot.gen

\* The commands of a service belong to this generation or to an earlier one; before
\* its call, to an earlier one.
Older(s, g) == \A i \in 1..Len(queue[s]) : queue[s][i].gen < g

Uncalled(s) ==
    \/ pc \in {"closed", "drain", "display", "storage"}
    \/ s = "audio" /\ pc = "audio" /\ awaiting = NoCommand
    \/ s = "connectivity" /\ pc = "audio"
    \/ s = "connectivity" /\ pc = "connectivity" /\ awaiting = NoCommand

Fresh ==
    /\ prepared <= attempt.gen
    /\ \A s \in Services :
          /\ \A i \in 1..Len(queue[s]) : queue[s][i].gen <= attempt.gen
          /\ Uncalled(s) => Older(s, attempt.gen)
    /\ Uncalled("audio") => prepared < attempt.gen

\* The service is quiesced, under this generation, and has nothing left to do.
Down(s) ==
    /\ service[s] = "quiesced" /\ queue[s] = <<>>
    /\ s = "audio" => prepared = attempt.gen

\* The command of a call is the last of its queue, or it was answered after all others.
Called(s) ==
    /\ awaiting = [kind |-> "prepare", gen |-> attempt.gen]
    /\ \/ /\ queue[s] # <<>> /\ queue[s][Len(queue[s])] = awaiting
          /\ \A i \in 1..Len(queue[s]) - 1 : queue[s][i].gen < attempt.gen
          /\ ~Answers(reply, awaiting)
          /\ s = "audio" => prepared < attempt.gen
       \/ /\ queue[s] = <<>> /\ Answers(reply, awaiting)
          /\ reply.ok => Down(s)

Calls ==
    /\ awaiting = NoCommand => reply = NoReply
    /\ awaiting # NoCommand => pc \in DOMAIN Callee
    /\ \A s \in Services : pc = s /\ awaiting # NoCommand => Called(s)

\* A part that has said yes stays prepared until the attempt ends.
Prepared ==
    /\ pc \in Committing => attempt.ready
    /\ attempt.mode = "idle" /\ attempt.ready =>
          /\ pc \in {"storage", "audio", "connectivity", "prepared"} \cup Committing =>
                display = "prepared"
          /\ pc \in {"connectivity", "prepared"} \cup Committing => Down("audio")
          /\ pc \in {"prepared"} \cup Committing => Down("connectivity")

\* The rollback of a service is still to be sent.
RollbackAhead(s) ==
    \/ gate # "open"
    \/ pc = "undoConnectivity" /\ (s = "audio" \/ awaiting = NoCommand)
    \/ s = "audio" /\ pc = "undoAudio" /\ awaiting = NoCommand

\* Whatever was prepared, or is going to be, has its rollback behind it.
RollbackQueued(s, i) ==
    \E j \in i + 1..Len(queue[s]) :
        /\ queue[s][j].kind = "rollback"
        /\ s = "audio" => queue[s][j].gen = (IF i = 0 THEN prepared ELSE queue[s][i].gen)

\* The rollback that would undo it was never sent.
Lost(s, i) ==
    <<s, IF s # "audio" THEN attempt.gen ELSE IF i = 0 THEN prepared ELSE queue[s][i].gen>>
        \in unsent

Undone ==
    \A s \in Services :
        /\ service[s] = "quiesced" =>
              \/ RollbackAhead(s) /\ (s = "audio" => prepared = attempt.gen)
              \/ RollbackQueued(s, 0)
              \/ Lost(s, 0)
        /\ \A i \in 1..Len(queue[s]) : queue[s][i].kind = "prepare" =>
              \/ RollbackAhead(s) /\ (s = "audio" => queue[s][i].gen = attempt.gen)
              \/ RollbackQueued(s, i)
              \/ Lost(s, i)

\* The chip in idle sleep.
Asleep ==
    /\ Quiet /\ holders = {}
    /\ gate = "idle" /\ display = "prepared" /\ armed /\ board = "idle"
    /\ \A s \in Services : Down(s)
    /\ rtc.snapshot.mode = "idle" /\ rtc.snapshot.gen = attempt.gen
    /\ rtc.snapshot.gen <= MaxGeneration /\ rtc.snapshot.cycles <= rtc.snapshot.gen

Core == Calm /\ Closure /\ Hardware /\ Generations /\ Cycles /\ Booted
Serving == Fresh /\ Calls /\ Undone
Running == Core /\ Serving /\ Prepared

IInv ==
    /\ Typed /\ Inputs
    /\ power = "awake" => Running
    /\ power = "asleep" => Asleep
    /\ power = "off" => gate = "emergency"
--------------------------------------------------------------------------------
(* The services while the power task does something else. *)

UncalledPlaces == {"closed", "drain", "display", "storage"}

\* A state of the services depends on these variables only.
LEMMA ServingKept ==
    ASSUME Serving, UNCHANGED <<pc, attempt, awaiting, gate, serviceVars>>
    PROVE  Serving'
BY DEF Serving, serviceVars, Fresh, Older, Uncalled, Calls, Called, Down, Answers, Undone,
   RollbackAhead, RollbackQueued, Lost

LEMMA PreparedKept ==
    ASSUME Prepared, UNCHANGED <<pc, attempt, display, serviceVars>>
    PROVE  Prepared'
BY DEF Prepared, serviceVars, Down

\* A step of the power task that calls no service, within a generation.
LEMMA ServingMoves ==
    ASSUME Serving, UNCHANGED <<awaiting, serviceVars>>, pc \notin DOMAIN Callee,
           attempt'.gen = attempt.gen, pc' # "connectivity",
           pc' \in UncalledPlaces \cup {"audio"} => pc \in UncalledPlaces,
           gate # "open" => gate' # "open" \/ pc' = "undoConnectivity"
    PROVE  Serving'
<1>1. awaiting = NoCommand /\ awaiting' = NoCommand /\ reply' = NoReply
  BY DEF Serving, Calls, serviceVars
<1>2. \A s \in Services : Uncalled(s)' => Uncalled(s)
  BY DEF Uncalled, UncalledPlaces, Services
<1>3. Fresh'
  BY <1>2 DEF Serving, serviceVars, Fresh, Older, Services
<1>4. Calls'
  BY <1>1 DEF Calls
<1>5. \A s \in Services : RollbackAhead(s) => RollbackAhead(s)'
  BY <1>1 DEF RollbackAhead, Callee
<1>6. Undone'
  <2>1. \A s \in Services : \A i \in Nat :
           /\ RollbackQueued(s, i) => RollbackQueued(s, i)'
           /\ Lost(s, i) => Lost(s, i)'
    BY DEF serviceVars, RollbackQueued, Lost
  <2>2. 0 \in Nat /\ \A s \in Services : \A i \in 1..Len(queue[s]) : i \in Nat
    OBVIOUS
  <2> QED BY <1>5, <2>1, <2>2 DEF Serving, serviceVars, Undone
<1> QED BY <1>3, <1>4, <1>6 DEF Serving

\* The start of a generation.
LEMMA ServingAnew ==
    ASSUME Typed, Serving, Core, UNCHANGED <<awaiting, serviceVars>>, pc \in Free,
           attempt'.gen = nextGeneration, pc' \in {"closed", "drain"}, gate' # "open"
    PROVE  Serving'
<1>1. awaiting = NoCommand /\ awaiting' = NoCommand /\ reply' = NoReply
  BY DEF Serving, Calls, serviceVars, Free, Callee
<1>2. attempt.gen < nextGeneration /\ attempt.gen \in Nat /\ nextGeneration \in Nat
      /\ prepared \in Nat /\ queue \in [Services -> Seq(CommandType)]
  BY DEF Core, Generations, Typed, AttemptType
<1>3. \A s \in Services : \A i \in 1..Len(queue[s]) :
         queue[s][i].gen \in Nat /\ queue[s][i].gen < nextGeneration
  <2> SUFFICES ASSUME NEW s \in Services, NEW i \in 1..Len(queue[s])
               PROVE  queue[s][i].gen \in Nat /\ queue[s][i].gen < nextGeneration
    OBVIOUS
  <2>1. queue[s][i] \in CommandType
    BY <1>2
  <2>2. queue[s][i].gen <= attempt.gen
    BY DEF Serving, Fresh
  <2> QED BY <2>1, <2>2, <1>2 DEF CommandType
<1>4. Fresh'
  BY <1>2, <1>3 DEF Serving, serviceVars, Fresh, Older
<1>5. Calls'
  BY <1>1 DEF Calls
<1>6. \A s \in Services : ~RollbackAhead(s) /\ RollbackAhead(s)'
  BY DEF RollbackAhead, Core, Closure, Free
<1>7. Undone'
  <2>1. \A s \in Services : \A i \in Nat :
           /\ RollbackQueued(s, i) => RollbackQueued(s, i)'
           /\ Lost(s, i) => Lost(s, i)' \/ s # "audio"
    BY DEF serviceVars, RollbackQueued, Lost
  <2>2. 0 \in Nat /\ \A s \in Services : \A i \in 1..Len(queue[s]) : i \in Nat
    OBVIOUS
  <2> QED BY <1>6, <2>1, <2>2 DEF Serving, serviceVars, Undone
<1> QED BY <1>4, <1>5, <1>7 DEF Serving
--------------------------------------------------------------------------------
(* The button task, the UI task, the environment. *)

\* An activity is published, or nothing of it changes.
Activity(moved) ==
    IF moved
    THEN /\ activity' = activity + 1 /\ idle' = FALSE /\ acted' = (pc # "down")
         /\ rtc'.snapshot = rtc.snapshot /\ rtc'.cycles = 0 /\ rtc' \in RtcType
    ELSE /\ activity' = activity /\ acted' = acted /\ rtc' = rtc

\* What those tasks do to the transaction: an activity, or an input one step further.
LEMMA UserMoves ==
    ASSUME Typed, Core, Serving, Prepared, NEW moved \in BOOLEAN, Activity(moved),
           UNCHANGED <<coordVars, gate, hardwareVars, serviceVars>>,
           gate = "idle" /\ holders = {} => holders' = {},
           moved \/ (Quiet => Quiet')
    PROVE  Running'
<1>1. UNCHANGED <<pc, attempt, awaiting, nextGeneration, gate, display, armed, board,
                  serviceVars>>
  BY DEF coordVars, hardwareVars
<1>2. attempt.baseline \in Nat /\ activity \in Nat /\ attempt.gen \in Nat
      /\ rtc.cycles \in Nat /\ nextGeneration \in Nat
  BY BoundAssumption DEF Typed, AttemptType, RtcType
<1>3. Calm'
  BY <1>1, <1>2 DEF Core, Calm, Undisturbed, Activity
<1>4. Closure'
  BY <1>1 DEF Core, Closure
<1>5. Hardware'
  BY <1>1 DEF Core, Hardware, Activity
<1>6. Generations'
  BY <1>1 DEF Core, Generations
<1>7. Cycles'
  <2>1. CASE moved
    <3>1. pc # "down" => 0 < nextGeneration
      BY <1>2 DEF Core, Cycles
    <3>2. pc \in {"closed", "drain", "arm", "armed", "hold", "count"} \cup Broadcast =>
              0 < attempt.gen
      BY <1>2 DEF Core, Cycles
    <3> QED BY <1>1, <1>2, <2>1, <3>1, <3>2 DEF Cycles, Activity
  <2>2. CASE ~moved
    BY <1>1, <2>2 DEF Core, Cycles, Activity
  <2> QED BY <2>1, <2>2
<1>8. Booted'
  BY <1>1 DEF Core, Booted, Activity, Free, NoSnapshot
<1>9. Serving'
  BY <1>1, ServingKept
<1>10. Prepared'
  BY <1>1, PreparedKept
<1> QED BY <1>3, <1>4, <1>5, <1>6, <1>7, <1>8, <1>9, <1>10 DEF Running, Core

\* The fields of RTC memory after an activity.
LEMMA PublishResets ==
    ASSUME Typed, Publish
    PROVE  Activity(TRUE)
<1>1. rtc \in RtcType /\ rtc' = [rtc EXCEPT !.cycles = 0] /\ 0 \in 0..MaxGeneration
  BY BoundAssumption DEF Typed, Publish
<1>2. rtc'.snapshot = rtc.snapshot /\ rtc'.cycles = 0 /\ rtc' \in RtcType
  BY <1>1 DEF RtcType
<1> QED BY <1>2 DEF Publish, Activity

LEMMA ButtonKeeps ==
    ASSUME IInv, ButtonTask
    PROVE  IInv'
<1> USE DEF IInv
<1>1. /\ power = "awake" /\ power' = "awake"
      /\ UNCHANGED <<machineVars, coordVars, gateVars, hardwareVars, serviceVars>>
      /\ UNCHANGED <<request, uiStarted, line, staged>>
  BY DEF ButtonTask, Classify, StoreInteracted, PublishActivity, QueueEvent, ButtonStep, machineVars
<1>2. Running /\ ring \in Nat /\ activity \in Nat /\ MaxActivity \in Nat /\ RingCapacity \in Nat
  BY <1>1, BoundAssumption DEF Typed
<1>3. UNCHANGED <<pc, attempt, awaiting, nextGeneration, gate, holders, display, armed, board,
                  service, prepared, queue, reply, wake>>
  BY <1>1 DEF coordVars, gateVars, hardwareVars, serviceVars, machineVars
<1>4. ASSUME NEW k \in Keys, Classify(k)
      PROVE  IInv'
  <2>1. /\ hand = "none" /\ hand' = "classified" /\ uiStarted /\ activity < MaxActivity
        /\ UNCHANGED <<rtc, activity, interacted, idle, acted, ring>> /\ stable' \subseteq Keys
    BY <1>4 DEF Classify, EventsLeft, activityVars, Typed
  <2>2. Typed'
    BY <1>1, <1>3, <2>1 DEF Typed
  <2>3. Inputs'
    BY <1>1, <2>1 DEF Inputs, Quiet
  <2>4. Activity(FALSE) /\ (Quiet => Quiet')
    BY <1>1, <2>1 DEF Activity, Quiet
  <2> QED BY <1>1, <1>2, <1>3, <2>2, <2>3, <2>4, UserMoves DEF Running
<1>5. CASE StoreInteracted
  <2>1. /\ hand' = "interacted" /\ interacted' /\ hand = "classified"
        /\ UNCHANGED <<rtc, activity, idle, acted, ring, stable>> /\ interacted' \in BOOLEAN
    BY <1>5 DEF StoreInteracted
  <2>2. Typed'
    BY <1>1, <1>3, <2>1 DEF Typed
  <2>3. Inputs'
    BY <1>1, <2>1 DEF Inputs, Quiet
  <2>4. Activity(FALSE) /\ (Quiet => Quiet')
    BY <1>1, <2>1 DEF Activity, Quiet
  <2> QED BY <1>1, <1>2, <1>3, <2>2, <2>3, <2>4, UserMoves DEF Running
<1>6. CASE PublishActivity
  <2>1. /\ hand = "interacted" /\ hand' = "published" /\ Publish
        /\ UNCHANGED <<interacted, ring, stable>>
    BY <1>6 DEF PublishActivity
  <2>2. Activity(TRUE)
    BY <2>1, PublishResets
  <2>3. interacted /\ uiStarted /\ activity < MaxActivity
    BY <2>1 DEF Inputs
  <2>4. Typed'
    <3>1. activity' \in 0..MaxActivity + 1
      BY <1>2, <2>2, <2>3 DEF Activity
    <3>2. acted' \in BOOLEAN /\ idle' \in BOOLEAN /\ rtc' \in RtcType
      BY <2>2 DEF Activity
    <3> QED BY <1>1, <1>3, <2>1, <3>1, <3>2 DEF Typed
  <2>5. Inputs'
    BY <1>1, <2>1, <2>2, <2>3 DEF Inputs, Quiet, Activity
  <2> QED BY <1>1, <1>2, <1>3, <2>2, <2>4, <2>5, UserMoves DEF Running
<1>7. CASE QueueEvent
  <2>1. /\ hand = "published" /\ hand' = "none" /\ ring' \in 0..RingCapacity
        /\ UNCHANGED <<rtc, activity, interacted, idle, acted, stable>>
    BY <1>2, <1>7 DEF QueueEvent, activityVars, Typed
  <2>2. Typed'
    BY <1>1, <1>3, <2>1 DEF Typed
  <2>3. Inputs'
    BY <1>1, <2>1 DEF Inputs, Quiet
  <2>4. Activity(FALSE) /\ (Quiet => Quiet')
    BY <1>1, <2>1 DEF Activity, Quiet
  <2> QED BY <1>1, <1>2, <1>3, <2>2, <2>3, <2>4, UserMoves DEF Running
<1> QED BY <1>4, <1>5, <1>6, <1>7 DEF ButtonTask

LEMMA UiKeeps ==
    ASSUME IInv, UiTask
    PROVE  IInv'
<1> USE DEF IInv
<1>1. /\ power = "awake" /\ power' = "awake"
      /\ UNCHANGED <<machineVars, coordVars, hardwareVars, serviceVars, line, hand>>
  BY DEF UiTask, StartUi, ConsumeEvent, ReserveWrite, FinishWrite, UiStep, machineVars
<1>2. Running /\ ring \in Nat /\ activity \in Nat /\ MaxActivity \in Nat /\ RingCapacity \in Nat
  BY <1>1, BoundAssumption DEF Typed
<1>3. UNCHANGED <<pc, attempt, awaiting, nextGeneration, display, armed, board,
                  service, prepared, queue, reply, wake>>
  BY <1>1 DEF coordVars, hardwareVars, serviceVars, machineVars
<1>4. CASE StartUi
  <2>1. /\ ~uiStarted /\ uiStarted' = TRUE /\ stable' = line
        /\ UNCHANGED <<gate, holders, ring, staged>>
    BY <1>4 DEF StartUi, gateVars
  <2>2. activity = 0 /\ hand = "none"
    BY <2>1 DEF Inputs
  <2>3. CASE wake = "timer"
    <3>1. UNCHANGED <<rtc, activity, interacted, idle, acted, request>>
      BY <1>4, <2>3 DEF StartUi, activityVars
    <3>2. Typed'
      BY <1>1, <1>3, <2>1, <3>1 DEF Typed
    <3>3. Inputs'
      BY <1>1, <2>1, <3>1 DEF Inputs, Quiet
    <3>4. Activity(FALSE) /\ (Quiet => Quiet')
      BY <1>1, <2>1, <3>1 DEF Activity, Quiet
    <3> QED BY <1>1, <1>2, <2>1, <3>2, <3>3, <3>4, UserMoves DEF Running
  <2>4. CASE wake # "timer"
    <3>1. Publish /\ interacted' = TRUE /\ request' \in BOOLEAN
      BY <1>4, <2>4 DEF StartUi, CheckBattery
    <3>2. Activity(TRUE)
      BY <3>1, PublishResets
    <3>3. Typed'
      <4>1. activity' \in 0..MaxActivity + 1
        BY <1>2, <2>2, <3>2 DEF Activity
      <4>2. acted' \in BOOLEAN /\ idle' \in BOOLEAN /\ rtc' \in RtcType
        BY <3>2 DEF Activity
      <4> QED BY <1>1, <1>3, <2>1, <3>1, <4>1, <4>2 DEF Typed
    <3>4. Inputs'
      BY <1>1, <2>1, <2>2, <3>1, <3>2 DEF Inputs, Quiet, Activity
    <3> QED BY <1>1, <1>2, <2>1, <3>2, <3>3, <3>4, UserMoves DEF Running
  <2> QED BY <2>3, <2>4
<1>5. CASE ConsumeEvent
  <2>1. /\ ring > 0 /\ ring' = ring - 1 /\ staged' \in BOOLEAN /\ request' \in BOOLEAN
        /\ UNCHANGED <<rtc, gate, holders, activity, interacted, idle, acted, uiStarted, stable>>
    BY <1>5 DEF ConsumeEvent, CheckBattery, gateVars, activityVars, Typed
  <2>2. Typed'
    BY <1>1, <1>2, <1>3, <2>1 DEF Typed
  <2>3. Inputs'
    BY <1>1, <1>2, <2>1 DEF Inputs, Quiet
  <2>4. Activity(FALSE) /\ (Quiet => Quiet')
    BY <1>2, <2>1 DEF Activity, Quiet
  <2> QED BY <1>1, <1>2, <2>1, <2>2, <2>3, <2>4, UserMoves DEF Running
<1>6. CASE ReserveWrite
  <2>1. /\ staged /\ staged' = FALSE /\ gate = "open" /\ gate' = gate /\ holders' \subseteq {"ui"}
        /\ UNCHANGED <<rtc, request, activity, interacted, idle, acted, uiStarted, stable, ring>>
    BY <1>6 DEF ReserveWrite, Gate!Admit, activityVars, Typed
  <2>2. Typed'
    BY <1>1, <1>3, <2>1 DEF Typed
  <2>3. Inputs'
    BY <1>1, <2>1 DEF Inputs, Quiet
  <2>4. Activity(FALSE) /\ (Quiet => Quiet')
    BY <1>1, <2>1 DEF Activity, Quiet
  <2> QED BY <1>1, <1>2, <2>1, <2>2, <2>3, <2>4, UserMoves DEF Running
<1>7. CASE FinishWrite
  <2>1. /\ gate' = gate /\ holders' \subseteq {"ui"} /\ "ui" \in holders
        /\ UNCHANGED <<rtc, request, activity, interacted, idle, acted, uiStarted, stable, ring,
                       staged>>
    BY <1>7 DEF FinishWrite, Gate!Finish, activityVars, Typed
  <2>2. Typed'
    BY <1>1, <1>3, <2>1 DEF Typed
  <2>3. Inputs'
    BY <1>1, <2>1 DEF Inputs, Quiet
  <2>4. Activity(FALSE) /\ (Quiet => Quiet')
    BY <1>1, <2>1 DEF Activity, Quiet
  <2> QED BY <1>1, <1>2, <2>1, <2>2, <2>3, <2>4, UserMoves DEF Running
<1> QED BY <1>4, <1>5, <1>6, <1>7 DEF UiTask

\* Time, the pins, the battery and the resets.
LEMMA WorldKeeps ==
    ASSUME IInv, IdleTimePasses \/ Battery \/ (\E k \in Keys : Finger(k)) \/ Wake \/ PowerOn
           \/ UNCHANGED vars
    PROVE  IInv'
<1> USE DEF IInv
<1>1. CASE IdleTimePasses \/ Battery \/ (\E k \in Keys : Finger(k)) \/ UNCHANGED vars
  <2>1. /\ UNCHANGED <<power, rtc, coordVars, request, gate, holders, hardwareVars, serviceVars>>
        /\ UNCHANGED <<wake, activity, interacted, acted, uiStarted, stable, hand, ring, staged>>
        /\ line' \subseteq Keys /\ idle' \in BOOLEAN
        /\ idle' = idle \/ (idle' = TRUE /\ Quiet)
    BY <1>1 DEF IdleTimePasses, Battery, Finger, vars, machineVars, Tasks, activityVars, inputVars,
       gateVars, Quiet, Typed
  <2>2. UNCHANGED <<pc, attempt, awaiting, nextGeneration, display, armed, board, service,
                    prepared, queue, reply>>
    BY <2>1 DEF coordVars, hardwareVars, serviceVars
  <2>3. Typed'
    BY <2>1, <2>2 DEF Typed
  <2>4. Inputs'
    BY <2>1 DEF Inputs, Quiet
  <2>5. Activity(FALSE) /\ (Quiet => Quiet')
    BY <2>1 DEF Activity, Quiet
  <2>6. power = "awake" => Running'
    BY <2>1, <2>5, UserMoves DEF Running
  <2>7. power = "asleep" => Asleep'
    BY <2>1, <2>2 DEF Asleep, Quiet, Down
  <2> QED BY <2>1, <2>3, <2>4, <2>6, <2>7
<1>2. CASE Wake \/ PowerOn
  <2>1. /\ power' = "awake" /\ pc' = "down" /\ attempt' = NoAttempt /\ awaiting' = NoCommand
        /\ nextGeneration' = 1 /\ request' = FALSE /\ gate' = "open" /\ holders' = {}
        /\ display' = "normal" /\ armed' = FALSE /\ board' = "normal" /\ prepared' = 0
        /\ service' = [s \in Services |-> "active"] /\ queue' = [s \in Services |-> <<>>]
        /\ reply' = NoReply /\ activity' = 0 /\ interacted' = FALSE /\ idle' = FALSE
        /\ acted' = FALSE /\ uiStarted' = FALSE /\ stable' = {} /\ hand' = "none" /\ ring' = 0
        /\ staged' = FALSE /\ line' = line
    BY <1>2 DEF Wake, PowerOn, Boot
  <2>2. /\ rtc' \in RtcType
        /\ \/ rtc'.snapshot.mode = "idle" /\ rtc'.snapshot.gen <= MaxGeneration
              /\ rtc'.snapshot.cycles <= rtc'.snapshot.gen
           \/ rtc'.snapshot = NoSnapshot /\ rtc'.cycles = 0
    <3>1. CASE Wake
      BY <3>1 DEF Wake, Asleep, Typed
    <3>2. CASE PowerOn
      BY <3>2, BoundAssumption DEF PowerOn, EmptyRtc, NoSnapshot, RtcType, SnapshotType
    <3> QED BY <1>2, <3>1, <3>2
  <2>3. /\ attempt' \in AttemptType /\ attempt'.gen = 0 /\ attempt'.baseline = 0
        /\ attempt'.mode = "idle" /\ awaiting' \in CommandType /\ reply' \in ReplyType
    BY <2>1, BoundAssumption DEF NoAttempt, NoCommand, NoReply, AttemptType, CommandType, ReplyType
  <2>4. \A s \in Services : service'[s] = "active" /\ queue'[s] = <<>> /\ Len(queue'[s]) = 0
    BY <2>1
  <2>5. Typed'
    <3>1. queue' \in [Services -> Seq(CommandType)]
          /\ service' \in [Services -> {"active", "quiesced", "stuck"}]
      BY <2>1
    <3>2. activity' \in 0..MaxActivity + 1 /\ ring' \in 0..RingCapacity
      BY <2>1, BoundAssumption
    <3> QED BY <2>1, <2>2, <2>3, <3>1, <3>2 DEF Typed, Places
  <2>6. Inputs'
    BY <2>1 DEF Inputs, Quiet
  <2>7. Calm' /\ Closure'
    BY <2>1, <2>3 DEF Calm, Closure, Free, Undoing, Broadcast, Committing, Ending
  <2>8. Hardware' /\ Generations'
    BY <2>1, <2>3, BoundAssumption DEF Hardware, Generations, Free, Undoing
  <2>9. Cycles' /\ Booted'
    BY <2>1, <2>2 DEF Cycles, Booted, Free, Broadcast, NoSnapshot
  <2>10. Serving'
    BY <2>1, <2>3, <2>4 DEF Serving, Fresh, Uncalled, Older, Calls, Undone
  <2>11. Prepared'
    BY <2>1 DEF Prepared, Committing
  <2> QED BY <2>1, <2>5, <2>6, <2>7, <2>8, <2>9, <2>10, <2>11 DEF Running, Core
<1> QED BY <1>1, <1>2
--------------------------------------------------------------------------------
(* A service handles its next command. *)

\* The outcomes of a command: for a service that was working or not, whether the command
\* was taken, refused, done or undone.
Quiesces(s, c, v, p, ok) ==
    /\ c.kind = "prepare" /\ v = "quiesced"
    /\ s = "audio" => service[s] = "active" /\ p = c.gen /\ ok

Refuses(s, c, v, p, ok) ==
    /\ v = service[s] /\ p = prepared
    /\ c.kind = "prepare" /\ ok => s = "audio" /\ service[s] # "active" /\ prepared = c.gen
    /\ c.kind = "rollback" =>
          IF s = "audio" THEN service[s] = "active" \/ c.gen # prepared ELSE gate # "open"

Resumes(s, c, v, p) ==
    /\ c.kind = "rollback" /\ v \in {"active", "stuck"}
    /\ p = prepared \/ (s = "audio" /\ p = 0)

LEMMA CommandOutcome ==
    ASSUME Typed, NEW s \in Services, HandleCommand(s)
    PROVE  LET c == queue[s][1] IN
           \E v \in {"active", "quiesced", "stuck"}, p \in Nat, ok \in BOOLEAN :
              /\ Quiesces(s, c, v, p, ok) \/ Refuses(s, c, v, p, ok) \/ Resumes(s, c, v, p)
              /\ service' = [service EXCEPT ![s] = v]
              /\ prepared' = p /\ (s # "audio" => p = prepared)
              /\ Answer(s, c, ok)
<1> DEFINE c == queue[s][1]
<1>1. /\ queue \in [Services -> Seq(CommandType)] /\ prepared \in Nat
      /\ service \in [Services -> {"active", "quiesced", "stuck"}]
  BY DEF Typed
<1>2. queue[s] # <<>> /\ queue[s] \in Seq(CommandType) /\ Head(queue[s]) = c
  BY <1>1 DEF HandleCommand
<1>3. c \in CommandType /\ c.gen \in Nat
  <2>1. 1 \in 1..Len(queue[s])
    BY <1>2
  <2>2. c \in CommandType
    BY <1>2, <2>1
  <2> QED BY <2>2 DEF CommandType
<1>4. service = [service EXCEPT ![s] = service[s]] /\ service[s] \in {"active", "quiesced", "stuck"}
  BY <1>1
<1> HIDE DEF c
<1>5. \/ s = "audio" /\ c.kind = "prepare" /\ AudioPrepare(c)
      \/ s = "audio" /\ c.kind = "rollback" /\ AudioRollback(c)
      \/ s = "connectivity" /\ c.kind = "prepare" /\ ConnectivityPrepare(c) /\ prepared' = prepared
      \/ s = "connectivity" /\ c.kind = "rollback" /\ ConnectivityRollback(c)
         /\ prepared' = prepared
  BY <1>2 DEF HandleCommand
<1>6. CASE s = "audio" /\ c.kind = "prepare" /\ AudioPrepare(c)
  BY <1>1, <1>3, <1>4, <1>6 DEF AudioPrepare, Turn, Quiesces, Refuses, c
<1>7. CASE s = "audio" /\ c.kind = "rollback" /\ AudioRollback(c)
  BY <1>1, <1>3, <1>4, <1>7 DEF AudioRollback, Turn, Resumes, Refuses, c
<1>8. CASE s = "connectivity" /\ c.kind = "prepare" /\ ConnectivityPrepare(c)
           /\ prepared' = prepared
  BY <1>1, <1>3, <1>4, <1>8 DEF ConnectivityPrepare, Turn, Quiesces, Refuses, c
<1>9. CASE s = "connectivity" /\ c.kind = "rollback" /\ ConnectivityRollback(c)
           /\ prepared' = prepared
  BY <1>1, <1>3, <1>4, <1>9 DEF ConnectivityRollback, Turn, Resumes, Refuses, c
<1> QED BY <1>5, <1>6, <1>7, <1>8, <1>9

LEMMA ServiceKeeps ==
    ASSUME IInv, NEW s \in Services, HandleCommand(s)
    PROVE  IInv'
<1> USE DEF IInv
<1> DEFINE c == queue[s][1]
<1>1. /\ power = "awake" /\ power' = "awake" /\ queue[s] # <<>>
      /\ UNCHANGED <<pc, attempt, awaiting, nextGeneration, rtc, request, gate, holders, display,
                     armed, board, activity, interacted, idle, acted>>
      /\ UNCHANGED <<uiStarted, line, stable, hand, ring, staged, unsent>>
  BY DEF HandleCommand, machineVars, coordVars, gateVars, hardwareVars, activityVars, inputVars
<1>2. Running /\ attempt.gen \in Nat
  BY <1>1 DEF Typed, AttemptType
<1>3. PICK v \in {"active", "quiesced", "stuck"}, p \in Nat, ok \in BOOLEAN :
         /\ Quiesces(s, c, v, p, ok) \/ Refuses(s, c, v, p, ok) \/ Resumes(s, c, v, p)
         /\ service' = [service EXCEPT ![s] = v]
         /\ prepared' = p /\ (s # "audio" => p = prepared)
         /\ Answer(s, c, ok)
  BY CommandOutcome
<1>4. /\ service' \in [Services -> {"active", "quiesced", "stuck"}] /\ service'[s] = v
      /\ \A t \in Services \ {s} : service'[t] = service[t]
  BY <1>3 DEF Typed
<1>5. /\ queue' \in [Services -> Seq(CommandType)] /\ queue'[s] = Tail(queue[s])
      /\ \A t \in Services \ {s} : queue'[t] = queue[t]
  BY <1>1, <1>3 DEF Typed, Answer
<1>6. /\ queue[s] \in Seq(CommandType) /\ Len(queue[s]) \in Nat /\ Len(queue[s]) >= 1
      /\ Len(queue'[s]) = Len(queue[s]) - 1
      /\ \A i \in 1..Len(queue[s]) - 1 : queue'[s][i] = queue[s][i + 1]
  BY <1>1, <1>5 DEF Typed
<1>18. Len(queue[s]) = 1 \/ Len(queue[s]) > 1
  <2>1. Len(queue[s]) \in Nat /\ Len(queue[s]) >= 1
    BY <1>6
  <2>2. \A n \in Nat : n >= 1 => n = 1 \/ n > 1
    OBVIOUS
  <2> QED BY <2>1, <2>2
<1>7. \A t \in Services : \A i \in 1..Len(queue[t]) : queue[t][i] \in CommandType
  BY DEF Typed
<1>8. c \in CommandType /\ c.gen \in Nat /\ 1 \in 1..Len(queue[s])
  BY <1>6, <1>7 DEF CommandType
<1>9. reply' = IF pc \in DOMAIN Callee /\ Callee[pc] = s /\ awaiting # NoCommand
               THEN [kind |-> c.kind, gen |-> c.gen, ok |-> ok] ELSE reply
  BY <1>1, <1>3 DEF Answer, Calling
<1>10. prepared' = p /\ (s # "audio" => prepared' = prepared) /\ prepared \in Nat
  BY <1>3 DEF Typed
<1>11. /\ \A t \in Services : \A i \in 1..Len(queue[t]) : queue[t][i].gen <= attempt.gen
       /\ prepared <= attempt.gen /\ c.gen <= attempt.gen
  BY <1>2, <1>8 DEF Running, Serving, Fresh
<1> HIDE DEF c
<1>12. Typed'
  <2>1. reply' \in ReplyType
    BY <1>8, <1>9 DEF ReplyType, CommandType, Typed
  <2> QED BY <1>1, <1>4, <1>5, <1>10, <2>1 DEF Typed
<1>13. Core'
  BY <1>1, <1>2 DEF Running, Core, Calm, Undisturbed, Quiet, Closure, Hardware, Generations, Cycles,
     Booted
<1>14. Prepared'
  <2>1. ~Down(s)
    BY <1>1 DEF Down
  <2>2. \A t \in Services \ {s} : Down(t) => Down(t)'
    BY <1>1, <1>4, <1>5, <1>10 DEF Down
  <2> QED BY <1>1, <1>2, <2>1, <2>2 DEF Running, Prepared, Services
<1>15. Fresh'
  <2>1. prepared' \in {prepared, c.gen, 0}
    BY <1>3 DEF Quiesces, Refuses, Resumes
  <2>2. \A t \in Services, i \in Nat : i \in 1..Len(queue'[t]) =>
           \E j \in 1..Len(queue[t]) : queue'[t][i] = queue[t][j]
    <3>1. \A i \in 1..Len(queue'[s]) : i + 1 \in 1..Len(queue[s])
      BY <1>6
    <3> QED BY <1>5, <1>6, <3>1
  <2>3. \A t \in Services : Uncalled(t)' => Uncalled(t)
    BY <1>1 DEF Uncalled
  <2>4. Uncalled("audio") => prepared' < attempt.gen
    <3>1. CASE s = "audio"
      BY <1>2, <1>8, <1>10, <2>1, <3>1 DEF Running, Serving, Fresh, Older, c
    <3>2. CASE s # "audio"
      BY <1>2, <1>10, <3>2 DEF Running, Serving, Fresh
    <3> QED BY <3>1, <3>2
  <2>5. prepared' <= attempt'.gen
    BY <1>1, <1>2, <1>11, <2>1
  <2>6. ASSUME NEW t \in Services
        PROVE  /\ \A i \in 1..Len(queue'[t]) : queue'[t][i].gen <= attempt.gen
               /\ Uncalled(t) => \A i \in 1..Len(queue'[t]) : queue'[t][i].gen < attempt.gen
    <3> SUFFICES ASSUME NEW i \in 1..Len(queue'[t])
                 PROVE  /\ queue'[t][i].gen <= attempt.gen
                        /\ Uncalled(t) => queue'[t][i].gen < attempt.gen
      OBVIOUS
    <3>1. PICK j \in 1..Len(queue[t]) : queue'[t][i] = queue[t][j]
      BY <2>2
    <3> QED BY <1>2, <1>11, <3>1 DEF Running, Serving, Fresh, Older
  <2>7. attempt'.gen = attempt.gen
    BY <1>1
  <2>8. \A t \in Services : /\ \A i \in 1..Len(queue'[t]) : queue'[t][i].gen <= attempt'.gen
                            /\ Uncalled(t)' => Older(t, attempt.gen)'
    BY <1>1, <2>3, <2>6, <2>7 DEF Older
  <2> QED BY <1>1, <2>3, <2>4, <2>5, <2>7, <2>8 DEF Fresh, Older, Services
<1>16. Calls'
  <2>1. Calls
    BY <1>2 DEF Running, Serving
  <2>2. awaiting' = NoCommand => reply' = NoReply
    BY <1>1, <1>9, <2>1 DEF Calls
  <2>3. ASSUME NEW t \in Services, pc = t, awaiting # NoCommand
        PROVE  Called(t)'
    <3>1. Called(t) /\ t \in DOMAIN Callee /\ Callee[t] = t
      BY <2>1, <2>3 DEF Calls, Callee, Services
    <3>2. CASE t # s
      <4>1. reply' = reply
        BY <1>9, <2>3, <3>1, <3>2
      <4>2. t = "audio" => prepared' = prepared
        BY <1>10, <3>2
      <4> QED BY <1>1, <1>4, <1>5, <3>1, <3>2, <4>1, <4>2 DEF Called, Down
    <3>3. CASE t = s
      <4>1. reply' = [kind |-> c.kind, gen |-> c.gen, ok |-> ok]
        BY <1>9, <2>3, <3>1, <3>3
      <4>2. /\ awaiting = [kind |-> "prepare", gen |-> attempt.gen]
            /\ queue[s][Len(queue[s])] = awaiting
            /\ \A i \in 1..Len(queue[s]) - 1 : queue[s][i].gen < attempt.gen
            /\ s = "audio" => prepared < attempt.gen
        BY <1>1, <3>1, <3>3 DEF Called
      <4>3. CASE Len(queue[s]) = 1
        <5>1. c = awaiting /\ queue'[s] = <<>>
          BY <1>5, <1>6, <4>2, <4>3 DEF c
        <5>2. c.kind = "prepare" /\ c.gen = attempt.gen
          BY <4>2, <5>1
        <5>3. Answers(reply, awaiting)'
          BY <1>1, <4>1, <5>1 DEF Answers
        <5>4. ok => Quiesces(s, c, v, p, ok)
          <6>1. ~Resumes(s, c, v, p)
            BY <5>2 DEF Resumes
          <6>2. s = "audio" => prepared # c.gen
            BY <1>2, <1>10, <4>2, <5>2
          <6>3. ok => ~Refuses(s, c, v, p, ok)
            BY <5>2, <6>2 DEF Refuses
          <6> QED BY <1>3, <6>1, <6>3
        <5>5. ok => Down(s)'
          BY <1>1, <1>4, <1>10, <5>1, <5>2, <5>4 DEF Quiesces, Down
        <5>6. reply'.ok = ok
          BY <4>1
        <5> QED BY <1>1, <3>3, <4>2, <5>1, <5>3, <5>5, <5>6 DEF Called
      <4>4. CASE Len(queue[s]) > 1
        <5>1. c.gen < attempt.gen
          BY <4>2, <4>4, <1>6 DEF c
        <5>2. ~Answers(reply, awaiting)'
          BY <1>1, <1>2, <1>8, <4>1, <4>2, <5>1 DEF Answers
        <5>3. queue'[s] # <<>> /\ queue'[s][Len(queue'[s])] = awaiting
          BY <1>6, <4>2, <4>4
        <5>4. \A i \in 1..Len(queue'[s]) - 1 : queue'[s][i].gen < attempt.gen
          BY <1>6, <4>2, SMTT(30)
        <5>5. s = "audio" => prepared' < attempt.gen
          <6>1. prepared' \in {prepared, c.gen, 0}
            BY <1>3 DEF Quiesces, Refuses, Resumes
          <6> QED BY <1>2, <1>10, <4>2, <5>1, <6>1
        <5> QED BY <1>1, <3>3, <4>2, <5>2, <5>3, <5>4, <5>5 DEF Called
      <4> QED BY <1>18, <4>3, <4>4
    <3> QED BY <3>2, <3>3
  <2> QED BY <1>1, <2>1, <2>2, <2>3 DEF Calls
<1>17. Undone'
  <2>1. Undone /\ \A t \in Services : RollbackAhead(t)' = RollbackAhead(t)
    BY <1>1, <1>2 DEF Running, Serving, RollbackAhead
  <2>2. ASSUME NEW t \in Services \ {s}
        PROVE  /\ service'[t] = "quiesced" =>
                     \/ RollbackAhead(t)' /\ (t = "audio" => prepared' = attempt'.gen)
                     \/ RollbackQueued(t, 0)'
                     \/ Lost(t, 0)'
               /\ \A i \in 1..Len(queue'[t]) : queue'[t][i].kind = "prepare" =>
                     \/ RollbackAhead(t)' /\ (t = "audio" => queue'[t][i].gen = attempt'.gen)
                     \/ RollbackQueued(t, i)'
                     \/ Lost(t, i)'
    <3>1. service'[t] = service[t] /\ queue'[t] = queue[t] /\ (t = "audio" => prepared' = prepared)
      BY <1>4, <1>5, <1>10
    <3> QED BY <1>1, <2>1, <3>1 DEF Undone, RollbackQueued, Lost
  <2>3. ASSUME NEW i \in 1..Len(queue'[s]), queue'[s][i].kind = "prepare"
        PROVE  \/ RollbackAhead(s)' /\ (s = "audio" => queue'[s][i].gen = attempt'.gen)
               \/ RollbackQueued(s, i)'
               \/ Lost(s, i)'
    <3>1. i + 1 \in 1..Len(queue[s]) /\ queue'[s][i] = queue[s][i + 1] /\ i # 0 /\ i + 1 # 0
      BY <1>6
    <3>2. CASE RollbackAhead(s) /\ (s = "audio" => queue[s][i + 1].gen = attempt.gen)
      BY <1>1, <2>1, <3>1, <3>2
    <3>3. CASE RollbackQueued(s, i + 1)
      <4>1. PICK j \in i + 2..Len(queue[s]) :
               /\ queue[s][j].kind = "rollback"
               /\ s = "audio" => queue[s][j].gen = queue[s][i + 1].gen
        BY <1>6, <3>1, <3>3 DEF RollbackQueued
      <4>2. j - 1 \in i + 1..Len(queue'[s]) /\ queue'[s][j - 1] = queue[s][j]
        BY <1>6, <4>1
      <4> QED BY <3>1, <4>1, <4>2 DEF RollbackQueued
    <3>4. CASE Lost(s, i + 1)
      BY <1>1, <3>1, <3>4 DEF Lost
    <3> QED BY <2>1, <2>3, <3>1, <3>2, <3>3, <3>4 DEF Undone
  <2>4. ASSUME service'[s] = "quiesced"
        PROVE  \/ RollbackAhead(s)' /\ (s = "audio" => prepared' = attempt'.gen)
               \/ RollbackQueued(s, 0)'
               \/ Lost(s, 0)'
    <3>1. CASE Quiesces(s, c, v, p, ok)
      <4>1. CASE RollbackAhead(s) /\ (s = "audio" => c.gen = attempt.gen)
        BY <1>1, <1>10, <2>1, <3>1, <4>1 DEF Quiesces
      <4>2. CASE RollbackQueued(s, 1)
        <5>1. PICK j \in 2..Len(queue[s]) :
                 /\ queue[s][j].kind = "rollback"
                 /\ s = "audio" => queue[s][j].gen = c.gen
          BY <4>2 DEF RollbackQueued, c
        <5>2. j - 1 \in 0 + 1..Len(queue'[s]) /\ queue'[s][j - 1] = queue[s][j]
          BY <1>6, <5>1
        <5>3. s = "audio" => prepared' = c.gen
          BY <1>10, <3>1 DEF Quiesces
        <5> QED BY <5>1, <5>2, <5>3 DEF RollbackQueued
      <4>3. CASE Lost(s, 1)
        <5>1. s = "audio" => prepared' = c.gen
          BY <1>10, <3>1 DEF Quiesces
        <5> QED BY <1>1, <4>3, <5>1 DEF Lost, c
      <4> QED BY <1>8, <2>1, <3>1, <4>1, <4>2, <4>3 DEF Undone, Quiesces, c
    <3>2. CASE Refuses(s, c, v, p, ok)
      <4>1. service[s] = "quiesced" /\ prepared' = prepared
        BY <1>4, <1>10, <2>4, <3>2 DEF Refuses
      <4>2. CASE RollbackAhead(s) /\ (s = "audio" => prepared = attempt.gen)
        BY <1>1, <2>1, <4>1, <4>2
      <4>3. CASE RollbackQueued(s, 0)
        <5>1. PICK j \in 1..Len(queue[s]) :
                 /\ queue[s][j].kind = "rollback"
                 /\ s = "audio" => queue[s][j].gen = prepared
          BY <4>3 DEF RollbackQueued
        <5>2. CASE j = 1
          <6>1. c.kind = "rollback" /\ s # "audio" /\ gate # "open"
            BY <3>2, <4>1, <5>1, <5>2 DEF Refuses, c
          <6> QED BY <1>1, <6>1 DEF RollbackAhead
        <5>3. CASE j # 1
          <6>1. j - 1 \in 0 + 1..Len(queue'[s]) /\ queue'[s][j - 1] = queue[s][j]
            BY <1>6, <5>1, <5>3
          <6> QED BY <4>1, <5>1, <6>1 DEF RollbackQueued
        <5> QED BY <5>2, <5>3
      <4>4. CASE Lost(s, 0)
        BY <1>1, <4>1, <4>4 DEF Lost
      <4> QED BY <2>1, <4>1, <4>2, <4>3, <4>4 DEF Undone
    <3>3. CASE Resumes(s, c, v, p)
      BY <1>4, <2>4, <3>3 DEF Resumes
    <3> QED BY <1>3, <3>1, <3>2, <3>3
  <2> QED BY <2>2, <2>3, <2>4 DEF Undone
<1> QED BY <1>1, <1>12, <1>13, <1>14, <1>15, <1>16, <1>17 DEF Running, Serving, Inputs, Quiet
--------------------------------------------------------------------------------
(* The power task. *)

\* The frame of a step of the power task, and what is left to show of it.
LEMMA TaskMoves ==
    ASSUME IInv, power = "awake", Others, rtc' \in RtcType, attempt' \in AttemptType,
           nextGeneration' \in Nat, request' \in BOOLEAN, holders' \subseteq {"ui"},
           gate' \in {"open", "idle", "emergency"}, armed' \in BOOLEAN, pc' \in Places,
           UNCHANGED <<service, prepared>>, awaiting' \in CommandType, reply' \in ReplyType,
           queue' \in [Services -> Seq(CommandType)], power' = "awake",
           Core', Serving', Prepared'
    PROVE  IInv'
<1>1. UNCHANGED <<wake, depleted, activity, interacted, idle, acted, uiStarted, line, stable,
                  hand, ring, staged>>
  BY DEF Others, activityVars, inputVars
<1>2. Typed'
  BY <1>1 DEF IInv, Typed
<1>3. Inputs'
  BY <1>1 DEF IInv, Inputs, Quiet
<1> QED BY <1>2, <1>3 DEF IInv, Running

\* The same for a step that calls no service.
LEMMA StepMoves ==
    ASSUME IInv, NEW from, NEW to \in Places, Step(from, to), from \notin DOMAIN Callee,
           rtc' \in RtcType, attempt' \in AttemptType, nextGeneration' \in Nat,
           request' \in BOOLEAN, holders' \subseteq {"ui"},
           gate' \in {"open", "idle", "emergency"}, armed' \in BOOLEAN, power' = "awake",
           Core', Prepared',
           \/ /\ attempt'.gen = attempt.gen /\ to # "connectivity"
              /\ to \in UncalledPlaces \cup {"audio"} => from \in UncalledPlaces
              /\ gate # "open" => gate' # "open" \/ to = "undoConnectivity"
           \/ from \in Free /\ attempt'.gen = nextGeneration /\ to \in {"closed", "drain"}
              /\ gate' # "open"
    PROVE  IInv'
<1>1. /\ power = "awake" /\ pc = from /\ pc' = to /\ Others
      /\ UNCHANGED <<awaiting, serviceVars>>
  BY DEF Step
<1>2. Running /\ Typed
  BY <1>1 DEF IInv
<1>3. Serving'
  BY <1>1, <1>2, ServingMoves, ServingAnew DEF Running
<1>4. /\ UNCHANGED <<service, prepared>> /\ awaiting' \in CommandType /\ reply' \in ReplyType
      /\ queue' \in [Services -> Seq(CommandType)]
  BY <1>1, <1>2 DEF serviceVars, Typed
<1> QED BY <1>1, <1>3, <1>4, TaskMoves

\* The start of the task, and its idle checks before the gate closes.
LEMMA BeforeClosing ==
    ASSUME IInv, power = "awake",
           StartPowerCoordinator \/ Loop \/ CheckIdle \/ Revalidate \/ BeginQuiesce
           \/ RevalidateClosed
    PROVE  IInv'
<1>1. Running /\ Typed /\ Inputs
  BY DEF IInv
<1>2. /\ attempt \in AttemptType /\ attempt.gen \in Nat /\ attempt.baseline \in 0..MaxActivity + 1
      /\ attempt.ready \in BOOLEAN /\ attempt.then \in {"rest", "emergency"}
      /\ attempt.mode \in {"idle", "emergency"} /\ attempt.baseline \in Nat
      /\ nextGeneration \in Nat /\ activity \in 0..MaxActivity + 1 /\ activity \in Nat
      /\ rtc \in RtcType /\ rtc.cycles \in 0..MaxGeneration /\ rtc.cycles \in Nat
      /\ request \in BOOLEAN /\ holders \subseteq {"ui"} /\ armed \in BOOLEAN
      /\ gate \in {"open", "idle", "emergency"} /\ MaxGeneration \in Nat /\ MaxActivity \in Nat
      /\ rtc.snapshot \in SnapshotType /\ rtc.snapshot.gen \in Nat /\ rtc.snapshot.cycles \in Nat
  BY <1>1, BoundAssumption DEF Typed, AttemptType, RtcType, SnapshotType
<1>3. /\ Ended \in AttemptType /\ Ended.gen = attempt.gen /\ Ended.baseline = 0
      /\ Ended.mode = "idle"
  <2>1. 0 \in 0..MaxActivity + 1
    BY <1>2
  <2> QED BY <1>2, <2>1 DEF Ended, NoAttempt, AttemptType
<1>4. /\ Sampled \in AttemptType /\ Sampled.gen = attempt.gen /\ Sampled.baseline = activity
      /\ Sampled.mode = "idle"
  BY <1>2 DEF Sampled, NoAttempt, AttemptType
<1>5. Core
  BY <1>1 DEF Running
<1> USE DEF Places, Free, Broadcast, Committing, Undoing, Ending, UncalledPlaces
<1>6. CASE StartPowerCoordinator
  <2>1. /\ Step("down", "rest") /\ pc = "down" /\ pc' = "rest"
        /\ UNCHANGED <<power, attempt, request, gate, holders, display, armed, board>>
        /\ UNCHANGED <<activity, acted, hand, ring, staged>>
    BY <1>6 DEF StartPowerCoordinator, Step, Others, gateVars, hardwareVars, activityVars, inputVars
  <2>2. /\ attempt.gen = 0 /\ nextGeneration = 1 /\ ~acted /\ attempt.mode = "idle"
        /\ IF rtc.snapshot = NoSnapshot THEN rtc.cycles = 0
           ELSE rtc.snapshot.gen <= MaxGeneration /\ rtc.snapshot.cycles <= rtc.snapshot.gen
    BY <1>5, <2>1 DEF Core, Booted, NoAttempt
  <2>3. /\ rtc' \in RtcType /\ nextGeneration' \in Nat /\ nextGeneration' <= MaxGeneration + 1
        /\ rtc'.cycles < nextGeneration' /\ nextGeneration' > 0
    <3>1. CASE rtc.snapshot = NoSnapshot
      <4>1. rtc' = rtc /\ nextGeneration' = nextGeneration
        BY <1>6, <3>1 DEF StartPowerCoordinator
      <4> QED BY <1>2, <2>2, <3>1, <4>1
    <3>2. CASE rtc.snapshot # NoSnapshot
      <4>1. rtc' = [rtc EXCEPT !.cycles = rtc.snapshot.cycles]
            /\ nextGeneration' = rtc.snapshot.gen + 1
        BY <1>6, <3>2 DEF StartPowerCoordinator
      <4>2. rtc.snapshot.cycles \in 0..MaxGeneration
        BY <1>2, <2>2, <3>2
      <4>3. rtc' \in RtcType /\ rtc'.cycles = rtc.snapshot.cycles
        BY <1>2, <4>1, <4>2 DEF RtcType
      <4> QED BY <1>2, <2>2, <3>2, <4>1, <4>3
    <3> QED BY <3>1, <3>2
  <2>4. Core'
    BY <1>2, <1>5, <2>1, <2>2, <2>3 DEF Core, Calm, Undisturbed, Closure, Hardware, Generations,
       Cycles, Booted
  <2>5. Prepared'
    BY <2>1 DEF Prepared
  <2> QED BY <1>2, <2>1, <2>3, <2>4, <2>5, StepMoves DEF Callee
<1>7. CASE Loop
  <2>1. PICK to \in {"emergency", "sampled"} :
        /\ Step("rest", to) /\ pc = "rest" /\ pc' = to
        /\ to = "emergency" => attempt' = attempt
        /\ to = "sampled" => attempt' = Sampled
        /\ request' = FALSE /\ UNCHANGED <<power, rtc, nextGeneration, gate, holders, display,
                                           armed, board>>
        /\ UNCHANGED <<activity, acted, hand, ring, staged>>
    BY <1>7 DEF Loop, Step, Others, gateVars, hardwareVars, activityVars, inputVars
  <2>2. /\ attempt' \in AttemptType /\ attempt'.gen = attempt.gen /\ attempt'.baseline <= activity
        /\ attempt'.mode = "idle"
    BY <1>2, <1>4, <1>5, <2>1 DEF Core, Calm, Closure
  <2>3. Core'
    BY <1>2, <1>5, <2>1, <2>2 DEF Core, Calm, Undisturbed, Closure, Hardware, Generations,
       Cycles, Booted
  <2>4. Prepared'
    BY <2>1 DEF Prepared
  <2> QED BY <1>2, <2>1, <2>2, <2>3, <2>4, StepMoves DEF Callee
<1>8. CASE CheckIdle
  <2>1. PICK to \in {"rest", "checked"} :
        /\ Step("sampled", to) /\ pc = "sampled" /\ pc' = to
        /\ to = "rest" => attempt' = Ended
        /\ to = "checked" => UiIdle /\ nextGeneration <= MaxGeneration /\ attempt' = attempt
        /\ UNCHANGED <<power, rtc, nextGeneration, request, gate, holders, display, armed, board>>
        /\ UNCHANGED <<activity, acted, hand, ring, staged>>
    BY <1>8 DEF CheckIdle, Step, Others, gateVars, hardwareVars, activityVars, inputVars
  <2>2. /\ attempt' \in AttemptType /\ attempt'.gen = attempt.gen /\ attempt'.baseline <= activity
        /\ attempt'.mode = "idle"
    BY <1>2, <1>3, <1>5, <2>1 DEF Core, Calm, Closure
  <2>3. to = "checked" => Quiet'
    BY <1>1, <2>1 DEF UiIdle, Inputs, Quiet
  <2>4. Core'
    BY <1>2, <1>5, <2>1, <2>2, <2>3 DEF Core, Calm, Undisturbed, Closure, Hardware, Generations,
       Cycles, Booted
  <2>5. Prepared'
    BY <2>1 DEF Prepared
  <2> QED BY <1>2, <2>1, <2>2, <2>4, <2>5, StepMoves DEF Callee
<1>9. CASE Revalidate
  <2>1. PICK to \in {"rest", "begin"} :
        /\ Step("checked", to) /\ pc = "checked" /\ pc' = to
        /\ to = "rest" => attempt' = Ended
        /\ to = "begin" => attempt' = attempt
        /\ UNCHANGED <<power, rtc, nextGeneration, request, gate, holders, display, armed, board>>
        /\ UNCHANGED <<activity, acted, hand, ring, staged>>
    BY <1>9 DEF Revalidate, Step, Others, gateVars, hardwareVars, activityVars, inputVars
  <2>2. /\ attempt' \in AttemptType /\ attempt'.gen = attempt.gen /\ attempt'.baseline <= activity
        /\ attempt'.mode = "idle"
    BY <1>2, <1>3, <1>5, <2>1 DEF Core, Calm, Closure
  <2>3. Core'
    BY <1>2, <1>5, <2>1, <2>2 DEF Core, Calm, Undisturbed, Quiet, Closure, Hardware, Generations,
       Cycles, Booted
  <2>4. Prepared'
    BY <2>1 DEF Prepared
  <2> QED BY <1>2, <2>1, <2>2, <2>3, <2>4, StepMoves DEF Callee
<1>10. CASE BeginQuiesce
  <2>1. PICK to \in {"closed", "rest"} :
        /\ Step("begin", to) /\ pc = "begin" /\ pc' = to /\ nextGeneration' = nextGeneration + 1
        /\ to = "rest" => attempt' = Ended /\ gate' = gate /\ holders' = holders
        /\ to = "closed" =>
              /\ holders = {} /\ holders' = holders /\ gate' = "idle"
              /\ attempt' = [attempt EXCEPT !.gen = nextGeneration, !.ready = TRUE]
        /\ UNCHANGED <<power, rtc, request, display, armed, board>>
        /\ UNCHANGED <<activity, acted, hand, ring, staged>>
    BY <1>10 DEF BeginQuiesce, Gate!CloseForIdle, Step, Others, gateVars, hardwareVars,
       activityVars, inputVars
  <2>2. /\ attempt' \in AttemptType /\ attempt'.baseline <= activity /\ attempt'.mode = "idle"
        /\ to = "closed" => attempt'.baseline = attempt.baseline /\ attempt'.gen = nextGeneration
        /\ to = "rest" => attempt'.gen = attempt.gen
    <3>1. CASE to = "rest"
      BY <1>2, <1>3, <2>1, <3>1
    <3>2. CASE to = "closed"
      <4>1. attempt.mode = "idle" /\ attempt.baseline <= activity
        BY <1>5, <2>1 DEF Core, Calm, Closure
      <4>2. /\ attempt' \in AttemptType /\ attempt'.baseline = attempt.baseline
            /\ attempt'.mode = attempt.mode /\ attempt'.gen = nextGeneration
        BY <1>2, <2>1, <3>2 DEF AttemptType
      <4> QED BY <3>2, <4>1, <4>2
    <3> QED BY <3>1, <3>2
  <2>3. Core'
    BY <1>2, <1>5, <2>1, <2>2 DEF Core, Calm, Undisturbed, Quiet, Closure, Hardware, Generations,
       Cycles, Booted
  <2>4. Prepared'
    BY <2>1 DEF Prepared
  <2> QED BY <1>2, <2>1, <2>2, <2>3, <2>4, StepMoves DEF Callee
<1>11. CASE RevalidateClosed
  <2>1. PICK to \in {"display", "reopen"} :
        /\ Step("closed", to) /\ pc = "closed" /\ pc' = to
        /\ UNCHANGED <<power, rtc, attempt, nextGeneration, request, gate, holders, display, armed,
                       board>>
        /\ UNCHANGED <<activity, acted, hand, ring, staged>>
    BY <1>11 DEF RevalidateClosed, Step, Others, gateVars, hardwareVars, activityVars, inputVars
  <2>2. Core'
    BY <1>2, <1>5, <2>1 DEF Core, Calm, Undisturbed, Quiet, Closure, Hardware, Generations,
       Cycles, Booted
  <2>3. Prepared'
    BY <2>1 DEF Prepared
  <2> QED BY <1>2, <2>1, <2>2, <2>3, StepMoves DEF Callee
<1> QED BY <1>6, <1>7, <1>8, <1>9, <1>10, <1>11
\* After the broadcast: the way to the commit, and its aborts.
LEMMA AfterBroadcast ==
    ASSUME IInv, power = "awake",
           Decide \/ ArmWakeSources \/ PreemptArmed \/ HoldBoard \/ CountSleep
           \/ CommitSleepSnapshot \/ UncountSleep
    PROVE  IInv'
<1>1. Running /\ Typed
  BY DEF IInv
<1>2. /\ attempt \in AttemptType /\ attempt.gen \in Nat /\ attempt.baseline \in Nat
      /\ attempt.mode \in {"idle", "emergency"} /\ attempt.ready \in BOOLEAN
      /\ nextGeneration \in Nat /\ activity \in Nat
      /\ rtc \in RtcType /\ rtc.cycles \in 0..MaxGeneration /\ rtc.cycles \in Nat
      /\ request \in BOOLEAN /\ holders \subseteq {"ui"} /\ armed \in BOOLEAN
      /\ gate \in {"open", "idle", "emergency"} /\ MaxGeneration \in Nat /\ MaxActivity \in Nat
      /\ rtc.snapshot \in SnapshotType
  BY <1>1, BoundAssumption DEF Typed, AttemptType, RtcType
<1>3. Core /\ Prepared
  BY <1>1 DEF Running
<1> USE DEF Places, Free, Broadcast, Committing, Undoing, Ending, UncalledPlaces
<1>4. ASSUME NEW from \in {"prepared", "armed"}, Preempt(from), gate = "idle",
             attempt.mode = "idle",
             UNCHANGED <<power, rtc, nextGeneration, gateVars, hardwareVars>>
      PROVE  IInv'
  <2>1. /\ Step(from, "reopen") /\ pc = from /\ pc' = "reopen" /\ request' = FALSE
        /\ attempt' = [attempt EXCEPT !.then = "emergency"]
        /\ UNCHANGED <<power, rtc, nextGeneration, gate, holders, display, armed, board>>
        /\ UNCHANGED <<activity, acted, hand, ring, staged>>
    BY <1>4 DEF Preempt, Step, Others, gateVars, hardwareVars, activityVars, inputVars
  <2>2. /\ attempt' \in AttemptType /\ attempt'.gen = attempt.gen
        /\ attempt'.baseline = attempt.baseline /\ attempt'.mode = attempt.mode
    BY <1>2, <2>1 DEF AttemptType
  <2>3. Core'
    BY <1>2, <1>3, <1>4, <2>1, <2>2 DEF Core, Calm, Undisturbed, Closure, Hardware,
       Generations, Cycles, Booted
  <2>4. Prepared'
    BY <2>1 DEF Prepared
  <2> QED BY <1>2, <1>4, <2>1, <2>2, <2>3, <2>4, StepMoves DEF Callee
<1>5. CASE Decide
  <2>1. CASE attempt.mode = "idle" /\ attempt.ready /\ Preempt("prepared")
    <3>1. gate = "idle"
      BY <1>3, <2>1 DEF Preempt, Step, Core, Closure
    <3> QED BY <1>4, <1>5, <2>1, <3>1 DEF Decide
  <2>2. CASE ~(attempt.mode = "idle" /\ attempt.ready /\ Preempt("prepared"))
    <3>1. PICK to \in {"reopen", "arm", "powerDown"} :
          /\ Step("prepared", to) /\ pc = "prepared" /\ pc' = to
          /\ to # "powerDown" => attempt.mode = "idle"
          /\ to = "powerDown" => attempt.mode = "emergency"
          /\ to = "arm" => attempt.ready
          /\ UNCHANGED <<power, attempt, rtc, nextGeneration, request, gate, holders, display,
                         armed, board>>
          /\ UNCHANGED <<activity, acted, hand, ring, staged>>
      BY <1>5, <2>2 DEF Decide, Proceed, Step, Others, gateVars, hardwareVars, activityVars,
         inputVars
    <3>2. Core'
      BY <1>2, <1>3, <3>1 DEF Core, Calm, Undisturbed, Quiet, Closure, Hardware, Generations,
         Cycles, Booted
    <3>3. Prepared'
      BY <1>3, <3>1 DEF Prepared, Step, serviceVars, Down
    <3> QED BY <1>2, <3>1, <3>2, <3>3, StepMoves DEF Callee
  <2> QED BY <2>1, <2>2
<1>6. CASE ArmWakeSources
  <2>1. PICK to \in {"armed", "reopen"} :
        /\ Step("arm", to) /\ pc = "arm" /\ pc' = to /\ armed' \in BOOLEAN
        /\ to = "armed" => armed'
        /\ UNCHANGED <<power, attempt, rtc, nextGeneration, request, gate, holders, display, board>>
        /\ UNCHANGED <<activity, acted, hand, ring, staged>>
    BY <1>6 DEF ArmWakeSources, Proceed, Step, Others, gateVars, activityVars, inputVars
  <2>2. Core'
    BY <1>2, <1>3, <2>1 DEF Core, Calm, Undisturbed, Quiet, Closure, Hardware, Generations,
       Cycles, Booted
  <2>3. Prepared'
    BY <1>3, <2>1 DEF Prepared, Step, serviceVars, Down
  <2> QED BY <1>2, <2>1, <2>2, <2>3, StepMoves DEF Callee
<1>7. CASE PreemptArmed
  <2>1. CASE Preempt("armed")
    <3>1. gate = "idle" /\ attempt.mode = "idle"
      BY <1>3, <2>1 DEF Preempt, Step, Core, Closure
    <3> QED BY <1>4, <1>7, <2>1, <3>1 DEF PreemptArmed
  <2>2. CASE ~Preempt("armed")
    <3>1. /\ Step("armed", "hold") /\ pc = "armed" /\ pc' = "hold"
          /\ UNCHANGED <<power, attempt, rtc, nextGeneration, request, gate, holders, display,
                         armed, board>>
          /\ UNCHANGED <<activity, acted, hand, ring, staged>>
      BY <1>7, <2>2 DEF PreemptArmed, Proceed, Step, Others, gateVars, hardwareVars, activityVars,
         inputVars
    <3>2. Core'
      BY <1>2, <1>3, <3>1 DEF Core, Calm, Undisturbed, Quiet, Closure, Hardware, Generations,
         Cycles, Booted
    <3>3. Prepared'
      BY <1>3, <3>1 DEF Prepared, Step, serviceVars, Down
    <3> QED BY <1>2, <3>1, <3>2, <3>3, StepMoves DEF Callee
  <2> QED BY <2>1, <2>2
<1>8. CASE HoldBoard
  <2>1. PICK to \in {"count", "reopen"} :
        /\ Step("hold", to) /\ pc = "hold" /\ pc' = to /\ board' = "idle"
        /\ UNCHANGED <<power, attempt, rtc, nextGeneration, request, gate, holders, display, armed>>
        /\ UNCHANGED <<activity, acted, hand, ring, staged>>
    BY <1>8 DEF HoldBoard, Proceed, Step, Others, gateVars, activityVars, inputVars
  <2>2. Core'
    BY <1>2, <1>3, <2>1 DEF Core, Calm, Undisturbed, Quiet, Closure, Hardware, Generations,
       Cycles, Booted
  <2>3. Prepared'
    BY <1>3, <2>1 DEF Prepared, Step, serviceVars, Down
  <2> QED BY <1>2, <2>1, <2>2, <2>3, StepMoves DEF Callee
<1>9. CASE CountSleep
  <2>1. /\ Step("count", "snapshot") /\ pc = "count" /\ pc' = "snapshot"
        /\ rtc' = [rtc EXCEPT !.cycles = @ + 1]
        /\ UNCHANGED <<power, attempt, nextGeneration, request, gate, holders, display, armed,
                       board>>
        /\ UNCHANGED <<activity, acted, hand, ring, staged>>
    BY <1>9 DEF CountSleep, Proceed, Step, Others, gateVars, hardwareVars, activityVars, inputVars
  <2>2. rtc.cycles < attempt.gen /\ attempt.gen <= MaxGeneration /\ attempt.gen < nextGeneration
    BY <1>3, <2>1 DEF Core, Cycles, Generations, Closure
  <2>3. rtc.cycles + 1 \in 0..MaxGeneration
    BY <1>2, <2>2
  <2>4. rtc' \in RtcType /\ rtc'.cycles = rtc.cycles + 1 /\ rtc'.snapshot = rtc.snapshot
    BY <1>2, <2>1, <2>3 DEF RtcType
  <2>5. Core'
    BY <1>2, <1>3, <2>1, <2>2, <2>4 DEF Core, Calm, Undisturbed, Quiet, Closure, Hardware,
       Generations, Cycles, Booted
  <2>6. Prepared'
    BY <1>3, <2>1 DEF Prepared, Step, serviceVars, Down
  <2> QED BY <1>2, <2>1, <2>4, <2>5, <2>6, StepMoves DEF Callee
<1>10. CASE CommitSleepSnapshot
  <2>1. /\ Step("snapshot", "commit") /\ pc = "snapshot" /\ pc' = "commit"
        /\ rtc' = [rtc EXCEPT !.snapshot = Snapshot]
        /\ UNCHANGED <<power, attempt, nextGeneration, request, gate, holders, display, armed,
                       board>>
        /\ UNCHANGED <<activity, acted, hand, ring, staged>>
    BY <1>10 DEF CommitSleepSnapshot, Proceed, Step, Others, gateVars, hardwareVars, activityVars,
       inputVars
  <2>2. /\ Snapshot \in SnapshotType /\ Snapshot.mode = attempt.mode
        /\ Snapshot.gen = attempt.gen /\ Snapshot.cycles = rtc.cycles
    BY <1>2 DEF Snapshot, SnapshotType
  <2>3. rtc' \in RtcType /\ rtc'.cycles = rtc.cycles /\ rtc'.snapshot = Snapshot
    BY <1>2, <2>1, <2>2 DEF RtcType
  <2>4. Core'
    BY <1>2, <1>3, <2>1, <2>2, <2>3 DEF Core, Calm, Undisturbed, Quiet, Closure, Hardware,
       Generations, Cycles, Booted
  <2>5. Prepared'
    BY <1>3, <2>1 DEF Prepared, Step, serviceVars, Down
  <2> QED BY <1>2, <2>1, <2>3, <2>4, <2>5, StepMoves DEF Callee
<1>11. CASE UncountSleep
  <2>1. /\ Step("uncount", "reopen") /\ pc = "uncount" /\ pc' = "reopen"
        /\ rtc' = [rtc EXCEPT !.cycles = 0]
        /\ UNCHANGED <<power, attempt, nextGeneration, request, gate, holders, display, armed,
                       board>>
        /\ UNCHANGED <<activity, acted, hand, ring, staged>>
    BY <1>11 DEF UncountSleep, Proceed, Step, Others, gateVars, hardwareVars, activityVars,
         inputVars
  <2>2. 0 \in 0..MaxGeneration
    BY <1>2
  <2>3. rtc' \in RtcType /\ rtc'.cycles = 0 /\ rtc'.snapshot = rtc.snapshot
    BY <1>2, <2>1, <2>2 DEF RtcType
  <2>4. Core'
    BY <1>2, <1>3, <2>1, <2>3 DEF Core, Calm, Undisturbed, Quiet, Closure, Hardware, Generations,
       Cycles, Booted
  <2>5. Prepared'
    BY <2>1 DEF Prepared
  <2> QED BY <1>2, <2>1, <2>3, <2>4, <2>5, StepMoves DEF Callee
<1> QED BY <1>5, <1>6, <1>7, <1>8, <1>9, <1>10, <1>11

\* The commit: asleep with everything prepared, or back.
LEMMA CommitKeeps ==
    ASSUME IInv, CommitDeepSleep
    PROVE  IInv'
<1>1. power = "awake" /\ pc = "commit" /\ Running /\ Typed /\ Inputs
  BY DEF IInv, CommitDeepSleep, Proceed, Step
<1>2. /\ UNCHANGED <<rtc, nextGeneration, gate, holders, display, armed, board, awaiting,
                     service, prepared, queue, reply, wake, depleted, request, attempt>>
      /\ UNCHANGED <<activity, interacted, idle, acted, uiStarted, line, stable, hand, ring,
                     staged>>
  BY DEF CommitDeepSleep, Proceed, Step, Others, gateVars, hardwareVars, activityVars, inputVars,
     serviceVars
<1>3. Core /\ Prepared
  BY <1>1 DEF Running
<1>4. CASE Undisturbed /\ Proceed("commit", "down") /\ power' = "asleep"
  <2>1. Typed'
    BY <1>1, <1>2, <1>4 DEF Typed, Proceed, Step, Places
  <2>2. Inputs'
    BY <1>1, <1>2 DEF Inputs, Quiet
  <2>3. /\ gate = "idle" /\ attempt.mode = "idle" /\ holders = {} /\ Quiet /\ armed
        /\ board = "idle" /\ rtc.snapshot.mode = "idle" /\ rtc.snapshot.gen = attempt.gen
        /\ rtc.snapshot.cycles <= attempt.gen /\ attempt.gen <= MaxGeneration
    BY <1>1, <1>3, <1>4 DEF Core, Calm, Closure, Hardware, Generations, Committing, Free
  <2>4. display = "prepared" /\ Down("audio") /\ Down("connectivity")
    BY <1>1, <1>3, <2>3 DEF Prepared, Committing
  <2>5. Asleep'
    BY <1>2, <2>3, <2>4 DEF Asleep, Down, Quiet, Services
  <2> QED BY <1>4, <2>1, <2>2, <2>5 DEF IInv
<1>5. CASE ~Undisturbed /\ Proceed("commit", "uncount") /\ UNCHANGED power
  <2>1. Step("commit", "uncount") /\ pc' = "uncount" /\ power' = "awake"
    BY <1>1, <1>5 DEF Proceed, Step
  <2>2. Core'
    BY <1>1, <1>2, <1>3, <2>1 DEF Core, Calm, Undisturbed, Closure, Hardware, Generations, Cycles,
       Booted, Free, Broadcast, Committing, Undoing, Ending
  <2>3. Prepared'
    BY <2>1 DEF Prepared, Committing
  <2> QED BY <1>1, <1>2, <2>1, <2>2, <2>3, StepMoves DEF Callee, Typed, Places, UncalledPlaces
<1> QED BY <1>4, <1>5 DEF CommitDeepSleep

\* The rollback around its calls, and the emergency shutdown around its broadcast.
LEMMA AroundCalls ==
    ASSUME IInv, power = "awake",
           Reopen \/ Restore \/ BeginEmergency \/ EndDrain \/ PowerDown
    PROVE  IInv'
<1>1. Running /\ Typed
  BY DEF IInv
<1>2. /\ attempt \in AttemptType /\ attempt.gen \in Nat /\ attempt.baseline \in Nat
      /\ attempt.mode \in {"idle", "emergency"} /\ attempt.then \in {"rest", "emergency"}
      /\ nextGeneration \in Nat /\ activity \in Nat
      /\ rtc \in RtcType /\ rtc.cycles \in 0..MaxGeneration /\ rtc.cycles \in Nat
      /\ request \in BOOLEAN /\ holders \subseteq {"ui"} /\ armed \in BOOLEAN
      /\ gate \in {"open", "idle", "emergency"} /\ MaxGeneration \in Nat /\ MaxActivity \in Nat
      /\ 0 \in 0..MaxActivity + 1
  BY <1>1, BoundAssumption DEF Typed, AttemptType, RtcType
<1>3. Core
  BY <1>1 DEF Running
<1>4. /\ Ended \in AttemptType /\ Ended.gen = attempt.gen /\ Ended.baseline = 0
      /\ Ended.mode = "idle"
  BY <1>2 DEF Ended, NoAttempt, AttemptType
<1> USE DEF Places, Free, Broadcast, Committing, Undoing, Ending, UncalledPlaces
<1>5. CASE Reopen
  <2>1. /\ Step("reopen", "undoConnectivity") /\ pc = "reopen" /\ pc' = "undoConnectivity"
        /\ armed' = FALSE /\ gate' = "open" /\ holders' = holders
        /\ UNCHANGED <<power, attempt, rtc, nextGeneration, request, display, board>>
        /\ UNCHANGED <<activity, acted, hand, ring, staged>>
    BY <1>5 DEF Reopen, Gate!Reopen, Proceed, Step, Others, activityVars, inputVars
  <2>2. Core'
    BY <1>2, <1>3, <2>1 DEF Core, Calm, Undisturbed, Closure, Hardware, Generations, Cycles, Booted
  <2>3. Prepared'
    BY <2>1 DEF Prepared
  <2> QED BY <1>2, <2>1, <2>2, <2>3, StepMoves DEF Callee
<1>6. CASE Restore
  <2>1. /\ Step("restore", attempt.then) /\ pc = "restore" /\ pc' = attempt.then
        /\ attempt' = Ended /\ display' = "normal" /\ board' = "normal"
        /\ rtc' = [rtc EXCEPT !.snapshot = NoSnapshot]
        /\ UNCHANGED <<power, nextGeneration, request, gate, holders, armed>>
        /\ UNCHANGED <<activity, acted, hand, ring, staged>>
    BY <1>6 DEF Restore, Step, Others, gateVars, activityVars, inputVars
  <2>2. rtc' \in RtcType /\ rtc'.cycles = rtc.cycles /\ rtc'.snapshot = NoSnapshot
    BY <1>2, <2>1 DEF RtcType, SnapshotType, NoSnapshot
  <2>3. Core'
    BY <1>2, <1>3, <1>4, <2>1, <2>2 DEF Core, Calm, Undisturbed, Closure, Hardware, Generations,
       Cycles, Booted
  <2>4. Prepared'
    BY <1>2, <2>1 DEF Prepared
  <2> QED BY <1>2, <1>4, <2>1, <2>2, <2>3, <2>4, StepMoves DEF Callee
<1>7. CASE BeginEmergency
  <2>1. pc = "emergency" /\ gate = "open"
    BY <1>3, <1>7 DEF BeginEmergency, Step, Core, Closure
  <2>2. /\ Step("emergency", "drain") /\ pc' = "drain" /\ nextGeneration' = nextGeneration + 1
        /\ gate' = "emergency" /\ holders' = holders
        /\ attempt' = [NoAttempt EXCEPT !.gen = nextGeneration, !.mode = "emergency",
                                        !.ready = TRUE]
        /\ UNCHANGED <<power, rtc, request, display, armed, board>>
        /\ UNCHANGED <<activity, acted, hand, ring, staged>>
    BY <1>7, <2>1 DEF BeginEmergency, Gate!CloseForEmergency, Step, Others, hardwareVars,
       activityVars, inputVars
  <2>3. /\ attempt' \in AttemptType /\ attempt'.gen = nextGeneration /\ attempt'.baseline = 0
        /\ attempt'.mode = "emergency"
    BY <1>2, <2>2 DEF NoAttempt, AttemptType
  <2>4. Core'
    BY <1>2, <1>3, <2>1, <2>2, <2>3 DEF Core, Calm, Undisturbed, Closure, Hardware, Generations,
       Cycles, Booted
  <2>5. Prepared'
    BY <2>2 DEF Prepared
  <2> QED BY <1>2, <2>2, <2>3, <2>4, <2>5, StepMoves DEF Callee
<1>8. CASE EndDrain
  <2>1. /\ Step("drain", "display") /\ pc = "drain" /\ pc' = "display"
        /\ UNCHANGED <<power, attempt, rtc, nextGeneration, request, gate, holders, display, armed,
                       board>>
        /\ UNCHANGED <<activity, acted, hand, ring, staged>>
    BY <1>8 DEF EndDrain, Proceed, Step, Others, gateVars, hardwareVars, activityVars, inputVars
  <2>2. Core'
    BY <1>2, <1>3, <2>1 DEF Core, Calm, Undisturbed, Closure, Hardware, Generations, Cycles, Booted
  <2>3. Prepared'
    BY <2>1 DEF Prepared
  <2> QED BY <1>2, <2>1, <2>2, <2>3, StepMoves DEF Callee
<1>9. CASE PowerDown
  <2>1. /\ Step("powerDown", "shutdown") /\ pc = "powerDown" /\ pc' = "shutdown"
        /\ armed' = FALSE /\ rtc' = [rtc EXCEPT !.snapshot = Snapshot]
        /\ UNCHANGED <<power, attempt, nextGeneration, request, gate, holders, display>>
        /\ UNCHANGED <<activity, acted, hand, ring, staged>>
    BY <1>9 DEF PowerDown, Proceed, Step, Others, gateVars, activityVars, inputVars
  <2>2. Snapshot \in SnapshotType
    BY <1>2 DEF Snapshot, SnapshotType
  <2>3. rtc' \in RtcType /\ rtc'.cycles = rtc.cycles
    BY <1>2, <2>1, <2>2 DEF RtcType
  <2>4. Core'
    BY <1>2, <1>3, <2>1, <2>3 DEF Core, Calm, Undisturbed, Closure, Hardware, Generations, Cycles,
       Booted
  <2>5. Prepared'
    BY <2>1 DEF Prepared
  <2> QED BY <1>2, <2>1, <2>3, <2>4, <2>5, StepMoves DEF Callee
<1> QED BY <1>5, <1>6, <1>7, <1>8, <1>9

LEMMA ShutdownKeeps ==
    ASSUME IInv, Shutdown
    PROVE  IInv'
<1>1. power = "awake" /\ pc = "shutdown" /\ pc' = "down" /\ power' = "off"
  BY DEF Shutdown, Proceed, Step
<1>2. /\ UNCHANGED <<rtc, nextGeneration, gate, holders, display, armed, board, awaiting,
                     service, prepared, queue, reply, wake, depleted, request, attempt>>
      /\ UNCHANGED <<activity, interacted, idle, acted, uiStarted, line, stable, hand, ring,
                     staged>>
  BY DEF Shutdown, Proceed, Step, Others, gateVars, hardwareVars, activityVars, inputVars,
     serviceVars
<1>3. gate = "emergency"
  BY <1>1 DEF IInv, Running, Core, Closure, Ending
<1>4. Typed'
  BY <1>1, <1>2 DEF IInv, Typed, Places
<1>5. Inputs'
  BY <1>2 DEF IInv, Inputs, Quiet
<1> QED BY <1>1, <1>2, <1>3, <1>4, <1>5 DEF IInv
--------------------------------------------------------------------------------
(* The calls. *)

\* What a call leaves alone.
LEMMA CallFrame ==
    ASSUME Typed, Others, UNCHANGED <<power, rtc, nextGeneration, request, gateVars, armed, board,
                                      service, prepared>>
    PROVE  /\ Others /\ rtc' \in RtcType /\ nextGeneration' \in Nat /\ request' \in BOOLEAN
           /\ holders' \subseteq {"ui"} /\ gate' \in {"open", "idle", "emergency"}
           /\ armed' \in BOOLEAN
           /\ UNCHANGED <<rtc, nextGeneration, gate, holders, armed, board, activity, acted, hand,
                          ring, staged, service, prepared>>
BY DEF Typed, gateVars, Others, activityVars, inputVars

\* A part has concluded: it is not ready, or it is prepared.
LEMMA ConcludeKeeps ==
    ASSUME IInv, power = "awake", pc \in DOMAIN Following, NEW ok \in BOOLEAN, Conclude(ok),
           display' \in {display, "prepared"}, pc = "display" \/ display' = display,
           pc = "display" /\ ok => display' = "prepared",
           pc \in Services /\ ok => Down(pc),
           unsent \subseteq unsent',
           pc \in DOMAIN Callee => \/ pc \in Services \/ awaiting # NoCommand
                                  \/ <<Callee[pc], attempt.gen>> \in unsent'
    PROVE  IInv'
<1>1. Running /\ Typed /\ Core /\ Prepared /\ Fresh /\ Undone
  BY DEF IInv, Running, Serving
<1>2. /\ Others /\ pc' = Following[pc] /\ awaiting' = NoCommand /\ reply' = NoReply
      /\ attempt' = [attempt EXCEPT !.ready = @ /\ ok]
      /\ UNCHANGED <<power, rtc, nextGeneration, request, gateVars, armed, board,
                     service, prepared, queue>>
  BY DEF Conclude
<1>3. /\ rtc' \in RtcType /\ nextGeneration' \in Nat /\ request' \in BOOLEAN
      /\ holders' \subseteq {"ui"} /\ gate' \in {"open", "idle", "emergency"} /\ armed' \in BOOLEAN
      /\ UNCHANGED <<rtc, nextGeneration, gate, holders, armed, board, activity, acted, hand,
                     ring, staged, service, prepared>>
  BY <1>1, <1>2, CallFrame
<1>4. /\ attempt \in AttemptType /\ attempt.gen \in Nat /\ attempt.ready \in BOOLEAN
  BY <1>1 DEF Typed, AttemptType
<1>5. /\ attempt' \in AttemptType /\ attempt'.gen = attempt.gen /\ attempt'.mode = attempt.mode
      /\ attempt'.baseline = attempt.baseline /\ (attempt'.ready <=> attempt.ready /\ ok)
  BY <1>2, <1>4 DEF AttemptType
<1>6. \/ pc = "display" /\ pc' = "storage"
      \/ pc = "storage" /\ pc' = "audio"
      \/ pc = "audio" /\ pc' = "connectivity"
      \/ pc = "connectivity" /\ pc' = "prepared"
      \/ pc = "undoConnectivity" /\ pc' = "undoAudio"
      \/ pc = "undoAudio" /\ pc' = "restore"
  BY <1>2 DEF Following
<1>7. Core'
  BY <1>1, <1>3, <1>5, <1>6 DEF Core, Calm, Undisturbed, Quiet, Closure, Hardware, Generations,
     Cycles, Booted, Free, Broadcast, Committing, Undoing, Ending
<1>8. Prepared'
  <2>1. \A s \in Services : Down(s)' <=> Down(s)
    BY <1>2, <1>5 DEF Down
  <2>2. /\ pc = "audio" /\ ok => Down("audio")
        /\ pc = "connectivity" /\ ok => Down("connectivity")
    BY DEF Services
  <2> QED BY <1>1, <1>5, <1>6, <2>1, <2>2 DEF Prepared, Committing, Services
<1>9. Fresh'
  <2>1. \A s \in Services : Uncalled(s)' => Uncalled(s)
    BY <1>2, <1>6 DEF Uncalled, Services
  <2> QED BY <1>1, <1>2, <1>5, <2>1 DEF Fresh, Older, Services
<1>10. Calls'
  BY <1>2 DEF Calls
<1>11. Undone'
  <2>1. \A s \in Services :
           RollbackAhead(s) => RollbackAhead(s)' \/ <<s, attempt.gen>> \in unsent'
    BY <1>1, <1>2, <1>3, <1>6 DEF RollbackAhead, Services, Callee
  <2>2. \A s \in Services : \A i \in Nat :
           /\ RollbackQueued(s, i) => RollbackQueued(s, i)'
           /\ Lost(s, i) => Lost(s, i)'
    BY <1>2, <1>5 DEF RollbackQueued, Lost
  <2>3. ASSUME NEW s \in Services, service'[s] = "quiesced"
        PROVE  \/ RollbackAhead(s)' /\ (s = "audio" => prepared' = attempt'.gen)
               \/ RollbackQueued(s, 0)'
               \/ Lost(s, 0)'
    <3>1. CASE RollbackAhead(s) /\ (s = "audio" => prepared = attempt.gen)
      BY <1>2, <1>5, <2>1, <3>1 DEF Lost
    <3> QED BY <1>1, <1>2, <2>2, <2>3, <3>1 DEF Undone
  <2>4. ASSUME NEW s \in Services, NEW i \in 1..Len(queue'[s]), queue'[s][i].kind = "prepare"
        PROVE  \/ RollbackAhead(s)' /\ (s = "audio" => queue'[s][i].gen = attempt'.gen)
               \/ RollbackQueued(s, i)'
               \/ Lost(s, i)'
    <3>1. i # 0 /\ i \in Nat /\ queue' = queue
      BY <1>2
    <3>2. CASE RollbackAhead(s) /\ (s = "audio" => queue[s][i].gen = attempt.gen)
      BY <1>2, <1>5, <2>1, <3>1, <3>2 DEF Lost
    <3> QED BY <1>1, <2>2, <2>4, <3>1, <3>2 DEF Undone
  <2> QED BY <2>3, <2>4 DEF Undone
<1>12. Serving' /\ pc' \in Places /\ awaiting' \in CommandType /\ reply' \in ReplyType
       /\ queue' \in [Services -> Seq(CommandType)]
  BY <1>1, <1>2, <1>6, <1>9, <1>10, <1>11 DEF Serving, Places, Free, Broadcast, Committing, Undoing,
     Ending, NoCommand, NoReply, CommandType, ReplyType, Typed
<1> QED BY <1>2, <1>3, <1>5, <1>7, <1>8, <1>12, TaskMoves

LEMMA PartConcludes ==
    ASSUME IInv, \/ PrepareDisplay \/ PrepareStorage \/ SkipService \/ LoseRollback
                 \/ TakeReply \/ GiveUp
    PROVE  IInv'
<1>1. power = "awake"
  BY DEF PrepareDisplay, PrepareStorage, SkipService, LoseRollback, TakeReply, GiveUp, Calling
<1>2. Running /\ Typed
  BY <1>1 DEF IInv
<1>3. ASSUME PrepareDisplay
      PROVE  IInv'
  <2>1. PICK ok \in BOOLEAN : /\ Conclude(ok) /\ pc = "display"
                              /\ display' \in {display, "prepared"}
                              /\ ok => display' = "prepared"
                              /\ unsent' = unsent
    BY <1>3 DEF PrepareDisplay
  <2> QED BY <1>1, <2>1, ConcludeKeeps DEF Following, Services, Callee
<1>4. ASSUME PrepareStorage
      PROVE  IInv'
  <2>1. PICK ok \in BOOLEAN : /\ Conclude(ok) /\ pc = "storage"
                              /\ display' = display /\ unsent' = unsent
    BY <1>4 DEF PrepareStorage
  <2> QED BY <1>1, <2>1, ConcludeKeeps DEF Following, Services, Callee
<1>5. ASSUME SkipService \/ LoseRollback \/ GiveUp
      PROVE  IInv'
  <2>1. /\ Conclude(FALSE) /\ pc \in DOMAIN Callee /\ display' = display
        /\ unsent \subseteq unsent'
        /\ \/ pc \in Services \/ awaiting # NoCommand
           \/ <<Callee[pc], attempt.gen>> \in unsent'
    BY <1>5 DEF SkipService, LoseRollback, GiveUp, Calling
  <2>2. pc \in DOMAIN Following /\ pc # "display"
    BY <2>1 DEF Following, Callee
  <2> QED BY <1>1, <2>1, <2>2, ConcludeKeeps
<1>6. ASSUME TakeReply
      PROVE  IInv'
  <2>1. /\ awaiting # NoCommand /\ Answers(reply, awaiting) /\ pc \in DOMAIN Callee
        /\ Conclude(reply.ok \/ awaiting.kind = "rollback")
        /\ display' = display /\ unsent' = unsent
    BY <1>6 DEF TakeReply, Calling
  <2>2. pc \in DOMAIN Following /\ pc # "display"
    BY <2>1 DEF Following, Callee
  <2>3. (reply.ok \/ awaiting.kind = "rollback") \in BOOLEAN
    OBVIOUS
  <2>4. pc \in Services /\ (reply.ok \/ awaiting.kind = "rollback") => Down(pc)
    <3> SUFFICES ASSUME pc \in Services, reply.ok \/ awaiting.kind = "rollback"
                 PROVE  Down(pc)
      OBVIOUS
    <3>1. Called(pc)
      BY <1>2, <2>1 DEF Running, Serving, Calls
    <3>2. awaiting.kind = "prepare"
      BY <3>1 DEF Called
    <3> QED BY <2>1, <3>1, <3>2 DEF Called
  <2> QED BY <1>1, <2>1, <2>2, <2>3, <2>4, ConcludeKeeps
<1> QED BY <1>3, <1>4, <1>5, <1>6

\* A command goes to the end of the queue of its service.
LEMMA SendKeeps ==
    ASSUME IInv, SendCommand
    PROVE  IInv'
<1>0. PICK s \in Services : s = Callee[pc]
  BY DEF SendCommand, Calling, Callee, Services
<1> DEFINE c == [kind |-> IF pc \in Services THEN "prepare" ELSE "rollback", gen |-> attempt.gen]
<1>1. /\ power = "awake" /\ pc \in DOMAIN Callee /\ awaiting = NoCommand
      /\ queue' = [queue EXCEPT ![s] = Append(@, c)] /\ awaiting' = c /\ Others
      /\ UNCHANGED <<power, rtc, pc, attempt, nextGeneration, request, gateVars, hardwareVars,
                     service, prepared, reply, unsent>>
  BY <1>0 DEF SendCommand, Calling
<1>2. Running /\ Typed /\ Core /\ Prepared /\ Fresh /\ Undone /\ Calls
  BY <1>1 DEF IInv, Running, Serving
<1>3. /\ s \in Services
      /\ \/ pc = "audio" /\ s = "audio" /\ c.kind = "prepare"
         \/ pc = "connectivity" /\ s = "connectivity" /\ c.kind = "prepare"
         \/ pc = "undoConnectivity" /\ s = "connectivity" /\ c.kind = "rollback"
         \/ pc = "undoAudio" /\ s = "audio" /\ c.kind = "rollback"
  BY <1>0, <1>1 DEF Callee, Services
<1>4. /\ attempt \in AttemptType /\ attempt.gen \in Nat /\ reply = NoReply
      /\ queue \in [Services -> Seq(CommandType)] /\ prepared \in Nat
  BY <1>1, <1>2 DEF Typed, AttemptType, Calls
<1>5. c \in CommandType /\ c.gen = attempt.gen /\ awaiting' # NoCommand
  BY <1>1, <1>4 DEF CommandType, NoCommand
<1> HIDE DEF c
<1>6. /\ queue' \in [Services -> Seq(CommandType)] /\ queue'[s] = Append(queue[s], c)
      /\ \A t \in Services \ {s} : queue'[t] = queue[t]
  BY <1>1, <1>3, <1>4, <1>5
<1>7. /\ queue[s] \in Seq(CommandType) /\ Len(queue[s]) \in Nat
      /\ Len(queue'[s]) = Len(queue[s]) + 1 /\ queue'[s][Len(queue[s]) + 1] = c
      /\ \A i \in 1..Len(queue[s]) : queue'[s][i] = queue[s][i]
      /\ queue'[s] # <<>>
  BY <1>3, <1>4, <1>5, <1>6
<1>8. /\ rtc' \in RtcType /\ nextGeneration' \in Nat /\ request' \in BOOLEAN
      /\ holders' \subseteq {"ui"} /\ gate' \in {"open", "idle", "emergency"} /\ armed' \in BOOLEAN
      /\ UNCHANGED <<rtc, nextGeneration, gate, holders, armed, board, activity, acted, hand,
                     ring, staged, service, prepared, display, pc, attempt, reply>>
  BY <1>1, <1>2, CallFrame DEF hardwareVars
<1>9. Core'
  BY <1>2, <1>8 DEF Core, Calm, Undisturbed, Quiet, Closure, Hardware, Generations, Cycles, Booted
<1>10. Prepared'
  <2>1. \A t \in Services \ {s} : Down(t)' <=> Down(t)
    BY <1>6, <1>8 DEF Down
  <2>2. s = "audio" => pc \in {"audio", "undoAudio"}
    BY <1>3
  <2>3. s = "connectivity" => pc \in {"connectivity", "undoConnectivity"}
    BY <1>3
  <2> QED BY <1>2, <1>3, <1>8, <2>1, <2>2, <2>3 DEF Prepared, Committing, Services
<1>11. Fresh'
  <2>1. \A t \in Services : \A i \in 1..Len(queue'[t]) :
           \/ i \in 1..Len(queue[t]) /\ queue'[t][i] = queue[t][i]
           \/ t = s /\ queue'[t][i] = c
    <3>1. \A i \in 1..Len(queue[s]) + 1 : i \in 1..Len(queue[s]) \/ i = Len(queue[s]) + 1
      BY <1>7
    <3> QED BY <1>6, <1>7, <3>1
  <2>2. \A t \in Services : Uncalled(t)' => Uncalled(t) /\ t # s
    BY <1>1, <1>3, <1>5, <1>8 DEF Uncalled, Services
  <2>3. \A t \in Services : \A i \in 1..Len(queue'[t]) : queue'[t][i].gen <= attempt.gen
    BY <1>2, <1>4, <1>5, <2>1 DEF Fresh
  <2>4. \A t \in Services : Uncalled(t)' => Older(t, attempt.gen)'
    BY <1>2, <1>6, <1>8, <2>2 DEF Fresh, Older
  <2> QED BY <1>2, <1>8, <2>2, <2>3, <2>4 DEF Fresh, Services
<1>12. Calls'
  <2>1. ASSUME NEW t \in Services, pc = t
        PROVE  Called(t)'
    <3>1. t = s /\ c = [kind |-> "prepare", gen |-> attempt.gen] /\ Uncalled(s)
      BY <1>1, <1>3, <2>1 DEF c, Services, Uncalled
    <3>2. ~Answers(reply, awaiting)'
      BY <1>1, <1>4, <1>8, <3>1 DEF Answers, NoReply
    <3>3. \A i \in 1..Len(queue'[s]) - 1 : queue'[s][i].gen < attempt.gen
      BY <1>2, <1>3, <1>7, <3>1 DEF Fresh, Older
    <3>4. s = "audio" => prepared' < attempt.gen
      BY <1>2, <1>8, <3>1 DEF Fresh
    <3>5. queue'[s][Len(queue'[s])] = c /\ queue'[s] # <<>>
      BY <1>7
    <3> QED BY <1>1, <1>8, <3>1, <3>2, <3>3, <3>4, <3>5 DEF Called
  <2> QED BY <1>1, <1>5, <1>8, <2>1 DEF Calls
<1>13. Undone'
  <2>1. \A t \in Services \ {s} : RollbackAhead(t)' <=> RollbackAhead(t)
    <3>1. pc = "undoConnectivity" => s = "connectivity"
      BY <1>3
    <3>2. pc = "undoAudio" => s = "audio"
      BY <1>3
    <3> QED BY <1>8, <3>1, <3>2 DEF RollbackAhead, Services
  <2>2. ASSUME NEW t \in Services \ {s}
        PROVE  /\ service'[t] = "quiesced" =>
                     \/ RollbackAhead(t)' /\ (t = "audio" => prepared' = attempt'.gen)
                     \/ RollbackQueued(t, 0)'
                     \/ Lost(t, 0)'
               /\ \A i \in 1..Len(queue'[t]) : queue'[t][i].kind = "prepare" =>
                     \/ RollbackAhead(t)' /\ (t = "audio" => queue'[t][i].gen = attempt'.gen)
                     \/ RollbackQueued(t, i)'
                     \/ Lost(t, i)'
    <3>1. queue'[t] = queue[t]
      BY <1>6
    <3>2. \A i \in Nat : RollbackQueued(t, i) => RollbackQueued(t, i)'
      BY <1>8, <3>1 DEF RollbackQueued
    <3>3. 0 \in Nat /\ \A i \in 1..Len(queue[t]) : i \in Nat
      OBVIOUS
    <3>4. \A i \in Nat : Lost(t, i) => Lost(t, i)'
      BY <1>1, <1>8, <3>1 DEF Lost
    <3> QED BY <1>2, <1>8, <2>1, <3>1, <3>2, <3>3, <3>4 DEF Undone
  <2>3. \A i \in 0..Len(queue[s]) : RollbackQueued(s, i) => RollbackQueued(s, i)'
    <3> SUFFICES ASSUME NEW i \in 0..Len(queue[s]), RollbackQueued(s, i)
                 PROVE  RollbackQueued(s, i)'
      OBVIOUS
    <3>1. PICK j \in i + 1..Len(queue[s]) :
             /\ queue[s][j].kind = "rollback"
             /\ s = "audio" => queue[s][j].gen = (IF i = 0 THEN prepared ELSE queue[s][i].gen)
      BY DEF RollbackQueued
    <3>2. j \in i + 1..Len(queue'[s]) /\ queue'[s][j] = queue[s][j]
      BY <1>7
    <3>3. i # 0 => queue'[s][i] = queue[s][i]
      BY <1>7
    <3>4. /\ queue'[s][j].kind = "rollback"
          /\ s = "audio" => queue'[s][j].gen = (IF i = 0 THEN prepared' ELSE queue'[s][i].gen)
      BY <1>8, <3>1, <3>2, <3>3
    <3> QED BY <3>2, <3>4 DEF RollbackQueued
  <2>6. \A i \in 0..Len(queue[s]) : Lost(s, i) => Lost(s, i)'
    <3> SUFFICES ASSUME NEW i \in 0..Len(queue[s]), Lost(s, i)
                 PROVE  Lost(s, i)'
      OBVIOUS
    <3>1. i # 0 => queue'[s][i] = queue[s][i]
      BY <1>7
    <3> QED BY <1>1, <1>8, <3>1 DEF Lost
  <2>4. CASE c.kind = "prepare"
    <3>1. gate # "open" /\ gate' # "open"
      BY <1>2, <1>3, <1>8, <2>4 DEF Core, Closure, Broadcast, Typed, AttemptType
    <3>2. RollbackAhead(s) /\ RollbackAhead(s)'
      BY <3>1 DEF RollbackAhead
    <3>3. service'[s] = "quiesced" => \/ (s = "audio" => prepared' = attempt'.gen)
                                      \/ RollbackQueued(s, 0)' \/ Lost(s, 0)'
      BY <1>2, <1>3, <1>7, <1>8, <2>3, <2>6 DEF Undone
    <3>4. ASSUME NEW i \in 1..Len(queue'[s]), queue'[s][i].kind = "prepare"
          PROVE  \/ s = "audio" => queue'[s][i].gen = attempt'.gen
                 \/ RollbackQueued(s, i)' \/ Lost(s, i)'
      <4>1. CASE i = Len(queue[s]) + 1
        BY <1>5, <1>7, <1>8, <4>1
      <4>2. CASE i # Len(queue[s]) + 1
        <5>1. i \in 1..Len(queue[s]) /\ queue'[s][i] = queue[s][i] /\ i \in 0..Len(queue[s])
          BY <1>7, <4>2
        <5> QED BY <1>2, <1>3, <1>8, <2>3, <2>6, <3>4, <5>1 DEF Undone
      <4> QED BY <4>1, <4>2
    <3>5. \A i \in 1..Len(queue'[s]) : queue'[s][i].kind = "prepare" =>
             \/ RollbackAhead(s)' /\ (s = "audio" => queue'[s][i].gen = attempt'.gen)
             \/ RollbackQueued(s, i)' \/ Lost(s, i)'
      BY <3>2, <3>4
    <3>6. service'[s] = "quiesced" =>
             \/ RollbackAhead(s)' /\ (s = "audio" => prepared' = attempt'.gen)
             \/ RollbackQueued(s, 0)' \/ Lost(s, 0)'
      BY <3>2, <3>3
    <3> QED BY <2>2, <3>5, <3>6 DEF Undone
  <2>5. CASE c.kind = "rollback"
    <3>1. ASSUME NEW i \in 0..Len(queue[s]),
                 s = "audio" => (IF i = 0 THEN prepared ELSE queue[s][i].gen) = attempt.gen
          PROVE  RollbackQueued(s, i)'
      <4>1. Len(queue[s]) + 1 \in i + 1..Len(queue'[s])
        BY <1>7
      <4>2. i # 0 => queue'[s][i] = queue[s][i]
        BY <1>7
      <4>3. /\ queue'[s][Len(queue[s]) + 1].kind = "rollback"
            /\ s = "audio" => queue'[s][Len(queue[s]) + 1].gen
                                 = (IF i = 0 THEN prepared' ELSE queue'[s][i].gen)
        BY <1>5, <1>7, <1>8, <2>5, <3>1, <4>2
      <4> QED BY <4>1, <4>3 DEF RollbackQueued
    <3>2. 0 \in 0..Len(queue[s])
      BY <1>7
    <3>3. service'[s] = "quiesced" => RollbackQueued(s, 0)' \/ Lost(s, 0)'
      BY <1>2, <1>3, <1>8, <2>3, <2>6, <3>1, <3>2 DEF Undone
    <3>4. ASSUME NEW i \in 1..Len(queue'[s]), queue'[s][i].kind = "prepare"
          PROVE  RollbackQueued(s, i)' \/ Lost(s, i)'
      <4>1. i # Len(queue[s]) + 1
        BY <1>7, <2>5, <3>4
      <4>2. i \in 1..Len(queue[s]) /\ queue'[s][i] = queue[s][i] /\ i \in 0..Len(queue[s]) /\ i # 0
        BY <1>7, <4>1
      <4> QED BY <1>2, <1>3, <1>8, <2>3, <2>6, <3>1, <3>4, <4>2 DEF Undone
    <3>5. \A i \in 1..Len(queue'[s]) : queue'[s][i].kind = "prepare" =>
             RollbackQueued(s, i)' \/ Lost(s, i)'
      BY <3>4
    <3> QED BY <2>2, <3>3, <3>5 DEF Undone
  <2> QED BY <1>3, <2>4, <2>5
<1>14. Serving'
  BY <1>11, <1>12, <1>13 DEF Serving
<1>15. awaiting' \in CommandType /\ reply' \in ReplyType /\ pc' \in Places
       /\ attempt' \in AttemptType
  BY <1>1, <1>2, <1>5, <1>8 DEF Typed
<1> QED BY <1>1, <1>6, <1>8, <1>9, <1>10, <1>14, <1>15, TaskMoves

--------------------------------------------------------------------------------
LEMMA InitHolds ==
    ASSUME Init
    PROVE  IInv
<1>1. \A s \in Services : service[s] = "active" /\ queue[s] = <<>> /\ Len(queue[s]) = 0
  BY DEF Init
<1>2. /\ attempt \in AttemptType /\ attempt.gen = 0 /\ attempt.baseline = 0
      /\ attempt.mode = "idle" /\ awaiting \in CommandType /\ reply \in ReplyType
      /\ attempt = NoAttempt
  BY BoundAssumption DEF Init, NoAttempt, NoCommand, NoReply, AttemptType, CommandType, ReplyType
<1>3. rtc \in RtcType /\ rtc.snapshot = NoSnapshot /\ rtc.cycles = 0
  BY BoundAssumption DEF Init, EmptyRtc, NoSnapshot, RtcType, SnapshotType
<1>4. Typed
  <2>1. queue \in [Services -> Seq(CommandType)]
        /\ service \in [Services -> {"active", "quiesced", "stuck"}]
    BY DEF Init
  <2>2. activity \in 0..MaxActivity + 1 /\ ring \in 0..RingCapacity
    BY BoundAssumption DEF Init
  <2> QED BY <1>2, <1>3, <2>1, <2>2 DEF Init, Typed, Places
<1>5. Inputs
  BY DEF Init, Inputs, Quiet
<1>6. Calm /\ Closure
  BY <1>2 DEF Init, Calm, Closure, Free, Undoing, Broadcast, Committing, Ending
<1>7. Hardware /\ Generations
  BY <1>2, BoundAssumption DEF Init, Hardware, Generations, Free, Undoing
<1>8. Cycles /\ Booted
  BY <1>2, <1>3 DEF Init, Cycles, Booted, Free, Broadcast
<1>9. Serving
  BY <1>1, <1>2 DEF Init, Serving, Fresh, Uncalled, Older, Calls, Undone
<1>10. Prepared
  BY DEF Init, Prepared, Committing
<1> QED BY <1>4, <1>5, <1>6, <1>7, <1>8, <1>9, <1>10 DEF Init, IInv, Running, Core

\* The invariant holds in every state.
LEMMA Inductive ==
    Spec => []IInv
<1>1. IInv /\ [Next]_vars => IInv'
  <2> SUFFICES ASSUME IInv, [Next]_vars PROVE IInv'
    OBVIOUS
  <2>1. CASE PowerTask
    <3>1. power = "awake"
      BY <2>1 DEF PowerTask, StartPowerCoordinator, Loop, CheckIdle, Revalidate, BeginQuiesce,
         RevalidateClosed, PrepareDisplay, PrepareStorage, SkipService, SendCommand, TakeReply,
         LoseRollback, GiveUp, Decide, ArmWakeSources, PreemptArmed, HoldBoard, CountSleep,
         CommitSleepSnapshot, CommitDeepSleep, UncountSleep, Reopen, Restore,
         BeginEmergency, EndDrain, PowerDown, Shutdown, Calling, Preempt, Proceed, Step
    <3> QED BY <2>1, <3>1, BeforeClosing, PartConcludes, SendKeeps, AfterBroadcast, CommitKeeps,
               AroundCalls, ShutdownKeeps DEF PowerTask
  <2> QED BY <2>1, ButtonKeeps, UiKeeps, ServiceKeeps, WorldKeeps DEF Next
<1> QED BY <1>1, InitHolds, PTL DEF Spec

\* power_manager.cpp:109-118: whatever the number of keys, the capacity of the ring and the
\* interleaving of button, UI and power task, an input that was published is not lost with
\* RAM when the chip goes to idle sleep.
THEOREM InputsSurviveIdleSleep ==
    Spec => []NoInputLostToIdleSleep
<1>1. IInv => NoInputLostToIdleSleep
  BY DEF IInv, Asleep, Quiet, NoInputLostToIdleSleep
<1> QED BY <1>1, Inductive, PTL

\* BroadcastPrepareSleep .. CommitDeepSleep: the chip goes to idle sleep only with display,
\* audio and connectivity prepared by this very attempt, however late the answers to
\* earlier attempts come.
THEOREM SleepIsPrepared ==
    Spec => []IdleSleepFullyPrepared
<1>1. IInv => IdleSleepFullyPrepared
  BY DEF IInv, Asleep, Down, IdleSleepFullyPrepared, Services
<1> QED BY <1>1, Inductive, PTL

\* RollbackSleepPreparation: after an aborted attempt everything is as before, except what a
\* rollback still in a queue will undo, and except a service whose rollback was never sent
\* (SubmitCommand and Call time out on their mutex or on a full queue); a sleep that an
\* interaction cancelled is not counted.
THEOREM TransactionIsSound ==
    Spec => []TransactionSound
<1>1. IInv => TypeOK
  <2> SUFFICES ASSUME IInv PROVE TypeOK
    OBVIOUS
  <2>1. Typed /\ MaxGeneration \in Nat
    BY BoundAssumption DEF IInv
  <2>2. rtc.cycles \in 0..MaxGeneration + 1
    BY <2>1 DEF Typed, RtcType
  <2>3. attempt.baseline \in 0..MaxActivity + 1
    BY <2>1 DEF Typed, AttemptType
  <2>4. awaiting.kind \in {"none", "prepare", "rollback"}
    BY <2>1 DEF Typed, CommandType
  <2> QED BY <2>1, <2>2, <2>3, <2>4 DEF Typed, TypeOK, Gate!TypeOK, Following, Places, Free,
             Broadcast, Committing, Undoing, Ending
<1>2. IInv => AbortLeavesDeviceRunning
  <2> SUFFICES ASSUME IInv, power = "awake", pc \in {"rest", "emergency"}
               PROVE  /\ gate = "open" /\ ~armed
                      /\ board = "normal" /\ display = "normal"
                      /\ \A s \in Services :
                            service[s] = "quiesced" => WillResume(s) \/ Forsaken(s)
                      /\ attempt.gen > 0 => rtc.snapshot = NoSnapshot
                      /\ pc = "rest" /\ acted => rtc.cycles = 0
    BY DEF AbortLeavesDeviceRunning
  <2>1. Core /\ Undone /\ Typed
    BY DEF IInv, Running, Serving
  <2>2. ASSUME NEW s \in Services, service[s] = "quiesced"
        PROVE  WillResume(s) \/ Forsaken(s)
    <3>1. ~RollbackAhead(s)
      BY <2>1 DEF Core, Closure, RollbackAhead, Free
    <3>2. CASE Lost(s, 0)
      BY <3>2 DEF Lost, Forsaken
    <3>3. CASE RollbackQueued(s, 0)
      <4>1. PICK j \in 0 + 1..Len(queue[s]) :
               queue[s][j].kind = "rollback" /\ (s = "audio" => queue[s][j].gen = prepared)
        BY <3>3 DEF RollbackQueued
      <4>2. j \in DOMAIN queue[s]
        BY <2>1 DEF Typed
      <4> QED BY <4>1, <4>2 DEF WillResume
    <3> QED BY <2>1, <2>2, <3>1, <3>2, <3>3 DEF Undone
  <2> QED BY <2>1, <2>2 DEF Core, Closure, Hardware, Cycles, Free
<1> QED BY <1>1, <1>2, Inductive, PTL DEF TransactionSound

\* The sleep gate as the power task, the UI and the resets use it keeps the promise of
\* LeaseGate, which SleepCoordinator implements: work is admitted only through an open gate,
\* idle sleep begins only without work, and only a reset opens an emergency gate again.
THEOREM GateIsLeaseGate ==
    Spec => Gate!Spec
<1>1. Init => Gate!Init
  BY DEF Init, Gate!Init
<1>2. IInv /\ [Next]_vars => [Gate!Next]_Gate!vars
  <2> SUFFICES ASSUME IInv, [Next]_vars PROVE [Gate!Next]_Gate!vars
    OBVIOUS
  <2> USE DEF Gate!Next, Gate!vars, gateVars
  <2>1. CASE PowerTask
    <3>1. CASE BeginQuiesce \/ BeginEmergency \/ Reopen
      BY <3>1 DEF BeginQuiesce, BeginEmergency, Reopen
    <3>2. CASE StartPowerCoordinator \/ Loop \/ CheckIdle \/ Revalidate \/ RevalidateClosed
               \/ PrepareDisplay \/ PrepareStorage \/ SkipService \/ SendCommand \/ TakeReply
               \/ LoseRollback \/ GiveUp
      BY <3>2 DEF StartPowerCoordinator, Loop, CheckIdle, Revalidate, RevalidateClosed,
         PrepareDisplay, PrepareStorage, SkipService, SendCommand, LoseRollback, TakeReply, GiveUp,
         Conclude
    <3>3. CASE Decide \/ ArmWakeSources \/ PreemptArmed \/ HoldBoard \/ CountSleep
               \/ CommitSleepSnapshot \/ CommitDeepSleep \/ UncountSleep \/ Restore \/ EndDrain
               \/ PowerDown \/ Shutdown
      BY <3>3 DEF Decide, ArmWakeSources, PreemptArmed, HoldBoard, CountSleep,
         CommitSleepSnapshot, CommitDeepSleep, UncountSleep, Restore, EndDrain, PowerDown, Shutdown
    <3> QED BY <2>1, <3>1, <3>2, <3>3 DEF PowerTask
  <2>2. CASE ButtonTask
    BY <2>2 DEF ButtonTask, Classify, StoreInteracted, PublishActivity, QueueEvent, ButtonStep
  <2>3. CASE UiTask
    BY <2>3 DEF UiTask, StartUi, ConsumeEvent, ReserveWrite, FinishWrite
  <2>4. CASE \E s \in Services : HandleCommand(s)
    BY <2>4 DEF HandleCommand
  <2>5. CASE IdleTimePasses \/ Battery \/ (\E k \in Keys : Finger(k)) \/ UNCHANGED vars
    BY <2>5 DEF IdleTimePasses, Battery, Finger, vars, Tasks
  <2>6. CASE Wake \/ PowerOn
    <3>1. gate # "open"
      BY <2>6 DEF Wake, PowerOn, IInv, Asleep
    <3> QED BY <2>6, <3>1 DEF Wake, PowerOn, Boot, Gate!Sleep
  <2> QED BY <2>1, <2>2, <2>3, <2>4, <2>5, <2>6 DEF Next
<1> QED BY <1>1, <1>2, Inductive, PTL DEF Spec, Gate!Spec
================================================================================
