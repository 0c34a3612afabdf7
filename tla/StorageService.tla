---------------------------- MODULE StorageService ----------------------------
(***************************************************************************)
(* main/services/storage_service.cpp: one task owns every file and runs    *)
(* the transactions that other tasks hand it through two bounded queues.   *)
(* The caller blocks; a foreground caller gives up after 15 s, but only    *)
(* while its command is still queued, because the transaction works on the *)
(* caller's stack.  The completion block is shared: whoever is last to use *)
(* it frees it.                                                            *)
(*                                                                         *)
(* A timeout is a step that may happen whenever the wait it ends may still *)
(* be going on.  Left out: the failed allocation of a block (the caller    *)
(* returns at once), the start-up of the task, and the direct call made by *)
(* the storage task itself.                                                *)
(***************************************************************************)
EXTENDS Naturals, Sequences

CONSTANTS Foreground,       \* callers of ExecuteForegroundStorageTransaction
          Background,       \* callers of the two background entries
          ForegroundDepth,  \* kForegroundQueueDepth
          BackgroundDepth,  \* kBackgroundQueueDepth
          MaxRequests       \* bound: calls made

ASSUME CallersAssumption == Foreground \cap Background = {}
ASSUME DepthAssumption == {ForegroundDepth, BackgroundDepth} \subseteq Nat \ {0}
ASSUME RequestsAssumption == MaxRequests \in Nat

VARIABLES caller,      \* of each caller: the step it is at and its request
          foreground,  \* g_foreground_queue
          background,  \* g_background_queue
          state,       \* of each completion block: kCompletion..., or "freed"
          signalled,   \* the semaphore of each block
          result,      \* the result field of each block
          service,     \* the service task: the step it is at and its request
          notified,    \* its task notification
          issued,      \* g_next_request_id: how many requests exist
          outcome,     \* history: what each caller was returned
          ran,         \* history: what each transaction returned, when it was run
          overtaken    \* history: how often a background command went first

vars == <<caller, foreground, background, state, signalled, result, service,
          notified, issued, outcome, ran, overtaken>>

Callers == Foreground \cup Background
Requests == 1..MaxRequests
Outcomes == {"ok", "failed"}
Elements(queue) == {queue[i] : i \in DOMAIN queue}
At(c, pc) == caller[c].pc = pc
Req(c) == caller[c].req
Go(c, pc) == caller' = [caller EXCEPT ![c] = [pc |-> pc, req |-> Req(c)]]
Serve(pc, req) == service' = [pc |-> pc, req |-> req]

Init ==
    /\ caller = [c \in Callers |-> [pc |-> "idle", req |-> 0]]
    /\ foreground = <<>> /\ background = <<>>
    /\ state = [r \in Requests |-> "unborn"]
    /\ signalled = [r \in Requests |-> FALSE]
    /\ result = [r \in Requests |-> "failed"]
    /\ service = [pc |-> "poll", req |-> 0]
    /\ notified = FALSE
    /\ issued = 0
    /\ outcome = [r \in Requests |-> "none"]
    /\ ran = [r \in Requests |-> "none"]
    /\ overtaken = [r \in Requests |-> 0]

--------------------------------------------------------------------------------
(* A caller: ExecuteStorageTransactionInternal. *)

Call(c) ==
    /\ At(c, "idle")
    /\ issued < MaxRequests
    /\ issued' = issued + 1
    /\ caller' = [caller EXCEPT ![c] = [pc |-> "sending", req |-> issued + 1]]
    /\ state' = [state EXCEPT ![issued + 1] = "queued"]
    /\ UNCHANGED <<foreground, background, signalled, result, service, notified,
                   outcome, ran, overtaken>>

\* Mutant of Send: the queue is taken to be unbounded.
SendUnbounded(c) ==
    /\ At(c, "sending")
    /\ IF c \in Foreground
       THEN foreground' = Append(foreground, Req(c)) /\ UNCHANGED background
       ELSE background' = Append(background, Req(c)) /\ UNCHANGED foreground
    /\ Go(c, "notifying")
    /\ UNCHANGED <<state, signalled, result, service, notified, issued, outcome, ran,
                   overtaken>>

\* The command goes to the queue of its class when there is room.
Send(c) ==
    /\ At(c, "sending")
    /\ IF c \in Foreground
       THEN /\ Len(foreground) < ForegroundDepth
            /\ foreground' = Append(foreground, Req(c))
            /\ UNCHANGED background
       ELSE /\ Len(background) < BackgroundDepth
            /\ background' = Append(background, Req(c))
            /\ UNCHANGED foreground
    /\ Go(c, "notifying")
    /\ UNCHANGED <<state, signalled, result, service, notified, issued, outcome, ran,
                   overtaken>>

\* Mutant of Notify: only a task that already waits is notified.
NotifyParked(c) ==
    /\ At(c, "notifying")
    /\ notified' = (notified \/ service.pc = "parked")
    /\ Go(c, "waiting")
    /\ UNCHANGED <<foreground, background, state, signalled, result, service, issued,
                   outcome, ran, overtaken>>

Notify(c) ==
    /\ At(c, "notifying")
    /\ notified' = TRUE
    /\ Go(c, "waiting")
    /\ UNCHANGED <<foreground, background, state, signalled, result, service, issued,
                   outcome, ran, overtaken>>

\* The block is freed and the call returns to its caller.
ReturnWith(c, value) ==
    /\ caller' = [caller EXCEPT ![c] = [pc |-> "idle", req |-> 0]]
    /\ outcome' = [outcome EXCEPT ![Req(c)] = value]

SendTimesOut(c) ==
    /\ c \in Foreground
    /\ At(c, "sending")
    /\ Len(foreground) >= ForegroundDepth
    /\ state' = [state EXCEPT ![Req(c)] = "freed"]
    /\ ReturnWith(c, "timeout")
    /\ UNCHANGED <<foreground, background, signalled, result, service, notified, issued,
                   ran, overtaken>>

\* With the semaphore taken the block is the caller's own: nobody else can look at
\* it any more, so reading the result and freeing the block are part of this step.
Return(c) ==
    /\ At(c, "waiting") \/ At(c, "overrunning")
    /\ signalled[Req(c)]
    /\ signalled' = [signalled EXCEPT ![Req(c)] = FALSE]
    /\ state' = [state EXCEPT ![Req(c)] = "freed"]
    /\ ReturnWith(c, result[Req(c)])
    /\ UNCHANGED <<foreground, background, result, service, notified, issued, ran,
                   overtaken>>

\* Mutant of TakeTimesOut: the budget only covers the run of the transaction.
TakeTimesOutOnceStarted(c) ==
    /\ c \in Foreground
    /\ At(c, "waiting")
    /\ ~signalled[Req(c)]
    /\ state[Req(c)] # "queued"
    /\ Go(c, "expired")
    /\ UNCHANGED <<foreground, background, state, signalled, result, service, notified,
                   issued, outcome, ran, overtaken>>

TakeTimesOut(c) ==
    /\ c \in Foreground
    /\ At(c, "waiting")
    /\ ~signalled[Req(c)]
    /\ Go(c, "expired")
    /\ UNCHANGED <<foreground, background, state, signalled, result, service, notified,
                   issued, outcome, ran, overtaken>>

\* Mutant of Abandon: the caller leaves whatever the state of its command.
AbandonAnyState(c) ==
    /\ At(c, "expired")
    /\ state' = [state EXCEPT ![Req(c)] = "abandoned"]
    /\ ReturnWith(c, "timeout")
    /\ UNCHANGED <<foreground, background, signalled, result, service, notified, issued,
                   ran, overtaken>>

\* The exchange of kCompletionQueued for kCompletionAbandoned succeeds.
Abandon(c) ==
    /\ At(c, "expired")
    /\ state[Req(c)] = "queued"
    /\ state' = [state EXCEPT ![Req(c)] = "abandoned"]
    /\ ReturnWith(c, "timeout")
    /\ UNCHANGED <<foreground, background, signalled, result, service, notified, issued,
                   ran, overtaken>>

\* It fails: the transaction was started, and the caller waits for its end.
Overrun(c) ==
    /\ At(c, "expired")
    /\ state[Req(c)] # "queued"
    /\ Go(c, "overrunning")
    /\ UNCHANGED <<foreground, background, state, signalled, result, service, notified,
                   issued, outcome, ran, overtaken>>

--------------------------------------------------------------------------------
(* The storage task: ReceiveNextCommand and StorageServiceTask. *)

ReceiveForeground ==
    /\ service.pc = "poll"
    /\ foreground # <<>>
    /\ Serve("received", Head(foreground))
    /\ foreground' = Tail(foreground)
    /\ UNCHANGED <<caller, background, state, signalled, result, notified, issued,
                   outcome, ran, overtaken>>

\* Mutant of ForegroundEmpty: the foreground queue is not looked at first.
ForegroundUnchecked ==
    /\ service.pc = "poll"
    /\ Serve("pollBackground", 0)
    /\ UNCHANGED <<caller, foreground, background, state, signalled, result, notified,
                   issued, outcome, ran, overtaken>>

ForegroundEmpty ==
    /\ service.pc = "poll"
    /\ foreground = <<>>
    /\ Serve("pollBackground", 0)
    /\ UNCHANGED <<caller, foreground, background, state, signalled, result, notified,
                   issued, outcome, ran, overtaken>>

ReceiveBackground ==
    /\ service.pc = "pollBackground"
    /\ background # <<>>
    /\ Serve("received", Head(background))
    /\ background' = Tail(background)
    /\ overtaken' = [r \in Requests |->
                        IF r \in Elements(foreground) THEN overtaken[r] + 1 ELSE overtaken[r]]
    /\ UNCHANGED <<caller, foreground, state, signalled, result, notified, issued,
                   outcome, ran>>

BackgroundEmpty ==
    /\ service.pc = "pollBackground"
    /\ background = <<>>
    /\ Serve("parked", 0)
    /\ UNCHANGED <<caller, foreground, background, state, signalled, result, notified,
                   issued, outcome, ran, overtaken>>

Wake ==
    /\ service.pc = "parked"
    /\ notified
    /\ notified' = FALSE
    /\ Serve("poll", 0)
    /\ UNCHANGED <<caller, foreground, background, state, signalled, result, issued,
                   outcome, ran, overtaken>>

\* Mutant of Start: an abandoned command is run.
StartAnyway ==
    /\ service.pc = "received"
    /\ state' = [state EXCEPT ![service.req] = "running"]
    /\ Serve("running", service.req)
    /\ UNCHANGED <<caller, foreground, background, signalled, result, notified, issued,
                   outcome, ran, overtaken>>

\* The exchange of kCompletionQueued for kCompletionRunning succeeds.
Start ==
    /\ service.pc = "received"
    /\ state[service.req] = "queued"
    /\ state' = [state EXCEPT ![service.req] = "running"]
    /\ Serve("running", service.req)
    /\ UNCHANGED <<caller, foreground, background, signalled, result, notified, issued,
                   outcome, ran, overtaken>>

\* Mutant of SkipAbandoned: the block of the abandoned command is leaked.
SkipAbandonedLeaks ==
    /\ service.pc = "received"
    /\ state[service.req] # "queued"
    /\ Serve("poll", 0)
    /\ UNCHANGED <<caller, foreground, background, state, signalled, result, notified,
                   issued, outcome, ran, overtaken>>

\* It fails: nobody waits for this command, and its block is freed here.
SkipAbandoned ==
    /\ service.pc = "received"
    /\ state[service.req] # "queued"
    /\ state' = [state EXCEPT ![service.req] = "freed"]
    /\ Serve("poll", 0)
    /\ UNCHANGED <<caller, foreground, background, signalled, result, notified, issued,
                   outcome, ran, overtaken>>

Transact ==
    /\ service.pc = "running"
    /\ \E value \in Outcomes :
          /\ ran' = [ran EXCEPT ![service.req] = value]
          /\ result' = [result EXCEPT ![service.req] = value]
    /\ Serve("publishing", service.req)
    /\ UNCHANGED <<caller, foreground, background, state, signalled, notified, issued,
                   outcome, overtaken>>

Publish ==
    /\ service.pc = "publishing"
    /\ state' = [state EXCEPT ![service.req] = "done"]
    /\ Serve("giving", service.req)
    /\ UNCHANGED <<caller, foreground, background, signalled, result, notified, issued,
                   outcome, ran, overtaken>>

Give ==
    /\ service.pc = "giving"
    /\ signalled' = [signalled EXCEPT ![service.req] = TRUE]
    /\ Serve("poll", 0)
    /\ UNCHANGED <<caller, foreground, background, state, result, notified, issued,
                   outcome, ran, overtaken>>

--------------------------------------------------------------------------------

CallerStep(c) ==
    \/ Send(c)
    \/ Notify(c)
    \/ SendTimesOut(c)
    \/ Return(c)
    \/ TakeTimesOut(c)
    \/ Abandon(c)
    \/ Overrun(c)

\* Everything the storage task does between transactions.
ServiceStep ==
    \/ ReceiveForeground
    \/ ForegroundEmpty
    \/ ReceiveBackground
    \/ BackgroundEmpty
    \/ Wake
    \/ Start
    \/ SkipAbandoned
    \/ Publish
    \/ Give

Next ==
    \/ \E c \in Callers : Call(c) \/ CallerStep(c)
    \/ ServiceStep
    \/ Transact

Spec == Init /\ [][Next]_vars

\* Tasks run when they can and the tick interrupt ends every bounded wait; a
\* transaction that hangs in the flash driver is not excluded.
WedgeSpec ==
    /\ Spec
    /\ WF_vars(ServiceStep)
    /\ \A c \in Callers : WF_vars(CallerStep(c))

--------------------------------------------------------------------------------
(* Properties. *)

Steps == {"idle", "sending", "notifying", "waiting", "expired", "overrunning"}

\* Queues stay within their depths and every block, caller and request within the
\* states the code gives them.
TypeOK ==
    /\ caller \in [Callers -> [pc : Steps, req : 0..MaxRequests]]
    /\ foreground \in Seq(Requests) /\ Len(foreground) <= ForegroundDepth
    /\ background \in Seq(Requests) /\ Len(background) <= BackgroundDepth
    /\ state \in [Requests -> {"unborn", "queued", "running", "done", "abandoned", "freed"}]
    /\ signalled \in [Requests -> BOOLEAN]
    /\ result \in [Requests -> Outcomes]
    /\ service \in [pc : {"poll", "pollBackground", "parked", "received", "running",
                          "publishing", "giving"}, req : 0..MaxRequests]
    /\ notified \in BOOLEAN
    /\ issued \in 0..MaxRequests
    /\ outcome \in [Requests -> Outcomes \cup {"none", "timeout"}]
    /\ ran \in [Requests -> Outcomes \cup {"none"}]
    /\ overtaken \in [Requests -> Nat]

\* The caller, whose stack the transaction works on, is still in its call as long
\* as the transaction runs ("the service would execute against a dangling context").
ContextOutlivesTransaction ==
    service.pc = "running" =>
        \E c \in Callers :
            /\ Req(c) = service.req
            /\ caller[c].pc \in {"notifying", "waiting", "expired", "overrunning"}

\* A block is allocated exactly as long as a task or a queue still refers to it: it
\* is never used after it was freed, never freed twice and never leaked.
CompletionLivesAsLongAsUsed ==
    \A r \in Requests :
        state[r] \notin {"unborn", "freed"} <=>
            \/ r \in Elements(foreground) \cup Elements(background)
            \/ service.req = r
            \/ \E c \in Callers : Req(c) = r

\* What two tasks and a queue share by reference outlives every use of it.
SharedMemorySound == TypeOK /\ ContextOutlivesTransaction /\ CompletionLivesAsLongAsUsed

\* The refinement mapping.
PhaseOf(r) ==
    CASE outcome[r] = "timeout" -> "refused"
      [] outcome[r] \in Outcomes -> "returned"
      [] outcome[r] = "none" /\ ran[r] # "none" -> "run"
      [] outcome[r] = "none" /\ ran[r] = "none" /\ state[r] # "unborn" -> "submitted"
      [] OTHER -> "none"

CallOf == INSTANCE StorageCall WITH
              phase <- [r \in Requests |-> PhaseOf(r)],
              outcome <- [r \in Requests |->
                             IF outcome[r] \in Outcomes THEN outcome[r] ELSE ran[r]]

\* Each call is one of StorageCall: a refused transaction is never run, before or
\* after the refusal, and a call that returns gives the outcome of its one run.
ImplementsCall == CallOf!Spec

\* A background command that was already being received may go first, but no
\* foreground command ever waits for a second one ("checked at every transaction
\* boundary").
ForegroundOvertakenOnce == \A r \in Requests : overtaken[r] <= 1

\* A foreground command either is started or its caller gets its timeout, whatever
\* the transaction in front of it does.
ForegroundQueueWaitBounded ==
    \A c \in Foreground :
        (At(c, "sending") \/ (At(c, "waiting") /\ state[Req(c)] = "queued"))
            ~> (At(c, "idle") \/ state[Req(c)] # "queued")

\* A foreground call does not wait long: for one background command at most, and in
\* the queue no longer than its timeout.
ForegroundServedSoon == []ForegroundOvertakenOnce /\ ForegroundQueueWaitBounded

\* If every transaction that is run ends, every call returns and its block is freed
\* in the end, the block of an abandoned call included.
EveryCallReturns ==
    WF_vars(Transact) =>
        \A r \in Requests :
            (state[r] # "unborn") ~> (outcome[r] # "none" /\ state[r] = "freed")
================================================================================
