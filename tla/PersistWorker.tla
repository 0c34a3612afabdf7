----------------------------- MODULE PersistWorker -----------------------------
(***************************************************************************)
(* main/ui/persist_worker.cpp: local writes leave the UI task through a    *)
(* pool of command slots and come back through one mailbox per kind.       *)
(* Reserving takes the busy flag of the kind, a slot and a sleep lease;    *)
(* the worker gives the lease back when the write has ended, the UI task   *)
(* gives slot and flag back when it has applied the result.                *)
(*                                                                         *)
(* The pages are ui/word_cloud.cpp, note_cloud.cpp and problem_cloud.cpp   *)
(* (arm, reserve, take the effect, enqueue) with the Dispatch...Persist    *)
(* results of ui/ui_runtime.cpp.  The lease gate is LeaseGate, which the   *)
(* sleep coordinator implements.  A refused reservation changes nothing,   *)
(* so it is no step.                                                       *)
(***************************************************************************)
EXTENDS Naturals, Sequences, FiniteSets

CONSTANTS Kinds,       \* PersistKind
          PoolDepth,   \* kPoolDepth
          MaxOps,      \* bound: reservations
          MaxResets    \* bound: pages reset, and resets of the chip

ASSUME KindsAssumption == IsFiniteSet(Kinds)
ASSUME PoolAssumption == PoolDepth \in Nat \ {0}
ASSUME BoundAssumption == {MaxOps, MaxResets} \subseteq Nat

VARIABLES slot,     \* g_pool: state, kind, operation and result of each command
          leased,   \* the slots whose command holds a sleep lease
          gate,     \* the sleep gate
          queue,    \* g_worker_queue
          worker,   \* the worker task: its step and its slot
          busy,     \* g_kind_busy
          mailbox,  \* g_mailbox
          ops,      \* g_next_operation_id - 1
          published,\* g_next_publish_generation - 1
          ui,       \* the UI task: its step, the kind, and its ticket or receipt
          page,     \* per kind: the commit state and the operation it awaits
          resets,   \* how many resets happened
          visit,    \* history: how often the page of each kind was reset
          asked,    \* history: the visit of its page each operation was asked in
          outcome,  \* history: what the write of each operation returned
          fate      \* history: what the UI did with each operation

poolVars == <<slot, leased, gate, queue, worker, busy, mailbox, ops, published>>
vars == <<poolVars, ui, page, resets, visit,
                   asked, outcome, fate>>

Slots == 1..PoolDepth
Ops == 1..MaxOps
Outcomes == {"ok", "failed"}

FreeSlot == [state |-> "free", kind |-> "none", op |-> 0, result |-> "failed"]
EmptyBox == [pending |-> 0, acked |-> 0, result |-> "failed", op |-> 0, slot |-> 0]
UiIdle == [pc |-> "idle", kind |-> "none", slot |-> 0, op |-> 0, gen |-> 0,
           result |-> "failed"]
Quiet == [state |-> "quiet", op |-> 0]

InitPool ==
    /\ slot = [s \in Slots |-> FreeSlot]
    /\ leased = {}
    /\ gate = "open"
    /\ queue = <<>>
    /\ worker = [pc |-> "idle", slot |-> 0]
    /\ busy = [k \in Kinds |-> FALSE]
    /\ mailbox = [k \in Kinds |-> EmptyBox]
    /\ published = 0
    /\ ui = UiIdle
    /\ page = [k \in Kinds |-> Quiet]

Init ==
    /\ InitPool
    /\ ops = 0
    /\ resets = 0
    /\ visit = [k \in Kinds |-> 0]
    /\ asked = [o \in Ops |-> 0]
    /\ outcome = [o \in Ops |-> "none"]
    /\ fate = [o \in Ops |-> "none"]

--------------------------------------------------------------------------------
(* The UI task: a page asks for a write. *)

\* The user confirms an answer: the page waits in kPersisting.
Confirm(k) ==
    /\ ui.pc = "idle"
    /\ page[k].state = "quiet"
    /\ page' = [page EXCEPT ![k] = [@ EXCEPT !.state = "armed"]]
    /\ UNCHANGED <<poolVars, ui, resets, visit, asked, outcome, fate>>

\* The page is left, or its scope changes, while the write may be under way.
ResetPage(k) ==
    /\ ui.pc = "idle"
    /\ page[k].state # "quiet"
    /\ resets < MaxResets
    /\ page' = [page EXCEPT ![k] = Quiet]
    /\ visit' = [visit EXCEPT ![k] = @ + 1]
    /\ resets' = resets + 1
    /\ UNCHANGED <<poolVars, ui, asked, outcome, fate>>

FreeSlots == {s \in Slots : slot[s].state = "free"}

\* Mutant of Reserve: the busy flag of the kind is not tested.
ReserveBusyKind(k) ==
    /\ ui.pc = "idle"
    /\ page[k].state = "armed"
    /\ ops < MaxOps
    /\ gate = "open"
    /\ \E s \in FreeSlots :
          /\ \A t \in FreeSlots : s <= t
          /\ slot' = [slot EXCEPT ![s] = [state |-> "filling", kind |-> k, op |-> ops + 1,
                                          result |-> "failed"]]
          /\ leased' = leased \cup {s}
          /\ ui' = [UiIdle EXCEPT !.pc = "reserved", !.kind = k, !.slot = s, !.op = ops + 1]
    /\ busy' = [busy EXCEPT ![k] = TRUE]
    /\ ops' = ops + 1
    /\ fate' = [fate EXCEPT ![ops + 1] = "pending"]
    /\ asked' = [asked EXCEPT ![ops + 1] = visit[k]]
    /\ UNCHANGED <<gate, queue, worker, mailbox, published, page, resets, visit, outcome>>

\* TryReservePersist.
Reserve(k) ==
    /\ ui.pc = "idle"
    /\ page[k].state = "armed"
    /\ ops < MaxOps
    /\ ~busy[k]
    /\ gate = "open"
    /\ \E s \in FreeSlots :
          /\ \A t \in FreeSlots : s <= t
          /\ slot' = [slot EXCEPT ![s] = [state |-> "filling", kind |-> k, op |-> ops + 1,
                                          result |-> "failed"]]
          /\ leased' = leased \cup {s}
          /\ ui' = [UiIdle EXCEPT !.pc = "reserved", !.kind = k, !.slot = s, !.op = ops + 1]
    /\ busy' = [busy EXCEPT ![k] = TRUE]
    /\ ops' = ops + 1
    /\ fate' = [fate EXCEPT ![ops + 1] = "pending"]
    /\ asked' = [asked EXCEPT ![ops + 1] = visit[k]]
    /\ UNCHANGED <<gate, queue, worker, mailbox, published, page, resets, visit, outcome>>

\* ReservedCommand: the ticket still owns its slot.
Reserved ==
    /\ ui.pc = "reserved"
    /\ slot[ui.slot].state = "filling"
    /\ slot[ui.slot].kind = ui.kind
    /\ slot[ui.slot].op = ui.op

\* Taking the effect found the session cursor invalid.
CancelPersistReservation ==
    /\ Reserved
    /\ leased' = leased \ {ui.slot}
    /\ slot' = [slot EXCEPT ![ui.slot] = [@ EXCEPT !.state = "free"]]
    /\ busy' = [busy EXCEPT ![ui.kind] = FALSE]
    /\ page' = [page EXCEPT ![ui.kind] = Quiet]
    /\ fate' = [fate EXCEPT ![ui.op] = "cancelled"]
    /\ ui' = UiIdle
    /\ UNCHANGED <<gate, queue, worker, mailbox, ops, published, resets, visit, asked, outcome>>

\* Mutant of EnqueueReserved: the slot is sent to the worker twice.
EnqueueReservedTwice ==
    /\ Reserved
    /\ slot' = [slot EXCEPT ![ui.slot] = [@ EXCEPT !.state = "queued"]]
    /\ queue' = queue \o <<ui.slot, ui.slot>>
    /\ page' = [page EXCEPT ![ui.kind] = [state |-> "persisting", op |-> ui.op]]
    /\ ui' = UiIdle
    /\ UNCHANGED <<leased, gate, worker, busy, mailbox, ops, published, resets, visit, asked,
                   outcome, fate>>

\* The effect is bound to the operation and the slot goes to the worker.
EnqueueReserved ==
    /\ Reserved
    /\ slot' = [slot EXCEPT ![ui.slot] = [@ EXCEPT !.state = "queued"]]
    /\ queue' = Append(queue, ui.slot)
    /\ page' = [page EXCEPT ![ui.kind] = [state |-> "persisting", op |-> ui.op]]
    /\ ui' = UiIdle
    /\ UNCHANGED <<leased, gate, worker, busy, mailbox, ops, published, resets, visit, asked,
                   outcome, fate>>

--------------------------------------------------------------------------------
(* The worker: PersistWorkerTask and PublishPersistResult. *)

Working == slot[worker.slot]
Work(pc) == worker' = [worker EXCEPT !.pc = pc]

\* Mutant of WorkerReceive: the lease is given back before the write.
WorkerReceiveUnleased ==
    /\ worker.pc = "idle"
    /\ queue # <<>>
    /\ slot[Head(queue)].state = "queued"
    /\ queue' = Tail(queue)
    /\ slot' = [slot EXCEPT ![Head(queue)] = [@ EXCEPT !.state = "running"]]
    /\ worker' = [pc |-> "running", slot |-> Head(queue)]
    /\ leased' = leased \ {Head(queue)}
    /\ UNCHANGED <<gate, busy, mailbox, ops, published, ui, page, resets, visit,
                   asked, outcome, fate>>

WorkerReceive ==
    /\ worker.pc = "idle"
    /\ queue # <<>>
    /\ queue' = Tail(queue)
    /\ IF slot[Head(queue)].state = "queued"
       THEN /\ slot' = [slot EXCEPT ![Head(queue)] = [@ EXCEPT !.state = "running"]]
            /\ worker' = [pc |-> "running", slot |-> Head(queue)]
       ELSE UNCHANGED <<slot, worker>>
    /\ UNCHANGED <<leased, gate, busy, mailbox, ops, published, ui, page, resets, visit,
                   asked, outcome, fate>>

\* Mutant of ExecutePersistCommand: a write may be run again.
ExecuteAgain ==
    /\ worker.pc = "running"
    /\ \E result \in Outcomes :
          /\ slot' = [slot EXCEPT ![worker.slot] = [@ EXCEPT !.result = result]]
          /\ outcome' = [outcome EXCEPT ![Working.op] = result]
    /\ Work("executed") \/ Work("running")
    /\ UNCHANGED <<leased, gate, queue, busy, mailbox, ops, published, ui, page, resets,
                   visit, asked, fate>>

ExecutePersistCommand ==
    /\ worker.pc = "running"
    /\ \E result \in Outcomes :
          /\ slot' = [slot EXCEPT ![worker.slot] = [@ EXCEPT !.result = result]]
          /\ outcome' = [outcome EXCEPT ![Working.op] = result]
    /\ Work("executed")
    /\ UNCHANGED <<leased, gate, queue, busy, mailbox, ops, published, ui, page, resets, visit,
                   asked, fate>>

\* Mutant of ReleaseLease: the result is published with the slot still running.
ReleaseLeaseThenPublish ==
    /\ worker.pc = "executed"
    /\ leased' = leased \ {worker.slot}
    /\ Work("publishing")
    /\ UNCHANGED <<slot, gate, queue, busy, mailbox, ops, published, ui, page, resets,
                   visit, asked, outcome, fate>>

ReleaseLease ==
    /\ worker.pc = "executed"
    /\ leased' = leased \ {worker.slot}
    /\ Work("released")
    /\ UNCHANGED <<slot, gate, queue, busy, mailbox, ops, published, ui, page, resets,
                   visit, asked, outcome, fate>>

MarkResultPending ==
    /\ worker.pc = "released"
    /\ slot' = [slot EXCEPT ![worker.slot] = [@ EXCEPT !.state = "resultPending"]]
    /\ Work("publishing")
    /\ UNCHANGED <<leased, gate, queue, busy, mailbox, ops, published, ui, page, resets,
                   visit, asked, outcome, fate>>

\* The fields of the mailbox, before the generation that makes them visible.
FillMailbox ==
    /\ worker.pc = "publishing"
    /\ mailbox' = [mailbox EXCEPT ![Working.kind] =
                      [@ EXCEPT !.result = Working.result, !.op = Working.op,
                                !.slot = worker.slot]]
    /\ Work("filled")
    /\ UNCHANGED <<slot, leased, gate, queue, busy, ops, published, ui, page, resets,
                   visit, asked, outcome, fate>>

\* Mutant of PublishGeneration: the generation is counted twice.
PublishGenerationTwice ==
    /\ worker.pc = "filled"
    /\ mailbox' = [mailbox EXCEPT ![Working.kind] = [@ EXCEPT !.pending = published + 2]]
    /\ published' = published + 2
    /\ worker' = [pc |-> "idle", slot |-> 0]
    /\ UNCHANGED <<slot, leased, gate, queue, busy, ops, ui, page, resets, visit,
                   asked, outcome, fate>>

PublishGeneration ==
    /\ worker.pc = "filled"
    /\ mailbox' = [mailbox EXCEPT ![Working.kind] = [@ EXCEPT !.pending = published + 1]]
    /\ published' = published + 1
    /\ worker' = [pc |-> "idle", slot |-> 0]
    /\ UNCHANGED <<slot, leased, gate, queue, busy, ops, ui, page, resets, visit,
                   asked, outcome, fate>>

--------------------------------------------------------------------------------
(* The UI task: a result comes back. *)

Box(k) == mailbox[k]

\* TakePersistResultToApply reads the generation, then the fields.
TakeGeneration(k) ==
    /\ ui.pc = "idle"
    /\ Box(k).pending \notin {0, Box(k).acked}
    /\ ui' = [UiIdle EXCEPT !.pc = "taking", !.kind = k, !.gen = Box(k).pending]
    /\ UNCHANGED <<poolVars, page, resets, visit, asked, outcome, fate>>

TakeFields ==
    /\ ui.pc = "taking"
    /\ ui' = [ui EXCEPT !.pc = "applying", !.op = Box(ui.kind).op,
                        !.result = Box(ui.kind).result]
    /\ UNCHANGED <<poolVars, page, resets, visit, asked, outcome, fate>>

\* Mutant of Awaited: any result of the kind is taken for the awaited one.
AwaitedAny(k, op) == page[k].state # "quiet"

\* The page is in kPersisting, armed again or not, and awaits this very operation.
Awaited(k, op) == page[k].state # "quiet" /\ page[k].op = op

\* Mutant of ApplyResult: the page goes on waiting.
ApplyResultKeepsPage ==
    /\ ui.pc = "applying"
    /\ fate' = [fate EXCEPT ![ui.op] = IF Awaited(ui.kind, ui.op) THEN ui.result ELSE "dropped"]
    /\ ui' = [ui EXCEPT !.pc = "acking"]
    /\ UNCHANGED <<poolVars, page, resets, visit, asked, outcome>>

\* The result of an operation the page no longer awaits is dropped.
ApplyResult ==
    /\ ui.pc = "applying"
    /\ IF Awaited(ui.kind, ui.op)
       THEN /\ page' = [page EXCEPT ![ui.kind] = Quiet]
            /\ fate' = [fate EXCEPT ![ui.op] = ui.result]
       ELSE /\ fate' = [fate EXCEPT ![ui.op] = "dropped"]
            /\ UNCHANGED page
    /\ ui' = [ui EXCEPT !.pc = "acking"]
    /\ UNCHANGED <<poolVars, resets, visit, asked, outcome>>

\* AckPersistResult: only the matching acknowledgement frees the slot.
AckMatches ==
    LET box == Box(ui.kind)
    IN /\ box.pending \notin {0, box.acked}
       /\ box.pending = ui.gen
       /\ box.op = ui.op
       /\ slot[box.slot].kind = ui.kind
       /\ slot[box.slot].op = ui.op
       /\ slot[box.slot].state = "resultPending"

\* Mutant of AckFreesSlot: the slot is not given back.
AckKeepsSlot ==
    /\ ui.pc = "acking"
    /\ ui' = IF AckMatches THEN [ui EXCEPT !.pc = "acked"] ELSE UiIdle
    /\ UNCHANGED <<slot, leased, gate, queue, worker, busy, mailbox, ops, published, page,
                   resets, visit, asked, outcome, fate>>

AckFreesSlot ==
    /\ ui.pc = "acking"
    /\ IF AckMatches
       THEN /\ slot' = [slot EXCEPT ![Box(ui.kind).slot] = [@ EXCEPT !.state = "free"]]
            /\ ui' = [ui EXCEPT !.pc = "acked"]
       ELSE UNCHANGED slot /\ ui' = UiIdle
    /\ UNCHANGED <<leased, gate, queue, worker, busy, mailbox, ops, published, page, resets,
                   visit, asked, outcome, fate>>

AckGeneration ==
    /\ ui.pc = "acked"
    /\ mailbox' = [mailbox EXCEPT ![ui.kind] = [@ EXCEPT !.acked = ui.gen]]
    /\ ui' = [ui EXCEPT !.pc = "releasing"]
    /\ UNCHANGED <<slot, leased, gate, queue, worker, busy, ops, published, page, resets,
                   visit, asked, outcome, fate>>

ReleaseKind ==
    /\ ui.pc = "releasing"
    /\ busy' = [busy EXCEPT ![ui.kind] = FALSE]
    /\ ui' = UiIdle
    /\ UNCHANGED <<slot, leased, gate, queue, worker, mailbox, ops, published, page, resets,
                   visit, asked, outcome, fate>>

--------------------------------------------------------------------------------
(* The sleep gate, and the reset that ends a sleep. *)

Gate == INSTANCE LeaseGate WITH Tasks <- Slots, holders <- leased

MoveGate ==
    /\ Gate!CloseForIdle \/ Gate!CloseForEmergency \/ Gate!Reopen
    /\ UNCHANGED <<slot, queue, worker, busy, mailbox, ops, published, ui, page, resets,
                   visit, asked, outcome, fate>>

\* RAM is lost; operation ids go on only so that the histories tell them apart.
Sleep ==
    /\ Gate!Sleep
    /\ resets < MaxResets
    /\ slot' = [s \in Slots |-> FreeSlot]
    /\ queue' = <<>>
    /\ worker' = [pc |-> "idle", slot |-> 0]
    /\ busy' = [k \in Kinds |-> FALSE]
    /\ mailbox' = [k \in Kinds |-> EmptyBox]
    /\ published' = 0
    /\ ui' = UiIdle
    /\ page' = [k \in Kinds |-> Quiet]
    /\ resets' = resets + 1
    /\ fate' = [o \in Ops |-> IF fate[o] = "pending" THEN "lost" ELSE fate[o]]
    /\ UNCHANGED <<ops, visit, asked, outcome>>

WorkerStep ==
    \/ WorkerReceive
    \/ ExecutePersistCommand
    \/ ReleaseLease
    \/ MarkResultPending
    \/ FillMailbox
    \/ PublishGeneration

UiStep ==
    \/ CancelPersistReservation
    \/ EnqueueReserved
    \/ \E k \in Kinds : TakeGeneration(k)
    \/ TakeFields
    \/ ApplyResult
    \/ AckFreesSlot
    \/ AckGeneration
    \/ ReleaseKind

Next ==
    \/ \E k \in Kinds : Confirm(k) \/ ResetPage(k) \/ Reserve(k)
    \/ UiStep
    \/ WorkerStep
    \/ MoveGate
    \/ Sleep

Spec == Init /\ [][Next]_vars

\* The worker blocks only in the storage call, which ends; the UI loop visits every
\* mailbox in each round.
FairSpec ==
    /\ Spec
    /\ WF_vars(WorkerStep)
    /\ WF_vars(UiStep)
    /\ \A k \in Kinds : SF_vars(TakeGeneration(k))

--------------------------------------------------------------------------------
(* Properties. *)

\* Slots, mailboxes and the worker queue keep their types; the queue of pointers
\* never outgrows the pool.
TypeOK ==
    /\ slot \in [Slots -> [state : {"free", "filling", "queued", "running", "resultPending"},
                           kind : Kinds \cup {"none"}, op : 0..MaxOps, result : Outcomes]]
    /\ leased \subseteq Slots
    /\ gate \in {"open", "idle", "emergency"}
    /\ queue \in Seq(Slots) /\ Len(queue) <= PoolDepth
    /\ worker.slot \in 0..PoolDepth
    /\ busy \in [Kinds -> BOOLEAN]
    /\ \A k \in Kinds : Box(k).pending \in 0..MaxOps /\ Box(k).op \in 0..MaxOps
    /\ fate \in [Ops -> Outcomes \cup {"none", "pending", "cancelled", "dropped", "lost"}]
    /\ outcome \in [Ops -> Outcomes \cup {"none"}]

\* One write of a kind is in flight: a kind is busy exactly while it has a slot, but
\* for the last steps of its acknowledgement, and never has two.
OneSlotPerBusyKind ==
    \A k \in Kinds :
        LET mine == {s \in Slots : slot[s].state # "free" /\ slot[s].kind = k}
        IN /\ Cardinality(mine) <= 1
           /\ mine # {} => busy[k]
           /\ busy[k] /\ mine = {} => ui.pc \in {"acked", "releasing"} /\ ui.kind = k

\* "The lease is held from reservation until the storage write actually ends": an
\* idle sleep never begins while a write is promised, queued or under way.
IdleSleepNeverCutsWrite ==
    gate = "idle" =>
        /\ ui.pc # "reserved"
        /\ queue = <<>>
        /\ worker.pc # "running"

\* A reserved write always gets into the queue ("cannot fail after reserve").
ReservedWriteFitsQueue ==
    ui.pc = "reserved" => Reserved /\ Len(queue) < PoolDepth

\* The acknowledgement of a result the UI has applied is never ignored: the mailbox
\* still holds that result, and its slot still waits for it.
AckNeverIgnored ==
    ui.pc = "acking" => AckMatches

\* An operation a page awaits is still on its way to it, in a slot of the pool.
AwaitedOperationAlive ==
    \A k \in Kinds :
        page[k].state = "persisting" =>
            /\ fate[page[k].op] = "pending"
            /\ \E s \in Slots : slot[s].op = page[k].op /\ slot[s].state # "free"

\* Slot, mailbox, busy flag, queue and page agree on which operation is whose, at
\* every point of a reservation, a publication and an acknowledgement, and an idle sleep
\* finds no write promised, queued or under way.
PoolSound ==
    TypeOK /\ OneSlotPerBusyKind /\ ReservedWriteFitsQueue /\ AckNeverIgnored
    /\ AwaitedOperationAlive /\ IdleSleepNeverCutsWrite

\* A page is shown the outcome of the write it asked for, and never one it asked for
\* before it was reset, even when it has meanwhile asked for another.
PageShownItsOwnOutcome ==
    [][\A o \in Ops :
          fate[o] = "pending" /\ fate'[o] \in Outcomes =>
              fate'[o] = outcome[o] /\ asked[o] = visit[ui.kind]]_vars

\* The refinement mapping.
PhaseOf(o) ==
    CASE fate[o] = "none" -> "none"
      [] fate[o] \in {"pending", "lost"} ->
            IF outcome[o] = "none" THEN "submitted" ELSE "run"
      [] fate[o] = "cancelled" -> "refused"
      [] OTHER -> "returned"

Operation == INSTANCE StorageCall WITH
                 Requests <- Ops,
                 phase <- [o \in Ops |-> PhaseOf(o)]

\* Each operation is a call of StorageCall: written at most once, its outcome shown
\* at most once, and never written once it was cancelled.
ImplementsOperation == Operation!Spec

\* Every reserved operation is settled: its result reaches the UI, unless it was
\* cancelled or a reset took it; and its kind is free again.
EveryOperationSettled ==
    \A o \in Ops :
        (fate[o] = "pending")
            ~> (fate[o] # "pending"
                  /\ \A s \in Slots : slot[s].state = "free" \/ slot[s].op # o)
================================================================================
