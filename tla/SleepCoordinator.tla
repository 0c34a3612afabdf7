--------------------------- MODULE SleepCoordinator ---------------------------
(***************************************************************************)
(* Sleep leases, admission gate and light-sleep lock of                    *)
(* components/power_runtime/runtime/sleep_coordinator.cpp.                 *)
(*                                                                         *)
(* Every task t runs one lease at a time: TryAcquire, hold, Reset.  The    *)
(* code takes g_lease_lock only around the registry; the blocker counters, *)
(* the total and the ESP PM lock are touched outside of it, one atomic     *)
(* instruction at a time, so each is a step of its own here.  The power    *)
(* task (state coord) opens and closes the gate.  Lease ids and sleep      *)
(* generations are uint32_t counters that skip 0; Modulus is their range.  *)
(***************************************************************************)
EXTENDS Naturals, FiniteSets

CONSTANTS Tasks,     \* the tasks that take leases
          Blockers,  \* enum SleepBlocker
          Slots,     \* indices of g_lease_records, 1..kMaxLeaseRecords
          Modulus    \* 2^32 in the code: range of lease ids and generations

ASSUME TasksAssumption == IsFiniteSet(Tasks)
ASSUME BlockersAssumption == Blockers # {}
ASSUME SlotsAssumption == Slots \subseteq Nat /\ Slots # {}
ASSUME ModulusAssumption == Modulus \in Nat \ {0, 1}

VARIABLES
    records,            \* g_lease_records
    blockerCounts,      \* g_blocker_counts
    totalBlockers,      \* g_total_blockers
    quiescing,          \* g_quiescing
    quiesceGeneration,  \* g_quiesce_generation
    nextLeaseId,        \* g_next_lease_id
    pmCount,            \* hold count of the ESP_PM_NO_LIGHT_SLEEP lock
    pc,                 \* where each task is in TryAcquire / Reset
    lease,              \* the SleepLease object of each task
    coord,              \* what the power task believes: "none", "idle", "emergency"
    coordGeneration,    \* the generation of its current attempt
    nextGeneration      \* g_next_sleep_generation

registryVars == <<records, blockerCounts, totalBlockers, nextLeaseId>>
taskVars == <<pc, lease>>
quiesceVars == <<quiescing, quiesceGeneration>>
coordVars == <<coord, coordGeneration, nextGeneration>>
vars == <<registryVars, taskVars, quiesceVars, coordVars, pmCount>>

Record == [active : BOOLEAN, leaseId : 0..Modulus-1, blocker : Blockers]
Lease == [blocker : Blockers, slot : Slots, leaseId : 0..Modulus-1]
AnyBlocker == CHOOSE b \in Blockers : TRUE
AnySlot == CHOOSE s \in Slots : TRUE
EmptyRecord == [active |-> FALSE, leaseId |-> 0, blocker |-> AnyBlocker]
EmptyLease == [blocker |-> AnyBlocker, slot |-> AnySlot, leaseId |-> 0]

\* Mutant of FreeSlots: a record in use is handed out again.
FreeSlotsInUse == Slots

FreeSlots == {s \in Slots : ~records[s].active}
FirstFree == CHOOSE s \in FreeSlots : \A r \in FreeSlots : s <= r

\* uint32_t post-increment that never hands out 0.
Fresh(counter) == IF counter = 0 THEN 1 ELSE counter
\* Mutant of After: the counter is not wrapped.
AfterUnwrapped(counter) == Fresh(counter) + 1

After(counter) == (Fresh(counter) + 1) % Modulus

Init ==
    /\ records = [s \in Slots |-> EmptyRecord]
    /\ blockerCounts = [b \in Blockers |-> 0]
    /\ totalBlockers = 0
    /\ quiescing = FALSE
    /\ quiesceGeneration = 0
    /\ nextLeaseId = 1
    /\ pmCount = 0
    /\ pc = [t \in Tasks |-> "idle"]
    /\ lease = [t \in Tasks |-> EmptyLease]
    /\ coord = "none"
    /\ coordGeneration = 0
    /\ nextGeneration = 1

--------------------------------------------------------------------------------
(* SleepLease::TryAcquire. *)

\* The unlocked early check: a closed gate refuses at once.
CheckGate(t, b) ==
    /\ pc[t] = "idle"
    /\ ~quiescing
    /\ pc' = [pc EXCEPT ![t] = "locking"]
    /\ lease' = [lease EXCEPT ![t].blocker = b]
    /\ UNCHANGED <<registryVars, quiesceVars, coordVars, pmCount>>

\* Mutant of Register: the gate is not read again inside the critical section.
RegisterUnchecked(t) ==
    /\ pc[t] = "locking"
    /\ FreeSlots # {}
    /\ LET b == lease[t].blocker
           id == Fresh(nextLeaseId)
       IN /\ records' = [records EXCEPT ![FirstFree] =
                            [active |-> TRUE, leaseId |-> id, blocker |-> b]]
          /\ lease' = [lease EXCEPT ![t].slot = FirstFree, ![t].leaseId = id]
          /\ blockerCounts' = [blockerCounts EXCEPT ![b] = @ + 1]
    /\ totalBlockers' = totalBlockers + 1
    /\ nextLeaseId' = After(nextLeaseId)
    /\ pc' = [pc EXCEPT ![t] = IF totalBlockers = 0 THEN "pmAcquire" ELSE "held"]
    /\ UNCHANGED <<quiesceVars, coordVars, pmCount>>

\* The critical section found the gate open and a free slot.
Register(t) ==
    /\ pc[t] = "locking"
    /\ ~quiescing
    /\ FreeSlots # {}
    /\ LET b == lease[t].blocker
           id == Fresh(nextLeaseId)
       IN /\ records' = [records EXCEPT ![FirstFree] =
                            [active |-> TRUE, leaseId |-> id, blocker |-> b]]
          /\ lease' = [lease EXCEPT ![t].slot = FirstFree, ![t].leaseId = id]
          /\ blockerCounts' = [blockerCounts EXCEPT ![b] = @ + 1]
    /\ totalBlockers' = totalBlockers + 1
    /\ nextLeaseId' = After(nextLeaseId)
    /\ pc' = [pc EXCEPT ![t] = IF totalBlockers = 0 THEN "pmAcquire" ELSE "held"]
    /\ UNCHANGED <<quiesceVars, coordVars, pmCount>>

\* The critical section found the gate closed, or all slots in use.
Refuse(t) ==
    /\ pc[t] = "locking"
    /\ quiescing \/ FreeSlots = {}
    /\ pc' = [pc EXCEPT ![t] = "idle"]
    /\ lease' = [lease EXCEPT ![t] = EmptyLease]
    /\ UNCHANGED <<registryVars, quiesceVars, coordVars, pmCount>>

\* The first lease takes the light-sleep lock, after the critical section.
AcquirePmLock(t) ==
    /\ pc[t] = "pmAcquire"
    /\ pmCount' = pmCount + 1
    /\ pc' = [pc EXCEPT ![t] = "held"]
    /\ UNCHANGED <<registryVars, lease, quiesceVars, coordVars>>

--------------------------------------------------------------------------------
(* SleepLease::Reset and ReleaseBlocker. *)

OwnsRecord(t) ==
    LET r == records[lease[t].slot]
    IN r.active /\ r.leaseId = lease[t].leaseId /\ r.blocker = lease[t].blocker

\* A release whose record is someone else's is logged and changes no counter.
ReleaseRecord(t) ==
    /\ pc[t] = "held"
    /\ IF OwnsRecord(t)
       THEN /\ records' = [records EXCEPT ![lease[t].slot] = EmptyRecord]
            /\ pc' = [pc EXCEPT ![t] = "counting"]
       ELSE /\ pc' = [pc EXCEPT ![t] = "idle"]
            /\ UNCHANGED records
    /\ UNCHANGED <<blockerCounts, totalBlockers, nextLeaseId, lease,
                   quiesceVars, coordVars, pmCount>>

\* Mutant of ReleaseCount: the underflow test is off by one.
ReleaseCountOffByOne(t) ==
    /\ pc[t] = "counting"
    /\ LET b == lease[t].blocker
       IN IF blockerCounts[b] <= 1
          THEN /\ pc' = [pc EXCEPT ![t] = "idle"]
               /\ UNCHANGED blockerCounts
          ELSE /\ blockerCounts' = [blockerCounts EXCEPT ![b] = @ - 1]
               /\ pc' = [pc EXCEPT ![t] = "totalling"]
    /\ UNCHANGED <<records, totalBlockers, nextLeaseId, lease,
                   quiesceVars, coordVars, pmCount>>

\* Both counters clamp at 0 and give up on an underflow.
ReleaseCount(t) ==
    /\ pc[t] = "counting"
    /\ LET b == lease[t].blocker
       IN IF blockerCounts[b] = 0
          THEN /\ pc' = [pc EXCEPT ![t] = "idle"]
               /\ UNCHANGED blockerCounts
          ELSE /\ blockerCounts' = [blockerCounts EXCEPT ![b] = @ - 1]
               /\ pc' = [pc EXCEPT ![t] = "totalling"]
    /\ UNCHANGED <<records, totalBlockers, nextLeaseId, lease,
                   quiesceVars, coordVars, pmCount>>

\* Mutant of ReleaseTotal: the value before the subtraction is taken for the one
\* after it, and the last holder keeps the light-sleep lock.
ReleaseTotalOldValue(t) ==
    /\ pc[t] = "totalling"
    /\ totalBlockers' = IF totalBlockers = 0 THEN 0 ELSE totalBlockers - 1
    /\ pc' = [pc EXCEPT ![t] = IF totalBlockers = 0 THEN "pmRelease" ELSE "idle"]
    /\ UNCHANGED <<records, blockerCounts, nextLeaseId, lease,
                   quiesceVars, coordVars, pmCount>>

ReleaseTotal(t) ==
    /\ pc[t] = "totalling"
    /\ totalBlockers' = IF totalBlockers = 0 THEN 0 ELSE totalBlockers - 1
    /\ pc' = [pc EXCEPT ![t] = IF totalBlockers = 1 THEN "pmRelease" ELSE "idle"]
    /\ UNCHANGED <<records, blockerCounts, nextLeaseId, lease,
                   quiesceVars, coordVars, pmCount>>

\* esp_pm_lock_release refuses a lock that is not held.
ReleasePmLock(t) ==
    /\ pc[t] = "pmRelease"
    /\ pmCount' = IF pmCount = 0 THEN 0 ELSE pmCount - 1
    /\ pc' = [pc EXCEPT ![t] = "idle"]
    /\ UNCHANGED <<registryVars, lease, quiesceVars, coordVars>>

--------------------------------------------------------------------------------
(* The gate, driven by the power task. *)

\* Mutant of TryBeginSleepQuiesce: the gate stays closed when work is found.
TryBeginLeavesGateClosed ==
    /\ coord = "none"
    /\ LET generation == Fresh(nextGeneration)
           started == ~quiescing /\ totalBlockers = 0
           current == IF quiescing THEN quiesceGeneration ELSE generation
       IN /\ quiescing' = TRUE
          /\ quiesceGeneration' = current
          /\ coord' = IF started THEN "idle" ELSE "none"
          /\ coordGeneration' = generation
    /\ nextGeneration' = After(nextGeneration)
    /\ UNCHANGED <<registryVars, taskVars, pmCount>>

\* Mutant of TryBeginSleepQuiesce: the blockers are not looked at.
TryBeginOverWork ==
    /\ coord = "none"
    /\ ~quiescing
    /\ quiescing' = TRUE
    /\ quiesceGeneration' = Fresh(nextGeneration)
    /\ coord' = "idle"
    /\ coordGeneration' = Fresh(nextGeneration)
    /\ nextGeneration' = After(nextGeneration)
    /\ UNCHANGED <<registryVars, taskVars, pmCount>>

\* TryBeginSleepQuiesce: close the gate, keep it closed only if nothing is held.
TryBeginSleepQuiesce ==
    /\ coord = "none"
    /\ LET generation == Fresh(nextGeneration)
           started == ~quiescing /\ totalBlockers = 0
           current == IF quiescing THEN quiesceGeneration ELSE generation
       IN /\ IF ~started /\ current = generation
             THEN quiescing' = FALSE /\ quiesceGeneration' = 0
             ELSE quiescing' = TRUE /\ quiesceGeneration' = current
          /\ coord' = IF started THEN "idle" ELSE "none"
          /\ coordGeneration' = generation
    /\ nextGeneration' = After(nextGeneration)
    /\ UNCHANGED <<registryVars, taskVars, pmCount>>

\* BeginEmergencySleepQuiesce: close the gate even over work in progress.
BeginEmergencySleepQuiesce ==
    /\ coord = "none"
    /\ LET generation == Fresh(nextGeneration)
           started == ~quiescing \/ quiesceGeneration = generation
       IN /\ quiescing' = TRUE
          /\ quiesceGeneration' = IF quiescing THEN quiesceGeneration ELSE generation
          /\ coord' = IF started THEN "emergency" ELSE "none"
          /\ coordGeneration' = generation
    /\ nextGeneration' = After(nextGeneration)
    /\ UNCHANGED <<registryVars, taskVars, pmCount>>

\* CancelSleepQuiesce: only the generation that closed the gate reopens it.
CancelSleepQuiesce ==
    /\ coord = "idle"
    /\ IF coordGeneration # 0 /\ quiesceGeneration = coordGeneration
       THEN quiescing' = FALSE /\ quiesceGeneration' = 0
       ELSE UNCHANGED quiesceVars
    /\ coord' = "none"
    /\ UNCHANGED <<registryVars, taskVars, pmCount, coordGeneration, nextGeneration>>

\* esp_deep_sleep_start: the wake-up reset clears RAM; the snapshot kept in
\* RTC memory carries the generation to StartPowerCoordinator.
DeepSleep ==
    /\ coord # "none"
    /\ records' = [s \in Slots |-> EmptyRecord]
    /\ blockerCounts' = [b \in Blockers |-> 0]
    /\ totalBlockers' = 0
    /\ quiescing' = FALSE
    /\ quiesceGeneration' = 0
    /\ nextLeaseId' = 1
    /\ pmCount' = 0
    /\ pc' = [t \in Tasks |-> "idle"]
    /\ lease' = [t \in Tasks |-> EmptyLease]
    /\ coord' = "none"
    /\ coordGeneration' = 0
    /\ nextGeneration' = Fresh((coordGeneration + 1) % Modulus)

--------------------------------------------------------------------------------
TaskStep(t) ==
    \/ \E b \in Blockers : CheckGate(t, b)
    \/ Register(t)
    \/ Refuse(t)
    \/ AcquirePmLock(t)
    \/ ReleaseRecord(t)
    \/ ReleaseCount(t)
    \/ ReleaseTotal(t)
    \/ ReleasePmLock(t)

Next ==
    \/ \E t \in Tasks : TaskStep(t)
    \/ TryBeginSleepQuiesce
    \/ BeginEmergencySleepQuiesce
    \/ CancelSleepQuiesce
    \/ DeepSleep

Spec == Init /\ [][Next]_vars

--------------------------------------------------------------------------------
(* Properties. *)

\* The lease registry, the counters, the gate and every SleepLease keep their types:
\* uint32_t ids and generations stay in range, counters never go below zero.
TypeOK ==
    /\ records \in [Slots -> Record]
    /\ blockerCounts \in [Blockers -> Nat]
    /\ totalBlockers \in Nat
    /\ quiescing \in BOOLEAN
    /\ quiesceGeneration \in 0..Modulus-1
    /\ nextLeaseId \in 0..Modulus-1
    /\ pmCount \in Nat
    /\ pc \in [Tasks -> {"idle", "locking", "pmAcquire", "held",
                        "counting", "totalling", "pmRelease"}]
    /\ lease \in [Tasks -> Lease]
    /\ coord \in {"none", "idle", "emergency"}
    /\ coordGeneration \in 0..Modulus-1
    /\ nextGeneration \in 0..Modulus-1

\* The tasks whose work blocks sleep: admitted and not yet subtracted.
Counted == {t \in Tasks : pc[t] \in {"pmAcquire", "held", "counting", "totalling"}}
CountedFor(b) == {t \in Counted : pc[t] # "totalling" /\ lease[t].blocker = b}
Owners == {t \in Tasks : pc[t] \in {"pmAcquire", "held"}}

\* g_total_blockers and g_blocker_counts are read without g_lease_lock by the
\* power task and the status pages: at every instant they must equal the number
\* of leases out, whatever acquisitions and releases are half done.
CountersExact ==
    /\ totalBlockers = Cardinality(Counted)
    /\ \A b \in Blockers : blockerCounts[b] = Cardinality(CountedFor(b))

\* Every live lease owns the record it was given and no other task's, so Reset
\* never takes the "stale sleep lease release" branch, which would leak the
\* counters and keep the device awake for good.
LeasesOwnRecords ==
    /\ \A t \in Owners : OwnsRecord(t)
    /\ \A t, u \in Owners : lease[t].slot = lease[u].slot => t = u
    /\ {s \in Slots : records[s].active} = {lease[t].slot : t \in Owners}

\* The shared light-sleep lock is taken and given back once per busy period,
\* although both calls happen outside the critical section and the last holder
\* of one period may still be releasing while the first of the next acquires.
PmLockBalanced ==
    LET acquiring == Cardinality({t \in Tasks : pc[t] = "pmAcquire"})
        releasing == Cardinality({t \in Tasks : pc[t] = "pmRelease"})
        busy == IF Counted # {} THEN 1 ELSE 0
    IN pmCount + acquiring = busy + releasing

\* TryBeginSleepQuiesce returned true: no lease is out and none can be admitted
\* until the gate reopens, although TryAcquire reads g_quiescing unlocked first.
IdleQuiesceExcludesWork == coord = "idle" => quiescing /\ Counted = {}

\* The gate is closed exactly while the power task runs a sleep transaction, and
\* under that transaction's generation: a rollback is never ignored as stale
\* and a failed attempt never leaves the gate closed.
GateHasOneOwner ==
    /\ quiescing <=> coord # "none"
    /\ quiesceGeneration = IF quiescing THEN coordGeneration ELSE 0

\* The registry keeps its books: the four together, since each needs the others.
RegistrySound == TypeOK /\ CountersExact /\ LeasesOwnRecords /\ GateHasOneOwner

\* The refinement mapping: the tasks still counted hold the abstract gate.
Gate == INSTANCE LeaseGate WITH
            holders <- Counted,
            gate <- IF coord = "none" THEN "open" ELSE coord

\* The coordinator implements the gate of LeaseGate: work is admitted through an
\* open gate only, and an idle sleep never interrupts admitted work, although
\* TryAcquire and ReleaseBlocker take several steps each.
ImplementsGate == Gate!Spec
================================================================================
