------------------------ MODULE SleepCoordinatorProofs ------------------------
(***************************************************************************)
(* Theorems about SleepCoordinator, for any tasks, blockers, record slots  *)
(* and counter range.  The inductive invariant joins the type invariant    *)
(* to four properties that need one another: the exact counters make the   *)
(* test totalBlockers = 0 mean "no lease is out", the ownership of records *)
(* keeps releases from being refused, which would leak the counters, and   *)
(* the owner of the gate keeps it closed for as long as coord is "idle".   *)
(* A fifth, the generation of a transaction is never 0, makes its rollback *)
(* effective.                                                              *)
(*                                                                         *)
(* The second half is about the EPD task, the worker that the gate puts to *)
(* rest: the sleep preparation and the idle maintenance it serves          *)
(* (EpdCommands), for every number of requests and of activities, and the  *)
(* driver it calls (EpdPanel), for any frames, any limits on partial       *)
(* waveforms and any number of failures and boots.                         *)
(*                                                                         *)
(* Commands.  The properties are not inductive: that "ready" means served  *)
(* rests on the order of the four generations (Handed), that a request     *)
(* taken back is not carried out on its generation being nobody's claim,   *)
(* then or later (TakenBack), and that none is slept over on the gate,     *)
(* which keeps frames out (Noticed).                                       *)
(*                                                                         *)
(* Driver.  What it believes of an idle panel follows from what holds in   *)
(* the middle of a transfer: a partial waveform is only under way over a   *)
(* picture the driver knows (Sound), RTC memory is vouched for as soon as  *)
(* this boot has drawn or trusts an earlier one (Remembered), and the      *)
(* history of waveforms and the counters of the driver agree (Tallied).    *)
(***************************************************************************)
EXTENDS SleepCoordinator, EpdCommands, EpdPanel, FiniteSetTheorems, WellFoundedInduction, TLAPS

\* CancelSleepQuiesce takes generation 0 for "no transaction": it is never one.
GenerationNotZero == coord # "none" => coordGeneration # 0

IInv ==
    /\ TypeOK
    /\ CountersExact
    /\ LeasesOwnRecords
    /\ IdleQuiesceExcludesWork
    /\ GateHasOneOwner
    /\ GenerationNotZero

--------------------------------------------------------------------------------
(* Lemmas about the operators the actions are built from. *)

\* A nonempty set of record indices has a least one: the scan of TryAcquire
\* that starts at index 0 finds a free record when there is one.
LEMMA LeastElement ==
    ASSUME NEW S, S \subseteq Nat, S # {}
    PROVE  \E m \in S : \A n \in S : m <= n
<1>1. PICK m \in S : \A n \in S : <<n, m>> \notin OpToRel(<, Nat)
  BY NatLessThanWellFounded, WFMin, Zenon
<1>2. \A n \in S : ~(n < m)
  <2> SUFFICES ASSUME NEW n \in S, n < m PROVE FALSE
    OBVIOUS
  <2>1. n \in Nat /\ m \in Nat
    OBVIOUS
  <2>2. <<n, m>> \in OpToRel(<, Nat)
    BY <2>1, Zenon DEF OpToRel
  <2> QED BY <1>1, <2>2, Zenon
<1> QED BY <1>2

\* The record TryAcquire picks is a free one.
LEMMA FirstFreeIsFree ==
    ASSUME FreeSlots # {}
    PROVE  FirstFree \in Slots /\ ~records[FirstFree].active
<1>1. FreeSlots \subseteq Nat
  BY SlotsAssumption DEF FreeSlots
<1>2. \E s \in FreeSlots : \A r \in FreeSlots : s <= r
  BY <1>1, LeastElement
<1> QED BY <1>2 DEF FirstFree, FreeSlots

\* Both 32-bit counters stay in range and skip 0.
LEMMA CounterRange ==
    ASSUME NEW c \in 0..Modulus-1
    PROVE  /\ Fresh(c) \in 0..Modulus-1
           /\ Fresh(c) # 0
           /\ After(c) \in 0..Modulus-1
<1>1. Modulus \in Nat /\ Modulus > 1
  BY ModulusAssumption
<1>2. Fresh(c) \in 0..Modulus-1 /\ Fresh(c) # 0
  BY <1>1 DEF Fresh
<1>3. \A n \in Nat : n % Modulus \in 0..Modulus-1
  BY <1>1
<1>4. Fresh(c) + 1 \in Nat
  BY <1>1, <1>2
<1> QED BY <1>2, <1>3, <1>4 DEF After

\* The empty record and the empty lease are well typed.
LEMMA EmptyTyped ==
    EmptyRecord \in Record /\ EmptyLease \in Lease
<1>1. AnyBlocker \in Blockers
  BY BlockersAssumption DEF AnyBlocker
<1>2. AnySlot \in Slots
  BY SlotsAssumption DEF AnySlot
<1>3. 0 \in 0..Modulus-1
  BY ModulusAssumption
<1> QED BY <1>1, <1>2, <1>3 DEF EmptyRecord, EmptyLease, Record, Lease

\* Counting a set of tasks before and after one of them joins or leaves it.
LEMMA CountTasks ==
    ASSUME NEW S, S \subseteq Tasks, NEW t \in Tasks
    PROVE  /\ Cardinality(S) \in Nat
           /\ Cardinality(S) = 0 <=> S = {}
           /\ t \notin S => Cardinality(S \cup {t}) = Cardinality(S) + 1
           /\ t \in S => Cardinality(S \ {t}) = Cardinality(S) - 1
<1>1. IsFiniteSet(S)
  BY TasksAssumption, FS_Subset
<1>2. Cardinality(S) \in Nat
  BY <1>1, FS_CardinalityType
<1>3. Cardinality(S) = 0 <=> S = {}
  BY <1>1, FS_EmptySet
<1>4. t \notin S => Cardinality(S \cup {t}) = Cardinality(S) + 1
  BY <1>1, FS_AddElement
<1>5. t \in S => Cardinality(S \ {t}) = Cardinality(S) - 1
  BY <1>1, FS_RemoveElement
<1> QED BY <1>2, <1>3, <1>4, <1>5

\* With no task in a counted state every counter is 0.
LEMMA NothingCounted ==
    ASSUME \A t \in Tasks : pc[t] = "idle",
           \A b \in Blockers : blockerCounts[b] = 0,
           totalBlockers = 0
    PROVE  CountersExact /\ Counted = {} /\ Owners = {}
<1>1. Counted = {} /\ Owners = {} /\ \A b \in Blockers : CountedFor(b) = {}
  BY DEF Counted, Owners, CountedFor
<1> QED BY <1>1, FS_EmptySet DEF CountersExact

--------------------------------------------------------------------------------
(* Type correctness. *)

\* Initially every variable has its type.
LEMMA TypeInit == Init => TypeOK
<1> SUFFICES ASSUME Init PROVE TypeOK
  OBVIOUS
<1>1. 0 \in 0..Modulus-1 /\ 1 \in 0..Modulus-1
  BY ModulusAssumption
<1>2. records \in [Slots -> Record] /\ lease \in [Tasks -> Lease]
  BY EmptyTyped DEF Init
<1>3. blockerCounts \in [Blockers -> Nat]
  BY DEF Init
<1> QED BY <1>1, <1>2, <1>3 DEF Init, TypeOK

\* Every step of a task keeps the types.
LEMMA TypeTask ==
    ASSUME TypeOK, NEW t \in Tasks, TaskStep(t)
    PROVE  TypeOK'
<1> USE DEF TypeOK
<1>1. ASSUME NEW b \in Blockers, CheckGate(t, b) PROVE TypeOK'
  <2>1. lease' \in [Tasks -> Lease]
    BY <1>1 DEF CheckGate, Lease
  <2> QED BY <1>1, <2>1 DEF CheckGate, registryVars, quiesceVars, coordVars
<1>2. CASE Register(t)
  <2>1. FirstFree \in Slots
    BY <1>2, FirstFreeIsFree DEF Register
  <2>2. Fresh(nextLeaseId) \in 0..Modulus-1 /\ After(nextLeaseId) \in 0..Modulus-1
    BY CounterRange
  <2>3. lease[t] \in Lease /\ lease[t].blocker \in Blockers
    BY DEF Lease
  <2>4. records' \in [Slots -> Record]
    BY <1>2, <2>1, <2>2, <2>3 DEF Register, Record
  <2>5. lease' \in [Tasks -> Lease]
    BY <1>2, <2>1, <2>2, <2>3 DEF Register, Lease
  <2>6. blockerCounts' \in [Blockers -> Nat]
    BY <1>2, <2>3 DEF Register
  <2> QED BY <1>2, <2>2, <2>4, <2>5, <2>6 DEF Register, quiesceVars, coordVars
<1>3. CASE Refuse(t)
  BY <1>3, EmptyTyped DEF Refuse, registryVars, quiesceVars, coordVars
<1>4. CASE AcquirePmLock(t)
  BY <1>4 DEF AcquirePmLock, registryVars, quiesceVars, coordVars
<1>5. CASE ReleaseRecord(t)
  <2>1. records' \in [Slots -> Record]
    BY <1>5, EmptyTyped DEF ReleaseRecord
  <2> QED BY <1>5, <2>1 DEF ReleaseRecord, quiesceVars, coordVars
<1>6. CASE ReleaseCount(t)
  <2>1. lease[t].blocker \in Blockers
    BY DEF Lease
  <2>2. blockerCounts' \in [Blockers -> Nat]
    BY <1>6, <2>1 DEF ReleaseCount
  <2> QED BY <1>6, <2>2 DEF ReleaseCount, quiesceVars, coordVars
<1>7. CASE ReleaseTotal(t)
  BY <1>7 DEF ReleaseTotal, quiesceVars, coordVars
<1>8. CASE ReleasePmLock(t)
  BY <1>8 DEF ReleasePmLock, registryVars, quiesceVars, coordVars
<1> QED BY <1>1, <1>2, <1>3, <1>4, <1>5, <1>6, <1>7, <1>8 DEF TaskStep

\* Every step of the power task keeps the types.
LEMMA TypePower ==
    ASSUME TypeOK,
           \/ TryBeginSleepQuiesce
           \/ BeginEmergencySleepQuiesce
           \/ CancelSleepQuiesce
           \/ DeepSleep
    PROVE  TypeOK'
<1> USE DEF TypeOK, registryVars, taskVars, quiesceVars
<1>1. Modulus \in Nat /\ Modulus > 1
  BY ModulusAssumption
<1>2. Fresh(nextGeneration) \in 0..Modulus-1 /\ After(nextGeneration) \in 0..Modulus-1
  BY CounterRange
<1>3. CASE TryBeginSleepQuiesce
  <2>1. quiescing' \in BOOLEAN
    BY <1>3 DEF TryBeginSleepQuiesce
  <2>2. quiesceGeneration' \in 0..Modulus-1
    BY <1>1, <1>2, <1>3 DEF TryBeginSleepQuiesce
  <2>3. coord' \in {"none", "idle", "emergency"}
    BY <1>3 DEF TryBeginSleepQuiesce
  <2> QED BY <1>2, <1>3, <2>1, <2>2, <2>3 DEF TryBeginSleepQuiesce
<1>4. CASE BeginEmergencySleepQuiesce
  BY <1>1, <1>2, <1>4 DEF BeginEmergencySleepQuiesce
<1>5. CASE CancelSleepQuiesce
  <2>1. CASE coordGeneration # 0 /\ quiesceGeneration = coordGeneration
    <3>1. ~quiescing' /\ quiesceGeneration' = 0
      BY <1>5, <2>1, Zenon DEF CancelSleepQuiesce
    <3>2. quiescing' \in BOOLEAN
      BY <1>5, <2>1, Zenon DEF CancelSleepQuiesce
    <3>3. 0 \in 0..Modulus-1
      BY <1>1
    <3> QED BY <1>5, <3>1, <3>2, <3>3 DEF CancelSleepQuiesce
  <2>2. CASE ~(coordGeneration # 0 /\ quiesceGeneration = coordGeneration)
    <3>1. quiescing' = quiescing /\ quiesceGeneration' = quiesceGeneration
      BY <1>5, <2>2, Zenon DEF CancelSleepQuiesce
    <3> QED BY <1>5, <3>1 DEF CancelSleepQuiesce
  <2> QED BY <2>1, <2>2
<1>6. CASE DeepSleep
  <2>1. (coordGeneration + 1) % Modulus \in 0..Modulus-1
    BY <1>1
  <2>2. Fresh((coordGeneration + 1) % Modulus) \in 0..Modulus-1
    BY <2>1, CounterRange
  <2>3. records' \in [Slots -> Record] /\ lease' \in [Tasks -> Lease]
    BY <1>6, EmptyTyped DEF DeepSleep
  <2>4. 0 \in 0..Modulus-1 /\ 1 \in 0..Modulus-1
    BY <1>1
  <2> QED BY <1>6, <2>2, <2>3, <2>4 DEF DeepSleep
<1> QED BY <1>3, <1>4, <1>5, <1>6

\* Every step keeps the types.
LEMMA TypeNext == TypeOK /\ [Next]_vars => TypeOK'
<1> SUFFICES ASSUME TypeOK, [Next]_vars PROVE TypeOK'
  OBVIOUS
<1>1. CASE UNCHANGED vars
  BY <1>1 DEF TypeOK, vars, registryVars, taskVars, quiesceVars, coordVars
<1>2. CASE Next
  BY <1>2, TypeTask, TypePower DEF Next
<1> QED BY <1>1, <1>2

\* The variables keep their types in every behaviour.
THEOREM TypeCorrect == Spec => []TypeOK
BY TypeInit, TypeNext, PTL DEF Spec

--------------------------------------------------------------------------------
(* The counters, the records and the gate under each action. *)

\* A task that moves between two states in which its lease counts the same
\* leaves the counters exact and the records owned.
LEMMA SameLeases ==
    ASSUME TypeOK, CountersExact, LeasesOwnRecords, NEW t \in Tasks,
           UNCHANGED <<records, blockerCounts, totalBlockers>>,
           pc' \in [Tasks -> {"idle", "locking", "pmAcquire", "held",
                              "counting", "totalling", "pmRelease"}],
           \A u \in Tasks \ {t} : pc'[u] = pc[u] /\ lease'[u] = lease[u],
           \/ /\ {pc[t], pc'[t]} \subseteq {"idle", "locking", "pmRelease"}
           \/ /\ {pc[t], pc'[t]} \subseteq {"pmAcquire", "held"}
              /\ lease'[t] = lease[t]
    PROVE  CountersExact' /\ LeasesOwnRecords' /\ Counted' = Counted
<1>1. Counted' = Counted /\ Owners' = Owners
  BY DEF Counted, Owners
<1>2. \A b \in Blockers : CountedFor(b)' = CountedFor(b)
  BY <1>1 DEF CountedFor, Counted
<1>3. CountersExact'
  BY <1>1, <1>2 DEF CountersExact
<1>4. \A u \in Owners : lease'[u] = lease[u]
  BY DEF Owners
<1>5. LeasesOwnRecords'
  BY <1>1, <1>4 DEF LeasesOwnRecords, OwnsRecord, Owners
<1> QED BY <1>1, <1>3, <1>5

\* Register: one more lease in every count, and a record no one else owns.
LEMMA RegisterStep ==
    ASSUME IInv, NEW t \in Tasks, Register(t)
    PROVE  CountersExact' /\ LeasesOwnRecords'
<1> DEFINE s == FirstFree
<1>0. PICK b \in Blockers : b = lease[t].blocker
  BY DEF IInv, TypeOK, Lease
<1>1. /\ pc \in [Tasks -> {"idle", "locking", "pmAcquire", "held",
                           "counting", "totalling", "pmRelease"}]
      /\ lease \in [Tasks -> Lease] /\ records \in [Slots -> Record]
      /\ blockerCounts \in [Blockers -> Nat]
  BY DEF IInv, TypeOK, Lease
<1>2. s \in Slots /\ ~records[s].active
  BY FirstFreeIsFree DEF Register
<1>3. /\ pc[t] = "locking" /\ pc'[t] \in {"pmAcquire", "held"}
      /\ \A u \in Tasks \ {t} : pc'[u] = pc[u] /\ lease'[u] = lease[u]
  BY <1>1 DEF Register
<1>4. /\ lease'[t].blocker = b /\ lease'[t].slot = s
      /\ lease'[t].leaseId = Fresh(nextLeaseId)
  BY <1>0, <1>1 DEF Register, Lease
<1>5. /\ records'[s] = [active |-> TRUE, leaseId |-> Fresh(nextLeaseId), blocker |-> b]
      /\ \A r \in Slots \ {s} : records'[r] = records[r]
  BY <1>0, <1>1, <1>2 DEF Register
<1>6. /\ t \notin Counted /\ t \notin Owners
      /\ Counted' = Counted \cup {t} /\ Owners' = Owners \cup {t}
  BY <1>3 DEF Counted, Owners
<1>7. CountersExact'
  <2>1. CountedFor(b)' = CountedFor(b) \cup {t} /\ t \notin CountedFor(b)
    BY <1>3, <1>4, <1>6 DEF CountedFor, Counted
  <2>2. \A c \in Blockers \ {b} : CountedFor(c)' = CountedFor(c)
    BY <1>3, <1>4, <1>6 DEF CountedFor, Counted
  <2>3. totalBlockers' = totalBlockers + 1
    BY DEF Register
  <2>4. /\ blockerCounts'[b] = blockerCounts[b] + 1
        /\ \A c \in Blockers \ {b} : blockerCounts'[c] = blockerCounts[c]
    BY <1>0, <1>1 DEF Register
  <2>5. Counted \subseteq Tasks /\ \A c \in Blockers : CountedFor(c) \subseteq Tasks
    BY DEF Counted, CountedFor
  <2>6. totalBlockers' = Cardinality(Counted')
    BY <1>6, <2>3, <2>5, CountTasks DEF IInv, CountersExact
  <2>7. blockerCounts'[b] = Cardinality(CountedFor(b)')
    BY <1>1, <2>1, <2>4, <2>5, CountTasks DEF IInv, CountersExact
  <2>8. \A c \in Blockers : blockerCounts'[c] = Cardinality(CountedFor(c)')
    <3> SUFFICES ASSUME NEW c \in Blockers
                 PROVE  blockerCounts'[c] = Cardinality(CountedFor(c)')
      OBVIOUS
    <3>1. CASE c = b
      BY <2>7, <3>1, Zenon
    <3>2. CASE c # b
      <4>1. CountedFor(c)' = CountedFor(c)
        BY <2>2, <3>2
      <4>2. blockerCounts'[c] = Cardinality(CountedFor(c))
        BY <2>4, <3>2 DEF IInv, CountersExact
      <4> QED BY <4>1, <4>2, Zenon
    <3> QED BY <3>1, <3>2
  <2> QED BY <2>6, <2>8 DEF CountersExact
<1>8. LeasesOwnRecords'
  <2>1. \A u \in Owners : /\ u \in Tasks \ {t} /\ OwnsRecord(u)
                          /\ lease[u].slot \in Slots \ {s}
    BY <1>1, <1>2, <1>6 DEF IInv, LeasesOwnRecords, OwnsRecord, Owners, Lease
  <2>2. \A u \in Owners' : OwnsRecord(u)'
    <3>1. OwnsRecord(t)'
      BY <1>4, <1>5 DEF OwnsRecord
    <3>2. \A u \in Owners : OwnsRecord(u)'
      BY <1>3, <1>5, <2>1 DEF OwnsRecord
    <3> QED BY <1>6, <3>1, <3>2
  <2>3. \A u, w \in Owners' : lease'[u].slot = lease'[w].slot => u = w
    BY <1>3, <1>4, <1>6, <2>1 DEF IInv, LeasesOwnRecords
  <2>4. {r \in Slots : records'[r].active} = {r \in Slots : records[r].active} \cup {s}
    BY <1>2, <1>5
  <2>5. {lease'[u].slot : u \in Owners'} = {lease[u].slot : u \in Owners} \cup {s}
    BY <1>3, <1>4, <1>6, <2>1
  <2> QED BY <2>2, <2>3, <2>4, <2>5 DEF IInv, LeasesOwnRecords
<1> QED BY <1>7, <1>8

\* ReleaseRecord: the owner clears its record, and is still counted.
LEMMA ReleaseRecordStep ==
    ASSUME IInv, NEW t \in Tasks, ReleaseRecord(t)
    PROVE  CountersExact' /\ LeasesOwnRecords' /\ Counted' = Counted
<1> DEFINE s == lease[t].slot
<1>1. /\ pc \in [Tasks -> {"idle", "locking", "pmAcquire", "held",
                           "counting", "totalling", "pmRelease"}]
      /\ lease \in [Tasks -> Lease] /\ records \in [Slots -> Record]
      /\ s \in Slots
  BY DEF IInv, TypeOK, Lease
<1>2. t \in Owners /\ OwnsRecord(t)
  BY DEF IInv, LeasesOwnRecords, ReleaseRecord, Owners
<1>3. /\ pc[t] = "held" /\ pc'[t] = "counting" /\ lease' = lease
      /\ \A u \in Tasks \ {t} : pc'[u] = pc[u]
      /\ UNCHANGED <<blockerCounts, totalBlockers>>
  BY <1>1, <1>2 DEF ReleaseRecord
<1>4. /\ ~records'[s].active
      /\ \A r \in Slots \ {s} : records'[r] = records[r]
  BY <1>1, <1>2 DEF ReleaseRecord, EmptyRecord
<1>5. Counted' = Counted /\ Owners' = Owners \ {t}
  BY <1>3 DEF Counted, Owners
<1>6. \A c \in Blockers : CountedFor(c)' = CountedFor(c)
  BY <1>3, <1>5 DEF CountedFor, Counted
<1>7. CountersExact'
  BY <1>3, <1>5, <1>6 DEF IInv, CountersExact
<1>8. \A u \in Owners \ {t} : lease[u].slot \in Slots \ {s}
  BY <1>1, <1>2 DEF IInv, LeasesOwnRecords, Owners, Lease
<1>9. \A u \in Owners' : OwnsRecord(u)'
  <2>1. \A u \in Owners \ {t} : OwnsRecord(u)
    BY DEF IInv, LeasesOwnRecords
  <2>2. \A u \in Owners \ {t} : OwnsRecord(u)'
    BY <1>3, <1>4, <1>8, <2>1 DEF OwnsRecord
  <2> QED BY <1>5, <2>2
<1>10. {r \in Slots : records'[r].active} = {r \in Slots : records[r].active} \ {s}
  BY <1>1, <1>4
<1>11. {lease[u].slot : u \in Owners \ {t}} = {lease[u].slot : u \in Owners} \ {s}
  BY <1>8
<1>12. LeasesOwnRecords'
  <2>1. \A u, w \in Owners' : lease'[u].slot = lease'[w].slot => u = w
    BY <1>3, <1>5 DEF IInv, LeasesOwnRecords
  <2>2. {r \in Slots : records'[r].active} = {lease[u].slot : u \in Owners \ {t}}
    BY <1>10, <1>11 DEF IInv, LeasesOwnRecords
  <2>3. {lease'[u].slot : u \in Owners'} = {lease[u].slot : u \in Owners \ {t}}
    BY <1>3, <1>5
  <2> QED BY <1>9, <2>1, <2>2, <2>3 DEF LeasesOwnRecords
<1> QED BY <1>5, <1>7, <1>12

\* ReleaseCount: the per-blocker count drops the lease; it is never 0 here.
LEMMA ReleaseCountStep ==
    ASSUME IInv, NEW t \in Tasks, ReleaseCount(t)
    PROVE  CountersExact' /\ LeasesOwnRecords' /\ Counted' = Counted
<1>0. PICK b \in Blockers : b = lease[t].blocker
  BY DEF IInv, TypeOK, Lease
<1>1. /\ pc \in [Tasks -> {"idle", "locking", "pmAcquire", "held",
                           "counting", "totalling", "pmRelease"}]
      /\ blockerCounts \in [Blockers -> Nat]
  BY DEF IInv, TypeOK
<1>2. /\ t \in CountedFor(b)
      /\ \A c \in Blockers : CountedFor(c) \subseteq Tasks
  BY <1>0 DEF ReleaseCount, CountedFor, Counted
<1>3. blockerCounts[b] = Cardinality(CountedFor(b)) /\ blockerCounts[b] # 0
  BY <1>2, CountTasks DEF IInv, CountersExact
<1>4. /\ pc[t] = "counting" /\ pc'[t] = "totalling"
      /\ \A u \in Tasks \ {t} : pc'[u] = pc[u]
      /\ UNCHANGED <<records, lease, totalBlockers>>
      /\ blockerCounts'[b] = blockerCounts[b] - 1
      /\ \A c \in Blockers \ {b} : blockerCounts'[c] = blockerCounts[c]
  BY <1>0, <1>1, <1>3 DEF ReleaseCount
<1>5. Counted' = Counted /\ Owners' = Owners
  BY <1>4 DEF Counted, Owners
<1>6. CountedFor(b)' = CountedFor(b) \ {t}
  BY <1>4, <1>5 DEF CountedFor, Counted
<1>7. \A c \in Blockers \ {b} : CountedFor(c)' = CountedFor(c)
  BY <1>0, <1>4, <1>5 DEF CountedFor, Counted
<1>8. blockerCounts'[b] = Cardinality(CountedFor(b)')
  BY <1>2, <1>3, <1>4, <1>6, CountTasks
<1>9. ASSUME NEW c \in Blockers
      PROVE  blockerCounts'[c] = Cardinality(CountedFor(c)')
  <2>1. CASE c = b
    BY <1>8, <2>1, Zenon
  <2>2. CASE c # b
    <3>1. CountedFor(c)' = CountedFor(c)
      BY <1>7, <2>2
    <3>2. blockerCounts'[c] = Cardinality(CountedFor(c))
      BY <1>4, <2>2 DEF IInv, CountersExact
    <3> QED BY <3>1, <3>2, Zenon
  <2> QED BY <2>1, <2>2
<1>10. CountersExact'
  BY <1>4, <1>5, <1>9 DEF IInv, CountersExact
<1>11. LeasesOwnRecords'
  BY <1>4, <1>5 DEF IInv, LeasesOwnRecords, OwnsRecord
<1> QED BY <1>5, <1>10, <1>11

\* ReleaseTotal: the lease stops blocking sleep; the total is never 0 here.
LEMMA ReleaseTotalStep ==
    ASSUME IInv, NEW t \in Tasks, ReleaseTotal(t)
    PROVE  CountersExact' /\ LeasesOwnRecords' /\ Counted' = Counted \ {t}
<1>1. /\ pc \in [Tasks -> {"idle", "locking", "pmAcquire", "held",
                           "counting", "totalling", "pmRelease"}]
      /\ totalBlockers \in Nat
  BY DEF IInv, TypeOK
<1>2. t \in Counted /\ Counted \subseteq Tasks
  BY DEF ReleaseTotal, Counted
<1>3. totalBlockers = Cardinality(Counted) /\ totalBlockers # 0
  BY <1>2, CountTasks DEF IInv, CountersExact
<1>4. /\ pc[t] = "totalling" /\ pc'[t] \in {"pmRelease", "idle"}
      /\ \A u \in Tasks \ {t} : pc'[u] = pc[u]
      /\ UNCHANGED <<records, lease, blockerCounts>>
      /\ totalBlockers' = totalBlockers - 1
  BY <1>1, <1>3 DEF ReleaseTotal
<1>5. Counted' = Counted \ {t} /\ Owners' = Owners
  BY <1>4 DEF Counted, Owners
<1>6. \A c \in Blockers : CountedFor(c)' = CountedFor(c)
  BY <1>4, <1>5 DEF CountedFor, Counted
<1>7. totalBlockers' = Cardinality(Counted')
  BY <1>2, <1>3, <1>4, <1>5, CountTasks
<1>8. CountersExact'
  BY <1>4, <1>6, <1>7 DEF IInv, CountersExact
<1>9. LeasesOwnRecords'
  BY <1>4, <1>5 DEF IInv, LeasesOwnRecords, OwnsRecord
<1> QED BY <1>5, <1>8, <1>9

\* A task never moves the gate, and is admitted through an open gate only.
LEMMA GateUnderTasks ==
    ASSUME IInv, NEW t \in Tasks, TaskStep(t)
    PROVE  /\ GateHasOneOwner' /\ GenerationNotZero'
           /\ Register(t) => coord = "none"
           /\ coord' = coord /\ quiescing' = quiescing
<1>1. UNCHANGED <<quiesceVars, coordVars>>
  BY DEF TaskStep, CheckGate, Register, Refuse, AcquirePmLock, ReleaseRecord,
         ReleaseCount, ReleaseTotal, ReleasePmLock
<1>2. /\ quiescing' = quiescing /\ quiesceGeneration' = quiesceGeneration
      /\ coord' = coord /\ coordGeneration' = coordGeneration
  BY <1>1 DEF quiesceVars, coordVars
<1>3. GateHasOneOwner' /\ GenerationNotZero'
  BY <1>2 DEF IInv, GateHasOneOwner, GenerationNotZero
<1>4. Register(t) => coord = "none"
  BY DEF Register, IInv, GateHasOneOwner
<1> QED BY <1>2, <1>3, <1>4

\* The invariant survives every step of a task.
LEMMA TaskStepKeepsIInv ==
    ASSUME IInv, NEW t \in Tasks, TaskStep(t)
    PROVE  IInv'
<1>1. TypeOK'
  BY TypeTask DEF IInv
<1>2. GateHasOneOwner' /\ GenerationNotZero' /\ coord' = coord /\ quiescing' = quiescing
  BY GateUnderTasks
<1>3. CountersExact' /\ LeasesOwnRecords' /\ (Counted' \subseteq Counted \/ Register(t))
  <2>1. pc \in [Tasks -> {"idle", "locking", "pmAcquire", "held",
                         "counting", "totalling", "pmRelease"}]
        /\ lease \in [Tasks -> Lease]
    BY DEF IInv, TypeOK
  <2>2. pc' \in [Tasks -> {"idle", "locking", "pmAcquire", "held",
                          "counting", "totalling", "pmRelease"}]
    BY <1>1 DEF TypeOK
  <2>3. CASE \E b \in Blockers : CheckGate(t, b)
    BY <2>1, <2>2, <2>3, SameLeases DEF CheckGate, IInv, registryVars
  <2>4. CASE Register(t)
    BY <2>4, RegisterStep
  <2>5. CASE Refuse(t)
    BY <2>1, <2>2, <2>5, SameLeases DEF Refuse, IInv, registryVars
  <2>6. CASE AcquirePmLock(t)
    BY <2>1, <2>2, <2>6, SameLeases DEF AcquirePmLock, IInv, registryVars
  <2>7. CASE ReleaseRecord(t)
    BY <2>7, ReleaseRecordStep
  <2>8. CASE ReleaseCount(t)
    BY <2>8, ReleaseCountStep
  <2>9. CASE ReleaseTotal(t)
    BY <2>9, ReleaseTotalStep
  <2>10. CASE ReleasePmLock(t)
    BY <2>1, <2>2, <2>10, SameLeases DEF ReleasePmLock, IInv, registryVars
  <2> QED BY <2>3, <2>4, <2>5, <2>6, <2>7, <2>8, <2>9, <2>10 DEF TaskStep
<1>4. IdleQuiesceExcludesWork'
  <2>1. coord = "idle" => Counted' = {}
    BY <1>3, GateUnderTasks DEF IInv, IdleQuiesceExcludesWork
  <2> QED BY <1>2, <2>1 DEF IInv, IdleQuiesceExcludesWork
<1> QED BY <1>1, <1>2, <1>3, <1>4 DEF IInv

\* The invariant survives every step of the power task.
LEMMA PowerStepKeepsIInv ==
    ASSUME IInv,
           \/ TryBeginSleepQuiesce
           \/ BeginEmergencySleepQuiesce
           \/ CancelSleepQuiesce
           \/ DeepSleep
    PROVE  IInv'
<1>1. TypeOK' /\ Fresh(nextGeneration) # 0
  BY TypePower, CounterRange DEF IInv, TypeOK
<1>2. CASE TryBeginSleepQuiesce
  <2>1. ~quiescing /\ coord = "none"
    BY <1>2 DEF TryBeginSleepQuiesce, IInv, GateHasOneOwner
  <2>2. UNCHANGED <<registryVars, taskVars>>
    BY <1>2 DEF TryBeginSleepQuiesce
  <2>3. CountersExact' /\ LeasesOwnRecords' /\ Counted' = Counted
    BY <2>2 DEF IInv, CountersExact, LeasesOwnRecords, OwnsRecord, Counted,
                CountedFor, Owners, registryVars, taskVars
  <2>4. CASE totalBlockers = 0
    <3>1. /\ quiescing' /\ coord' = "idle" /\ quiesceGeneration' = coordGeneration'
          /\ coordGeneration' = Fresh(nextGeneration)
      BY <1>2, <2>1, <2>4 DEF TryBeginSleepQuiesce
    <3>2. Counted = {}
      BY <2>4, TasksAssumption, CountTasks DEF IInv, CountersExact, Counted
    <3> QED BY <1>1, <2>3, <3>1, <3>2
            DEF IInv, IdleQuiesceExcludesWork, GateHasOneOwner,
                GenerationNotZero
  <2>5. CASE totalBlockers # 0
    <3>1. ~quiescing' /\ coord' = "none" /\ quiesceGeneration' = 0
      BY <1>2, <2>1, <2>5 DEF TryBeginSleepQuiesce
    <3> QED BY <1>1, <2>3, <3>1 DEF IInv, IdleQuiesceExcludesWork, GateHasOneOwner,
                GenerationNotZero
  <2> QED BY <2>4, <2>5
<1>3. CASE BeginEmergencySleepQuiesce
  <2>1. ~quiescing /\ coord = "none"
    BY <1>3 DEF BeginEmergencySleepQuiesce, IInv, GateHasOneOwner
  <2>2. CountersExact' /\ LeasesOwnRecords'
    BY <1>3 DEF BeginEmergencySleepQuiesce, IInv, CountersExact, LeasesOwnRecords,
                OwnsRecord, Counted, CountedFor, Owners, registryVars, taskVars
  <2>3. /\ quiescing' /\ coord' = "emergency" /\ quiesceGeneration' = coordGeneration'
        /\ coordGeneration' = Fresh(nextGeneration)
    BY <1>3, <2>1 DEF BeginEmergencySleepQuiesce
  <2> QED BY <1>1, <2>2, <2>3 DEF IInv, IdleQuiesceExcludesWork, GateHasOneOwner,
                GenerationNotZero
<1>4. CASE CancelSleepQuiesce
  <2>1. CountersExact' /\ LeasesOwnRecords'
    BY <1>4 DEF CancelSleepQuiesce, IInv, CountersExact, LeasesOwnRecords,
                OwnsRecord, Counted, CountedFor, Owners, registryVars, taskVars
  <2>2. quiescing /\ quiesceGeneration = coordGeneration /\ coordGeneration # 0
    BY <1>4 DEF CancelSleepQuiesce, IInv, GateHasOneOwner, GenerationNotZero
  <2>3. ~quiescing' /\ coord' = "none" /\ quiesceGeneration' = 0
    BY <1>4, <2>2 DEF CancelSleepQuiesce, quiesceVars
  <2> QED BY <1>1, <2>1, <2>3 DEF IInv, IdleQuiesceExcludesWork, GateHasOneOwner,
                GenerationNotZero
<1>5. CASE DeepSleep
  <2>1. /\ \A t \in Tasks : pc'[t] = "idle"
        /\ \A b \in Blockers : blockerCounts'[b] = 0
        /\ totalBlockers' = 0
        /\ \A s \in Slots : ~records'[s].active
    BY <1>5 DEF DeepSleep, EmptyRecord
  <2>2. Counted' = {} /\ Owners' = {} /\ \A b \in Blockers : CountedFor(b)' = {}
    BY <2>1 DEF Counted, Owners, CountedFor
  <2>3. CountersExact'
    BY <2>1, <2>2, FS_EmptySet DEF CountersExact
  <2>4. LeasesOwnRecords'
    BY <2>1, <2>2 DEF LeasesOwnRecords
  <2>5. ~quiescing' /\ coord' = "none" /\ quiesceGeneration' = 0
    BY <1>5 DEF DeepSleep
  <2> QED BY <1>1, <2>3, <2>4, <2>5 DEF IInv, IdleQuiesceExcludesWork, GateHasOneOwner,
                GenerationNotZero
<1> QED BY <1>2, <1>3, <1>4, <1>5

\* The invariant holds initially.
LEMMA InitIInv == Init => IInv
<1> SUFFICES ASSUME Init PROVE IInv
  OBVIOUS
<1>1. TypeOK
  BY TypeInit
<1>2. CountersExact /\ Counted = {} /\ Owners = {}
  BY NothingCounted DEF Init
<1>3. LeasesOwnRecords
  BY <1>2 DEF Init, LeasesOwnRecords, EmptyRecord
<1>4. IdleQuiesceExcludesWork /\ GateHasOneOwner /\ GenerationNotZero
  BY DEF Init, IdleQuiesceExcludesWork, GateHasOneOwner,
                GenerationNotZero
<1> QED BY <1>1, <1>2, <1>3, <1>4 DEF IInv

\* The invariant survives every step, and every stuttering step.
LEMMA NextIInv == IInv /\ [Next]_vars => IInv'
<1> SUFFICES ASSUME IInv, [Next]_vars PROVE IInv'
  OBVIOUS
<1>1. CASE UNCHANGED vars
  <2>1. UNCHANGED <<registryVars, taskVars, quiesceVars, coordVars>>
    BY <1>1 DEF vars
  <2>2. TypeOK'
    BY <1>1, TypeNext DEF IInv
  <2>3. CountersExact' /\ LeasesOwnRecords' /\ Counted' = Counted
    BY <2>1 DEF IInv, CountersExact, LeasesOwnRecords, OwnsRecord, Counted,
                CountedFor, Owners, registryVars, taskVars
  <2>4. IdleQuiesceExcludesWork' /\ GateHasOneOwner' /\ GenerationNotZero'
    BY <2>1, <2>3 DEF IInv, IdleQuiesceExcludesWork, GateHasOneOwner,
                      GenerationNotZero, quiesceVars, coordVars
  <2> QED BY <2>2, <2>3, <2>4 DEF IInv
<1>2. CASE Next
  BY <1>2, TaskStepKeepsIInv, PowerStepKeepsIInv DEF Next
<1> QED BY <1>1, <1>2

\* The invariant holds in every behaviour.
LEMMA IInvAlways == Spec => []IInv
BY InitIInv, NextIInv, PTL DEF Spec

--------------------------------------------------------------------------------
(* The theorems. *)

\* The counters the power task and the status pages read are exact at every
\* instant, for any number of tasks and of lease records.
THEOREM CountersAlwaysExact == Spec => []CountersExact
BY IInvAlways, PTL DEF IInv

\* No release is ever refused as stale: every lease owns its record.
THEOREM LeasesAlwaysOwnRecords == Spec => []LeasesOwnRecords
BY IInvAlways, PTL DEF IInv

\* An idle sleep transaction runs with no work admitted, from the moment the
\* gate closes until it reopens or the device sleeps.
THEOREM IdleQuiesceSafe == Spec => []IdleQuiesceExcludesWork
BY IInvAlways, PTL DEF IInv

\* The gate is closed exactly during a sleep transaction, under its generation.
THEOREM GateAlwaysOwned == Spec => []GateHasOneOwner
BY IInvAlways, PTL DEF IInv

\* The registry keeps its books, for any number of tasks and records.
THEOREM RegistryAlwaysSound == Spec => []RegistrySound
<1>1. IInv => RegistrySound
  BY DEF IInv, RegistrySound
<1> QED BY <1>1, IInvAlways, PTL

--------------------------------------------------------------------------------
(* The light-sleep lock. *)

Acquiring == {t \in Tasks : pc[t] = "pmAcquire"}
Releasing == {t \in Tasks : pc[t] = "pmRelease"}
Busy == IF Counted # {} THEN 1 ELSE 0

\* The lock is balanced, and the first task of a busy period is still alone on
\* its way to it: it stays counted until it has the lock, so that the total does
\* not come back to 0 and no second task is a first one.  A release that finds a
\* lock nobody holds, which esp_pm_lock_release refuses, is excluded by both.
PmInv ==
    /\ pmCount + Cardinality(Acquiring) = Busy + Cardinality(Releasing)
    /\ \A t, u \in Acquiring : t = u

\* The sets and numbers that PmInv compares; nobody acquires without being counted.
LEMMA PmNumbers ==
    ASSUME TypeOK
    PROVE  /\ Acquiring \subseteq Tasks /\ Releasing \subseteq Tasks
           /\ Acquiring \subseteq Counted
           /\ Cardinality(Acquiring) \in Nat /\ Cardinality(Releasing) \in Nat
           /\ pmCount \in Nat /\ Busy \in {0, 1}
           /\ (\A t, u \in Acquiring : t = u) => Cardinality(Acquiring) <= Busy
<1>1. Acquiring \subseteq Tasks /\ Releasing \subseteq Tasks /\ Acquiring \subseteq Counted
  BY DEF Acquiring, Releasing, Counted
<1>2. Cardinality(Acquiring) \in Nat /\ Cardinality(Releasing) \in Nat
  BY <1>1, TasksAssumption, FS_Subset, FS_CardinalityType
<1>3. pmCount \in Nat /\ Busy \in {0, 1}
  BY DEF TypeOK, Busy
<1>4. ASSUME \A t, u \in Acquiring : t = u
      PROVE  Cardinality(Acquiring) <= Busy
  <2>1. CASE Acquiring = {}
    BY <1>3, <2>1, FS_EmptySet
  <2>2. CASE Acquiring # {}
    <3>1. PICK t \in Acquiring : Acquiring = {t}
      BY <1>4, <2>2
    <3>2. Cardinality(Acquiring) = 1
      BY <3>1, FS_Singleton
    <3> QED BY <1>1, <2>2, <3>2 DEF Busy
  <2> QED BY <2>1, <2>2
<1> QED BY <1>1, <1>2, <1>3, <1>4

\* No step of a task takes the lock twice or gives it back once too often.
LEMMA PmTaskStep ==
    ASSUME IInv, PmInv, NEW t \in Tasks, TaskStep(t)
    PROVE  PmInv'
<1>1. /\ pc \in [Tasks -> {"idle", "locking", "pmAcquire", "held",
                           "counting", "totalling", "pmRelease"}]
      /\ totalBlockers = Cardinality(Counted) /\ Counted \subseteq Tasks
  BY DEF IInv, TypeOK, CountersExact, Counted
<1>2. /\ Cardinality(Acquiring) \in Nat /\ Cardinality(Releasing) \in Nat
      /\ pmCount \in Nat /\ Busy \in {0, 1} /\ Cardinality(Acquiring) <= Busy
      /\ Acquiring \subseteq Tasks /\ Releasing \subseteq Tasks /\ Acquiring \subseteq Counted
  BY PmNumbers DEF IInv, PmInv
<1>3. ASSUME pmCount' = pmCount, Counted' = Counted,
             Acquiring' = Acquiring, Releasing' = Releasing
      PROVE  PmInv'
  BY <1>3 DEF PmInv, Busy
<1>4. CASE \/ \E b \in Blockers : CheckGate(t, b)
           \/ Refuse(t) \/ ReleaseRecord(t) \/ ReleaseCount(t)
  <2>1. pmCount' = pmCount /\ Acquiring' = Acquiring
    BY <1>1, <1>4 DEF CheckGate, Refuse, ReleaseRecord, ReleaseCount, Acquiring
  <2>2. Releasing' = Releasing
    BY <1>1, <1>4 DEF CheckGate, Refuse, ReleaseRecord, ReleaseCount, Releasing
  <2>3. Counted' = Counted
    <3>1. CASE ReleaseRecord(t) \/ ReleaseCount(t)
      BY <3>1, ReleaseRecordStep, ReleaseCountStep
    <3>2. CASE (\E b \in Blockers : CheckGate(t, b)) \/ Refuse(t)
      BY <1>1, <3>2 DEF CheckGate, Refuse, Counted
    <3> QED BY <1>4, <3>1, <3>2
  <2> QED BY <1>3, <2>1, <2>2, <2>3
<1>5. CASE Register(t)
  <2>1. /\ t \notin Counted /\ Counted' = Counted \cup {t} /\ Releasing' = Releasing
        /\ pmCount' = pmCount /\ Busy' = 1
    BY <1>1, <1>5 DEF Register, Counted, Releasing, Busy
  <2>2. CASE totalBlockers = 0
    <3>1. Counted = {} /\ Acquiring = {} /\ Busy = 0
      BY <1>1, <1>2, <2>2, CountTasks DEF Busy
    <3>2. Acquiring' = {t}
      BY <1>1, <1>5, <2>2, <3>1 DEF Register, Acquiring
    <3>3. Cardinality(Acquiring') = 1 /\ Cardinality(Acquiring) = 0
      BY <3>1, <3>2, FS_Singleton, FS_EmptySet
    <3> QED BY <1>2, <2>1, <3>1, <3>2, <3>3 DEF PmInv
  <2>3. CASE totalBlockers # 0
    <3>1. Busy = 1
      BY <1>1, <2>3, CountTasks DEF Busy
    <3>2. Acquiring' = Acquiring
      BY <1>1, <1>5, <2>3 DEF Register, Acquiring
    <3> QED BY <2>1, <3>1, <3>2 DEF PmInv
  <2> QED BY <2>2, <2>3
<1>6. CASE AcquirePmLock(t)
  <2>1. /\ t \in Acquiring /\ Acquiring' = Acquiring \ {t} /\ Releasing' = Releasing
        /\ pmCount' = pmCount + 1 /\ Counted' = Counted
    BY <1>1, <1>6 DEF AcquirePmLock, Acquiring, Releasing, Counted
  <2>2. Cardinality(Acquiring') = Cardinality(Acquiring) - 1
    BY <1>2, <2>1, CountTasks
  <2>3. Busy' = Busy
    BY <2>1 DEF Busy
  <2> QED BY <1>2, <2>1, <2>2, <2>3 DEF PmInv
<1>7. CASE ReleaseTotal(t)
  <2>1. /\ t \in Counted /\ Acquiring' = Acquiring /\ pmCount' = pmCount
        /\ Counted' = Counted \ {t}
    BY <1>1, <1>7, ReleaseTotalStep DEF ReleaseTotal, Acquiring, Counted
  <2>2. /\ Cardinality(Counted') = totalBlockers - 1 /\ totalBlockers # 0
        /\ Counted' = {} <=> totalBlockers = 1
    <3>1. Counted' \subseteq Tasks
      BY <1>1, <2>1
    <3> QED BY <1>1, <2>1, <3>1, CountTasks
  <2>3. CASE totalBlockers = 1
    <3>1. Busy = 1 /\ Busy' = 0
      BY <2>1, <2>2, <2>3 DEF Busy
    <3>2. t \notin Releasing /\ Releasing' = Releasing \cup {t}
      BY <1>1, <1>7, <2>3 DEF ReleaseTotal, Releasing
    <3>3. Cardinality(Releasing') = Cardinality(Releasing) + 1
      BY <1>2, <3>2, CountTasks
    <3> QED BY <1>2, <2>1, <3>1, <3>3 DEF PmInv
  <2>4. CASE totalBlockers # 1
    <3>1. Busy = 1 /\ Busy' = 1
      BY <2>1, <2>2, <2>4 DEF Busy
    <3>2. Releasing' = Releasing
      BY <1>1, <1>7, <2>4 DEF ReleaseTotal, Releasing
    <3> QED BY <2>1, <3>1, <3>2 DEF PmInv
  <2> QED BY <2>3, <2>4
<1>8. CASE ReleasePmLock(t)
  <2>1. /\ t \in Releasing /\ Releasing' = Releasing \ {t} /\ Acquiring' = Acquiring
        /\ Counted' = Counted
    BY <1>1, <1>8 DEF ReleasePmLock, Acquiring, Releasing, Counted
  <2>2. Cardinality(Releasing') = Cardinality(Releasing) - 1 /\ Cardinality(Releasing) # 0
    BY <1>2, <2>1, CountTasks
  <2>3. pmCount # 0
    BY <1>2, <2>2 DEF PmInv
  <2>4. pmCount' = pmCount - 1 /\ Busy' = Busy
    BY <1>8, <2>1, <2>3 DEF ReleasePmLock, Busy
  <2> QED BY <1>2, <2>1, <2>2, <2>4 DEF PmInv
<1> QED BY <1>4, <1>5, <1>6, <1>7, <1>8 DEF TaskStep

\* The light-sleep lock is held once as long as work is counted, and is owed no
\* more calls than tasks are on their way to make.
THEOREM PmLockAlwaysBalanced == Spec => []PmLockBalanced
<1>1. Init => PmInv
  <2> SUFFICES ASSUME Init PROVE PmInv
    OBVIOUS
  <2>1. Acquiring = {} /\ Releasing = {} /\ Counted = {}
    BY DEF Init, Acquiring, Releasing, Counted
  <2> QED BY <2>1, FS_EmptySet DEF Init, PmInv, Busy
<1>2. IInv /\ PmInv /\ [Next]_vars => PmInv'
  <2> SUFFICES ASSUME IInv, PmInv, [Next]_vars PROVE PmInv'
    OBVIOUS
  <2>1. ASSUME pmCount' = pmCount, pc' = pc
        PROVE  PmInv'
    BY <2>1 DEF PmInv, Busy, Acquiring, Releasing, Counted
  <2>2. CASE \E t \in Tasks : TaskStep(t)
    BY <2>2, PmTaskStep
  <2>3. CASE TryBeginSleepQuiesce \/ BeginEmergencySleepQuiesce \/ CancelSleepQuiesce
    BY <2>1, <2>3 DEF TryBeginSleepQuiesce, BeginEmergencySleepQuiesce, CancelSleepQuiesce,
                      taskVars
  <2>4. CASE DeepSleep
    <3>1. Acquiring' = {} /\ Releasing' = {} /\ Counted' = {} /\ pmCount' = 0
      BY <2>4 DEF DeepSleep, Acquiring, Releasing, Counted
    <3> QED BY <3>1, FS_EmptySet DEF PmInv, Busy
  <2>5. CASE UNCHANGED vars
    BY <2>1, <2>5 DEF vars, taskVars
  <2> QED BY <2>2, <2>3, <2>4, <2>5 DEF Next
<1>3. PmInv => PmLockBalanced
  BY DEF PmInv, PmLockBalanced, Acquiring, Releasing, Busy
<1> QED BY <1>1, <1>2, <1>3, IInvAlways, PTL DEF Spec

--------------------------------------------------------------------------------
(* The coordinator implements LeaseGate. *)

\* A step of a task admits it, finishes it, or is invisible at the gate.
LEMMA TaskStepRefines ==
    ASSUME IInv, NEW t \in Tasks, TaskStep(t)
    PROVE  Gate!Admit(t) \/ Gate!Finish(t) \/ UNCHANGED Gate!vars
<1>1. coord' = coord
  BY GateUnderTasks
<1>2. pc \in [Tasks -> {"idle", "locking", "pmAcquire", "held",
                       "counting", "totalling", "pmRelease"}]
      /\ totalBlockers \in Nat
  BY DEF IInv, TypeOK
<1>3. CASE Register(t)
  <2>1. coord = "none"
    BY <1>3, GateUnderTasks
  <2>2. t \notin Counted /\ Counted' = Counted \cup {t}
    BY <1>2, <1>3 DEF Register, Counted
  <2> QED BY <1>1, <2>1, <2>2 DEF Gate!Admit
<1>4. CASE ReleaseTotal(t)
  <2>1. t \in Counted
    BY <1>4 DEF ReleaseTotal, Counted
  <2> QED BY <1>1, <1>4, <2>1, ReleaseTotalStep DEF Gate!Finish
<1>5. CASE ReleaseRecord(t) \/ ReleaseCount(t)
  BY <1>1, <1>5, ReleaseRecordStep, ReleaseCountStep DEF Gate!vars
<1>6. CASE \/ \E b \in Blockers : CheckGate(t, b)
           \/ Refuse(t) \/ AcquirePmLock(t) \/ ReleasePmLock(t)
  <2>1. Counted' = Counted
    BY <1>2, <1>6 DEF CheckGate, Refuse, AcquirePmLock, ReleasePmLock, Counted
  <2> QED BY <1>1, <2>1 DEF Gate!vars
<1> QED BY <1>3, <1>4, <1>5, <1>6 DEF TaskStep

\* Each step of the power task is a step of the gate, or a failed attempt.
LEMMA PowerStepRefines ==
    ASSUME IInv,
           \/ TryBeginSleepQuiesce
           \/ BeginEmergencySleepQuiesce
           \/ CancelSleepQuiesce
           \/ DeepSleep
    PROVE  [Gate!Next]_(Gate!vars)
<1>1. CASE TryBeginSleepQuiesce
  <2>1. ~quiescing /\ coord = "none"
    BY <1>1 DEF TryBeginSleepQuiesce, IInv, GateHasOneOwner
  <2>2. Counted' = Counted
    BY <1>1 DEF TryBeginSleepQuiesce, taskVars, Counted
  <2>3. CASE totalBlockers = 0
    <3>1. Counted = {}
      BY <2>3, CountTasks DEF IInv, CountersExact, Counted
    <3>2. coord' = "idle"
      BY <1>1, <2>1, <2>3 DEF TryBeginSleepQuiesce
    <3> QED BY <2>1, <2>2, <3>1, <3>2 DEF Gate!Next, Gate!CloseForIdle
  <2>4. CASE totalBlockers # 0
    <3>1. coord' = coord
      BY <1>1, <2>1, <2>4 DEF TryBeginSleepQuiesce
    <3> QED BY <2>2, <3>1 DEF Gate!vars
  <2> QED BY <2>3, <2>4
<1>2. CASE BeginEmergencySleepQuiesce
  <2>1. ~quiescing /\ coord = "none"
    BY <1>2 DEF BeginEmergencySleepQuiesce, IInv, GateHasOneOwner
  <2>2. Counted' = Counted
    BY <1>2 DEF BeginEmergencySleepQuiesce, taskVars, Counted
  <2>3. coord' = "emergency"
    BY <1>2, <2>1 DEF BeginEmergencySleepQuiesce
  <2> QED BY <2>1, <2>2, <2>3 DEF Gate!Next, Gate!CloseForEmergency
<1>3. CASE CancelSleepQuiesce
  <2>1. Counted' = Counted
    BY <1>3 DEF CancelSleepQuiesce, taskVars, Counted
  <2>2. coord = "idle" /\ coord' = "none"
    BY <1>3 DEF CancelSleepQuiesce
  <2> QED BY <2>1, <2>2 DEF Gate!Next, Gate!Reopen
<1>4. CASE DeepSleep
  <2>1. Counted' = {}
    BY <1>4 DEF DeepSleep, Counted
  <2>2. coord # "none" /\ coord' = "none"
    BY <1>4 DEF DeepSleep
  <2>3. coord \in {"idle", "emergency"}
    BY <2>2 DEF IInv, TypeOK
  <2> QED BY <2>1, <2>2, <2>3 DEF Gate!Next, Gate!Sleep
<1> QED BY <1>1, <1>2, <1>3, <1>4

\* For the rest of the firmware the coordinator is the gate of LeaseGate: the
\* half-done acquisitions and releases are invisible, and an idle sleep never
\* interrupts admitted work.
THEOREM CoordinatorImplementsGate == Spec => ImplementsGate
<1>1. Init => Gate!Init
  BY DEF Init, Gate!Init, Counted
<1>2. IInv /\ [Next]_vars => [Gate!Next]_(Gate!vars)
  <2> SUFFICES ASSUME IInv, [Next]_vars PROVE [Gate!Next]_(Gate!vars)
    OBVIOUS
  <2>1. CASE UNCHANGED vars
    BY <2>1 DEF vars, taskVars, coordVars, Gate!vars, Counted
  <2>2. CASE Next
    BY <2>2, TaskStepRefines, PowerStepRefines DEF Next, Gate!Next
  <2> QED BY <2>1, <2>2
<1> QED BY <1>1, <1>2, IInvAlways, PTL DEF Spec, ImplementsGate, Gate!Spec


-------------------------------------------------------------------------------
(* The commands *)


AskerPlaces == {"none", "post", "swap", "notify", "wait", "cancel", "waitClaimed", "ready",
                "failed"}

OwnerPlaces == {"parked", "render", "serve", "claimed", "powerOff", "publish", "give", "release",
                "exchange", "validate", "maintain", "clean", "cut"}

\* The tasks are at places of the model, and the bounds are kept because a
\* frame or a request is only accepted below them.
Places ==
    /\ asker \in AskerPlaces /\ owner \in OwnerPlaces
    /\ asker = "post" => asked < MaxRequests
    /\ asker \notin {"none", "post"} => asked > 0
    /\ frame => activity <= MaxActivity
    /\ owner = "render" => frame

\* The generations pass from the power task to the EPD task and back in order.
Handed ==
    /\ generation = asked
    /\ prepResult <= served /\ served <= claim /\ claim <= asked
    /\ owner = "publish" => served = claim

\* A request is only taken back while it is pending, and then it never becomes
\* a claim: the next one that is posted has a generation of its own.
TakenBack ==
    /\ \A g \in cancelled : g <= asked
    /\ asked \in cancelled => prepState = "idle" /\ asker \in {"failed", "none", "post"}
    /\ owner \in {"powerOff", "publish", "give"} => claim \notin cancelled

\* A transaction meets no frame, so the notification it gives is not spent on
\* one and the next look of the EPD task is for its request.
Noticed ==
    /\ asker # "none" => ~frame
    /\ asker \in {"wait", "cancel"} /\ prepState = "pending" => woken \/ owner = "serve"

ChannelInv == CommandsTypeOK /\ Places /\ Handed /\ TakenBack /\ Noticed /\ ReadyMeansServed

--------------------------------------------------------------------------------
\* The steps of the UI task keep the invariant.
LEMMA UiStep ==
    ASSUME ChannelInv, MaintenanceUi
    PROVE  ChannelInv'
<1> USE BoundsAssumption DEF ChannelInv, CommandsTypeOK, Serving, Places, AskerPlaces,
        OwnerPlaces, Handed, TakenBack, Noticed, ReadyMeansServed
<1>1. CASE StoreGeneration
  BY <1>1 DEF StoreGeneration, activityVars, askerVars, channelVars, ownerVars, railVars
<1>2. CASE RequestEpdIdleMaintenance
  BY <1>2, ZenonT(60)
     DEF RequestEpdIdleMaintenance, activityVars, askerVars, channelVars, ownerVars, railVars
<1> QED BY <1>1, <1>2 DEF MaintenanceUi

\* The steps of the EPD task keep the invariant.
LEMMA EpdStep ==
    ASSUME ChannelInv, EpdOwner
    PROVE  ChannelInv'
<1> USE BoundsAssumption DEF ChannelInv, CommandsTypeOK, Serving, Places, AskerPlaces,
        OwnerPlaces, Handed, TakenBack, Noticed, ReadyMeansServed
<1>1. CASE WakeUp
  BY <1>1 DEF WakeUp, activityVars, askerVars, channelVars, maintenanceVars, railVars
<1>2. CASE Render
  <2>1. CommandsTypeOK'
    <3>1. activity \in Nat /\ MaxActivity \in Nat /\ activity <= MaxActivity
      BY <1>2 DEF Render
    <3>2. activity' = activity + 1 /\ recent' = TRUE /\ idleCut' = FALSE
      BY <1>2 DEF Render, NoteEpdActivity
    <3>3. activity' \in 0..MaxActivity + 1
      BY <3>1, <3>2
    <3>4. frame' = FALSE /\ rail' = TRUE /\ heavy' \in BOOLEAN /\ ~Serving'
      BY <1>2 DEF Render
    <3> QED BY <1>2, <3>2, <3>3, <3>4 DEF Render, channelVars, askerVars, maintenanceVars
  <2>2. Places'
    BY <1>2 DEF Render, askerVars, channelVars, maintenanceVars, NoteEpdActivity
  <2>3. Handed'
    BY <1>2 DEF Render, askerVars, channelVars, maintenanceVars, NoteEpdActivity
  <2>4. TakenBack'
    BY <1>2 DEF Render, askerVars, channelVars, maintenanceVars, NoteEpdActivity
  <2>5. Noticed'
    BY <1>2 DEF Render, askerVars, channelVars, maintenanceVars, NoteEpdActivity
  <2>6. ReadyMeansServed'
    BY <1>2 DEF Render, askerVars, channelVars, maintenanceVars, NoteEpdActivity
  <2> QED BY <2>1, <2>2, <2>3, <2>4, <2>5, <2>6
<1>3. CASE ServeSleepPrep
  BY <1>3 DEF ServeSleepPrep, activityVars, askerVars, maintenanceVars, railVars
<1>4. CASE LoadGeneration
  BY <1>4 DEF LoadGeneration, activityVars, askerVars, channelVars, maintenanceVars, railVars
<1>5. CASE TryPowerOffEpd
  <2>1. CommandsTypeOK'
    BY <1>5 DEF TryPowerOffEpd, activityVars, askerVars, channelVars, maintenanceVars
  <2>2. Places'
    BY <1>5 DEF TryPowerOffEpd, activityVars, askerVars, channelVars, maintenanceVars
  <2>3. Handed'
    BY <1>5 DEF TryPowerOffEpd, activityVars, askerVars, channelVars, maintenanceVars
  <2>4. TakenBack'
    BY <1>5 DEF TryPowerOffEpd, activityVars, askerVars, channelVars, maintenanceVars
  <2>5. Noticed'
    BY <1>5 DEF TryPowerOffEpd, activityVars, askerVars, channelVars, maintenanceVars
  <2>6. ReadyMeansServed'
    BY <1>5 DEF TryPowerOffEpd, activityVars, askerVars, channelVars, maintenanceVars
  <2> QED BY <2>1, <2>2, <2>3, <2>4, <2>5, <2>6
<1>6. CASE PublishPrepResult
  BY <1>6 DEF PublishPrepResult, activityVars, askerVars, maintenanceVars, railVars
<1>7. CASE GiveDone
  BY <1>7 DEF GiveDone, activityVars, askerVars, maintenanceVars, railVars
<1>8. CASE ReleaseChannel
  BY <1>8 DEF ReleaseChannel, activityVars, askerVars, maintenanceVars, railVars
<1>9. CASE TakeMaintenance
  BY <1>9 DEF TakeMaintenance, activityVars, askerVars, channelVars, railVars
<1>10. CASE Validate
  BY <1>10 DEF Validate, activityVars, askerVars, channelVars, maintenanceVars, railVars
<1>11. CASE Maintain
  BY <1>11 DEF Maintain, activityVars, askerVars, channelVars, maintenanceVars
<1>12. CASE CleanUp
  BY <1>12 DEF CleanUp, activityVars, askerVars, channelVars, maintenanceVars
<1>13. CASE CutRail
  BY <1>13 DEF CutRail, askerVars, channelVars, maintenanceVars
<1> QED BY <1>1, <1>2, <1>3, <1>4, <1>5, <1>6, <1>7, <1>8, <1>9, <1>10, <1>11, <1>12,
       <1>13 DEF EpdOwner

\* The steps of the power task keep the invariant.
LEMMA PowerStep ==
    ASSUME ChannelInv, PowerAsker
    PROVE  ChannelInv'
<1> USE BoundsAssumption DEF ChannelInv, CommandsTypeOK, Serving, Places, AskerPlaces,
        OwnerPlaces, Handed, TakenBack, Noticed, ReadyMeansServed
<1>1. CASE StorePrepGeneration
  BY <1>1 DEF StorePrepGeneration, activityVars, maintenanceVars, ownerVars, railVars
<1>2. CASE PostPending
  BY <1>2 DEF PostPending, activityVars, maintenanceVars, ownerVars, railVars
<1>3. CASE NotifyOwner
  BY <1>3 DEF NotifyOwner, activityVars, channelVars, maintenanceVars, ownerVars, railVars
<1>4. CASE TakeDone
  <2>1. CommandsTypeOK'
    BY <1>4 DEF TakeDone, activityVars, maintenanceVars, ownerVars, railVars, ResultMatches
  <2>2. Places'
    BY <1>4 DEF TakeDone, activityVars, maintenanceVars, ownerVars, railVars, ResultMatches
  <2>3. Handed'
    BY <1>4 DEF TakeDone, activityVars, maintenanceVars, ownerVars, railVars, ResultMatches
  <2>4. TakenBack'
    BY <1>4 DEF TakeDone, activityVars, maintenanceVars, ownerVars, railVars, ResultMatches
  <2>5. Noticed'
    BY <1>4 DEF TakeDone, activityVars, maintenanceVars, ownerVars, railVars, ResultMatches
  <2>6. ReadyMeansServed'
    BY <1>4 DEF TakeDone, activityVars, maintenanceVars, ownerVars, railVars, ResultMatches
  <2> QED BY <2>1, <2>2, <2>3, <2>4, <2>5, <2>6
<1>5. CASE WaitTimesOut
  <2>1. CommandsTypeOK'
    BY <1>5 DEF WaitTimesOut, activityVars, channelVars, maintenanceVars, ownerVars, railVars
  <2>2. Places'
    BY <1>5 DEF WaitTimesOut, activityVars, channelVars, maintenanceVars, ownerVars, railVars
  <2>3. Handed'
    BY <1>5 DEF WaitTimesOut, activityVars, channelVars, maintenanceVars, ownerVars, railVars
  <2>4. TakenBack'
    BY <1>5 DEF WaitTimesOut, activityVars, channelVars, maintenanceVars, ownerVars, railVars
  <2>5. Noticed'
    BY <1>5 DEF WaitTimesOut, activityVars, channelVars, maintenanceVars, ownerVars, railVars
  <2>6. ReadyMeansServed'
    BY <1>5 DEF WaitTimesOut, activityVars, channelVars, maintenanceVars, ownerVars, railVars
  <2> QED BY <2>1, <2>2, <2>3, <2>4, <2>5, <2>6
<1>6. CASE CancelPending
  <2> DEFINE Others == <<generation, prepResult, done, asked, owner, claim, served, woken,
                         arming, requested, armedAt, activity, recent, idleCut, frame, heavy, rail>>
  <2>1. CASE prepState = "pending"
    <3>1. ~Serving /\ asker = "cancel" /\ asked \in 1..MaxRequests
      BY <1>6, <2>1 DEF CancelPending
    <3>2. prepState' = "idle" /\ asker' = "failed" /\ cancelled' = cancelled \cup {asked}
          /\ UNCHANGED Others
      BY <1>6, <2>1 DEF CancelPending, activityVars, maintenanceVars, ownerVars, railVars
    <3>3. cancelled' \subseteq 1..MaxRequests /\ ~Serving'
      BY <3>1, <3>2
    <3>4. CommandsTypeOK'
      BY <3>2, <3>3
    <3>5. \A g \in cancelled' : g <= asked'
      BY <3>1, <3>2
    <3>6. TakenBack'
      BY <3>1, <3>2, <3>5
    <3>7. Places' /\ Handed' /\ Noticed' /\ ReadyMeansServed'
      BY <3>1, <3>2
    <3> QED BY <3>4, <3>6, <3>7
  <2>2. CASE prepState # "pending"
    BY <1>6, <2>2 DEF CancelPending, activityVars, maintenanceVars, ownerVars, railVars
  <2> QED BY <2>1, <2>2
<1>7. CASE TakeLateDone
  <2>1. CommandsTypeOK'
    BY <1>7 DEF TakeLateDone, activityVars, maintenanceVars, ownerVars, railVars, ResultMatches
  <2>2. Places'
    BY <1>7 DEF TakeLateDone, activityVars, maintenanceVars, ownerVars, railVars, ResultMatches
  <2>3. Handed'
    BY <1>7 DEF TakeLateDone, activityVars, maintenanceVars, ownerVars, railVars, ResultMatches
  <2>4. TakenBack'
    BY <1>7 DEF TakeLateDone, activityVars, maintenanceVars, ownerVars, railVars, ResultMatches
  <2>5. Noticed'
    BY <1>7 DEF TakeLateDone, activityVars, maintenanceVars, ownerVars, railVars, ResultMatches
  <2>6. ReadyMeansServed'
    BY <1>7 DEF TakeLateDone, activityVars, maintenanceVars, ownerVars, railVars, ResultMatches
  <2> QED BY <2>1, <2>2, <2>3, <2>4, <2>5, <2>6
<1>8. CASE RollbackDisplay
  BY <1>8 DEF RollbackDisplay, activityVars, channelVars, maintenanceVars, ownerVars, railVars
<1> QED BY <1>1, <1>2, <1>3, <1>4, <1>5, <1>6, <1>7, <1>8 DEF PowerAsker

\* A new frame, the idle time and the begin of a transaction keep the invariant.
LEMMA OtherStep ==
    ASSUME ChannelInv, SubmitFrame \/ IdleTimePasses \/ DrainDone
    PROVE  ChannelInv'
<1> USE BoundsAssumption DEF ChannelInv, CommandsTypeOK, Serving, Places, AskerPlaces,
        OwnerPlaces, Handed, TakenBack, Noticed, ReadyMeansServed
<1>1. CASE SubmitFrame
  <2>1. activity \in Nat /\ MaxActivity \in Nat /\ activity + 1 < MaxActivity /\ asker = "none"
    BY <1>1 DEF SubmitFrame, NobodyAsks
  <2>2. activity' = activity + 1 /\ recent' = TRUE /\ idleCut' = FALSE /\ frame' = TRUE
       /\ woken' = TRUE
    BY <1>1 DEF SubmitFrame, NoteEpdActivity
  <2>3. activity' \in 0..MaxActivity + 1 /\ activity' <= MaxActivity
    BY <2>1, <2>2
  <2> QED BY <1>1, <2>1, <2>2, <2>3 DEF SubmitFrame, askerVars, channelVars, maintenanceVars,
       ownerVars
<1>2. CASE IdleTimePasses
  BY <1>2, ZenonT(60)
     DEF IdleTimePasses, askerVars, channelVars, maintenanceVars, ownerVars, railVars
<1>3. CASE DrainDone
  BY <1>3 DEF DrainDone, activityVars, maintenanceVars, ownerVars, railVars, Rendering
<1> QED BY <1>1, <1>2, <1>3

-------------------------------------------------------------------------------
\* The invariant holds initially and in every later state.
LEMMA ChannelInvariance == CommandsSpec => []ChannelInv
<1>1. CommandsInit => ChannelInv
  <2> SUFFICES ASSUME CommandsInit PROVE ChannelInv
    OBVIOUS
  <2>1. MaxRequests \in Nat /\ MaxActivity \in Nat
    BY BoundsAssumption
  <2>2. 0 \in 0..MaxRequests /\ {0, 1} \subseteq 0..MaxActivity + 1
    BY <2>1
  <2>3. CommandsTypeOK
    BY <2>2 DEF CommandsInit, CommandsTypeOK, Serving
  <2> QED BY <2>1, <2>3 DEF CommandsInit, ChannelInv, Places, AskerPlaces, OwnerPlaces, Handed,
               TakenBack, Noticed, ReadyMeansServed
<1>2. ChannelInv /\ [CommandsNext]_commandVars => ChannelInv'
  <2> SUFFICES ASSUME ChannelInv, [CommandsNext]_commandVars PROVE ChannelInv'
    OBVIOUS
  <2>1. CASE CommandsNext
    BY <2>1, UiStep, EpdStep, PowerStep, OtherStep DEF CommandsNext
  <2>2. CASE UNCHANGED commandVars
    BY <2>2 DEF commandVars, channelVars, askerVars, ownerVars, maintenanceVars, activityVars,
         railVars, ChannelInv, CommandsTypeOK, Serving, Places, Handed, TakenBack, Noticed,
         ReadyMeansServed
  <2> QED BY <2>1, <2>2
<1> QED BY <1>1, <1>2, PTL DEF CommandsSpec

\* The channel is typed, a request that timed out and was taken back is never
\* carried out, and the EPD task does not sleep over a posted one.
THEOREM ChannelAlwaysSound == CommandsSpec => []ChannelSound
<1>1. ChannelInv => ChannelSound
  BY DEF ChannelInv, TakenBack, Noticed, ChannelSound, CancelledNeverServed, RequestSeen
<1> QED BY <1>1, ChannelInvariance, PTL

\* PrepareDisplayForSleep answers "ready" only for a request of its own that the
\* EPD task has cut the rail for, however late an earlier answer came.
THEOREM ReadyIsServed == CommandsSpec => []ReadyMeansServed
<1>1. ChannelInv => ReadyMeansServed
  BY DEF ChannelInv
<1> QED BY <1>1, ChannelInvariance, PTL

-------------------------------------------------------------------------------
(* The driver *)


Jobs == [frame : Frames \cup {NoFrame}, wave : {"full", "window", "frame"},
         heavy : BOOLEAN, by : {"frame", "cleanup"}]

Typed ==
    /\ op \in {"idle", "sending", "recover"}
    /\ op = "idle" => job = NoJob
    /\ op # "idle" => job \in Jobs
    /\ buffer \in Frames \cup {NoFrame}
    /\ previous \in Frames \cup {NoFrame}
    /\ rtcFrame \in Frames \cup {NoFrame}
    /\ panel \in Frames \cup {NoFrame, Garbled}
    /\ partials \in 0..PartialLimit
    /\ heavies \in 0..HeavyLimit
    /\ synced \in BOOLEAN /\ fullFrame \in BOOLEAN /\ trusted \in BOOLEAN
    /\ attempted \in BOOLEAN /\ ready \in BOOLEAN
    /\ hot \in [rail : BOOLEAN, power : BOOLEAN, ok : BOOLEAN]
    /\ bias \in Nat
    /\ unrepaired \in {"none", "frame", "cleanup"}

\* A controller is written to, or taken for hot, only after its initialisation.
Powered ==
    /\ op = "sending" => ready /\ hot.rail
    /\ HotReady => ready

\* A partial under way relies on a known picture, and on the counters below
\* their limits.
Sound ==
    /\ op = "recover" => ~synced /\ unrepaired # "none"
    /\ op = "sending" /\ job.wave # "full" =>
          /\ synced
          /\ partials < PartialLimit /\ heavies < HeavyLimit
          /\ job.wave = "window" => ~fullFrame
    /\ synced /\ unrepaired = "none" => previous = panel

\* The frame in RTC memory is the one on the panel.
Remembered ==
    op = "idle" /\ unrepaired = "none" /\ (attempted \/ trusted \/ synced) => rtcFrame = panel

\* The driver has counted every partial waveform and remembers the last one.
Tallied ==
    /\ synced /\ ~trusted /\ unrepaired = "none" => bias <= partials
    /\ unrepaired = "none" /\ wave = "frame" => fullFrame

PanelInv == Typed /\ Powered /\ Sound /\ Remembered /\ Tallied
--------------------------------------------------------------------------------
\* The driver's knowledge holds in the first boot.
LEMMA InitEstablishes ==
    ASSUME PanelInit
    PROVE  PanelInv
<1>1. 0 \in 0..PartialLimit /\ 0 \in 0..HeavyLimit
  BY LimitsAssumption
<1>2. Typed
  BY <1>1 DEF PanelInit, Typed, Cold
<1>3. Powered /\ Sound /\ Remembered /\ Tallied
  BY DEF PanelInit, Powered, Sound, Remembered, Tallied, HotReady, Cold
<1> QED BY <1>2, <1>3 DEF PanelInv

\* A transfer that starts is full unless the driver knows the picture and the
\* counters allow a partial one.
LEMMA StrategyIsAllowed ==
    ASSUME NEW image, NEW force \in BOOLEAN, NEW local \in BOOLEAN
    PROVE  /\ Strategy(image, force, local) \in {"full", "window", "frame"}
           /\ Strategy(image, force, local) # "full" => synced /\ ~Overused
           /\ Strategy(image, force, local) = "window" => ~fullFrame
BY DEF Strategy

--------------------------------------------------------------------------------
(* The operations *)

LEMMA RefreshFrameKeeps ==
    ASSUME PanelInv, RefreshFrame
    PROVE  PanelInv'
<1>1. PICK image \in Frames, force \in BOOLEAN, local \in BOOLEAN, large \in BOOLEAN :
           op = "idle" /\ Refresh(image, force, local, large)
  BY DEF RefreshFrame
<1>2. /\ buffer' = image /\ attempted' = TRUE
      /\ UNCHANGED <<partials, heavies, fullFrame, rtcFrame, trusted, panel, bias, wave,
                     unrepaired, failures, boots>>
  BY <1>1 DEF Refresh, historyVars
<1>3. CASE ~force /\ CrcMatches(image)
  <2>1. synced' = TRUE /\ previous' = image /\ UNCHANGED <<op, job, hot, ready>>
    BY <1>1, <1>3 DEF Refresh
  <2>2. trusted /\ rtcFrame = image
    BY <1>3 DEF CrcMatches
  <2>3. Typed'
    BY <1>2, <2>1 DEF PanelInv, Typed
  <2>4. Powered' /\ Sound' /\ Remembered' /\ Tallied'
    BY <1>1, <1>2, <2>1, <2>2 DEF PanelInv, Typed, Powered, Sound, Remembered, Tallied, HotReady
  <2> QED BY <2>3, <2>4 DEF PanelInv
<1>4. CASE ~(~force /\ CrcMatches(image)) /\ synced /\ previous = image
  <2>1. UNCHANGED <<op, job, synced, previous, hot, ready>>
    BY <1>1, <1>4 DEF Refresh
  <2>2. Typed'
    BY <1>2, <2>1 DEF PanelInv, Typed
  <2>3. Powered' /\ Sound' /\ Remembered' /\ Tallied'
    BY <1>1, <1>2, <1>4, <2>1 DEF PanelInv, Powered, Sound, Remembered, Tallied, HotReady
  <2> QED BY <2>2, <2>3 DEF PanelInv
<1>5. CASE ~(~force /\ CrcMatches(image)) /\ ~(synced /\ previous = image)
  <2> DEFINE kind == Strategy(image, force, local)
  <2>1. /\ op' = "sending"
        /\ job' = [frame |-> image, wave |-> kind, heavy |-> large, by |-> "frame"]
        /\ ready' = (kind # "full" /\ HotReady => ready)
        /\ hot' = IF kind # "full" /\ HotReady THEN hot
                  ELSE [hot EXCEPT !.rail = TRUE, !.power = FALSE]
        /\ UNCHANGED <<synced, previous>>
    BY <1>1, <1>5 DEF Refresh
  <2>2. /\ kind \in {"full", "window", "frame"}
        /\ kind # "full" => synced /\ ~Overused
        /\ kind = "window" => ~fullFrame
    BY StrategyIsAllowed
  <2> HIDE DEF kind
  <2>3. job' \in Jobs /\ job'.wave = kind
    BY <2>1, <2>2 DEF Jobs
  <2>4. ready' = TRUE
    BY <2>1 DEF PanelInv, Powered, Typed
  <2>5. hot' \in [rail : BOOLEAN, power : BOOLEAN, ok : BOOLEAN] /\ hot'.rail = TRUE
    BY <2>1 DEF PanelInv, Typed, HotReady
  <2>6. Typed'
    BY <1>2, <2>1, <2>3, <2>4, <2>5 DEF PanelInv, Typed
  <2>7. ~Overused => partials < PartialLimit /\ heavies < HeavyLimit
    BY LimitsAssumption DEF Overused, PanelInv, Typed
  <2>8. Powered'
    BY <2>4, <2>5 DEF Powered
  <2>9. Sound'
    BY <1>2, <2>1, <2>2, <2>3, <2>7 DEF PanelInv, Sound
  <2>10. Remembered' /\ Tallied'
    BY <1>2, <2>1 DEF PanelInv, Remembered, Tallied
  <2> QED BY <2>6, <2>8, <2>9, <2>10 DEF PanelInv
<1> QED BY <1>3, <1>4, <1>5

LEMMA SucceedKeeps ==
    ASSUME PanelInv, Succeed
    PROVE  PanelInv'
<1>1. /\ op = "sending" /\ op' = "idle" /\ job' = NoJob
      /\ panel' = Drawn
      /\ bias' = IF job.wave = "full" THEN 0 ELSE bias + 1
      /\ wave' = job.wave
      /\ previous' = job.frame /\ synced' = TRUE /\ rtcFrame' = job.frame
      /\ partials' = IF job.wave = "full" THEN 0 ELSE partials + 1
      /\ heavies' = IF job.wave = "full" THEN 0 ELSE heavies + (IF job.heavy THEN 1 ELSE 0)
      /\ fullFrame' = (job.wave = "frame")
      /\ unrepaired' = IF job.wave = "full" THEN "none" ELSE unrepaired
      /\ ready' = (ready /\ job.wave # "full")
      /\ hot' = IF job.wave = "full" THEN Cold ELSE [rail |-> TRUE, power |-> TRUE, ok |-> TRUE]
      /\ UNCHANGED <<buffer, trusted, attempted>>
  BY DEF Succeed, Waveform, Commit
<1>2. job \in Jobs /\ ready = TRUE
  BY <1>1 DEF PanelInv, Typed, Powered
<1>3. /\ job.frame \in Frames \cup {NoFrame} /\ job.heavy \in BOOLEAN
      /\ job.wave \in {"full", "window", "frame"}
  BY <1>2 DEF Jobs
<1>4. panel' \in Frames \cup {NoFrame, Garbled}
  BY <1>1, <1>3 DEF Drawn
<1>5. unrepaired' = "none" => panel' = job.frame
  BY <1>1, <1>3 DEF PanelInv, Typed, Sound, Drawn
<1>6. hot' \in [rail : BOOLEAN, power : BOOLEAN, ok : BOOLEAN]
  BY <1>1 DEF Cold
<1>7. HotReady' => ready'
  BY <1>1, <1>2 DEF HotReady, Cold
<1>8. partials' \in 0..PartialLimit /\ heavies' \in 0..HeavyLimit
  BY <1>1, <1>3, LimitsAssumption DEF PanelInv, Typed, Sound
<1>9. Typed'
  <2>1. bias' \in Nat /\ unrepaired' \in {"none", "frame", "cleanup"} /\ ready' \in BOOLEAN
    BY <1>1, <1>2 DEF PanelInv, Typed
  <2> QED BY <1>1, <1>3, <1>4, <1>6, <1>8, <2>1 DEF PanelInv, Typed
<1>10. Powered' /\ Sound' /\ Remembered'
  BY <1>1, <1>5, <1>7 DEF Powered, Sound, Remembered
<1>11. ASSUME synced', ~trusted', unrepaired' = "none"
       PROVE  bias' <= partials'
  BY <1>1, <1>3, <1>11 DEF PanelInv, Typed, Sound, Tallied
<1>12. Tallied'
  BY <1>1, <1>3, <1>11 DEF Tallied
<1> QED BY <1>9, <1>10, <1>12 DEF PanelInv

LEMMA FailKeeps ==
    ASSUME PanelInv, Fail
    PROVE  PanelInv'
<1>1. /\ op = "sending" /\ hot' = Cold /\ ready' = FALSE
      /\ synced' = FALSE /\ partials' = 0 /\ heavies' = 0 /\ fullFrame' = FALSE
      /\ unrepaired' = IF unrepaired = "frame" THEN unrepaired ELSE job.by
      /\ op' = IF job.wave = "full" THEN "idle" ELSE "recover"
      /\ job' = IF job.wave = "full" THEN NoJob ELSE job
      /\ UNCHANGED <<buffer, previous, rtcFrame, trusted, attempted>>
  BY DEF Fail, DropEpdHotState, rtcVars
<1>2. job \in Jobs /\ job.by \in {"frame", "cleanup"}
  BY <1>1 DEF PanelInv, Typed, Jobs
<1>3. panel' \in Frames \cup {NoFrame, Garbled} /\ bias' \in Nat
  BY <1>2 DEF Fail, Waveform, Drawn, PanelInv, Typed, Jobs
<1>4. unrepaired' \in {"frame", "cleanup"}
  BY <1>1, <1>2
<1>5. 0 \in 0..PartialLimit /\ 0 \in 0..HeavyLimit
  BY LimitsAssumption
<1>6. Typed'
  BY <1>1, <1>2, <1>3, <1>4, <1>5 DEF PanelInv, Typed, Cold
<1>7. Powered' /\ Sound' /\ Remembered' /\ Tallied'
  BY <1>1, <1>4 DEF Powered, Sound, Remembered, Tallied, HotReady, Cold
<1> QED BY <1>6, <1>7 DEF PanelInv

LEMMA RecoverKeeps ==
    ASSUME PanelInv, Recover
    PROVE  PanelInv'
<1>1. /\ op = "recover" /\ op' = "sending" /\ job' = [job EXCEPT !.wave = "full"]
      /\ ready' = TRUE /\ hot' = [hot EXCEPT !.rail = TRUE]
      /\ UNCHANGED <<buffer, previous, synced, partials, heavies, fullFrame, rtcFrame, trusted,
                     attempted, panel, bias, wave, unrepaired>>
  BY DEF Recover, rtcVars, historyVars
<1>2. job' \in Jobs /\ job'.wave = "full"
  BY <1>1 DEF PanelInv, Typed, Jobs
<1>3. hot' \in [rail : BOOLEAN, power : BOOLEAN, ok : BOOLEAN] /\ hot'.rail
  BY <1>1 DEF PanelInv, Typed
<1>4. Typed'
  BY <1>1, <1>2, <1>3 DEF PanelInv, Typed
<1>5. Powered' /\ Sound' /\ Remembered' /\ Tallied'
  BY <1>1, <1>2, <1>3 DEF PanelInv, Powered, Sound, Remembered, Tallied, HotReady
<1> QED BY <1>4, <1>5 DEF PanelInv

LEMMA CleanKeeps ==
    ASSUME PanelInv, Clean
    PROVE  PanelInv'
<1>1. /\ op = "idle" /\ synced' = FALSE /\ op' = "sending"
      /\ job' = [frame |-> buffer, wave |-> "full", heavy |-> FALSE, by |-> "cleanup"]
      /\ ready' = TRUE /\ hot' = [hot EXCEPT !.rail = TRUE, !.power = FALSE]
      /\ UNCHANGED <<buffer, previous, partials, heavies, fullFrame, rtcFrame, trusted,
                     attempted, panel, bias, wave, unrepaired>>
  BY DEF Clean, rtcVars, historyVars
<1>2. job' \in Jobs /\ job'.wave = "full"
  BY <1>1 DEF PanelInv, Typed, Jobs
<1>3. hot' \in [rail : BOOLEAN, power : BOOLEAN, ok : BOOLEAN] /\ hot'.rail
  BY <1>1 DEF PanelInv, Typed
<1>4. Typed'
  BY <1>1, <1>2, <1>3 DEF PanelInv, Typed
<1>5. Powered' /\ Sound' /\ Remembered' /\ Tallied'
  BY <1>1, <1>2, <1>3 DEF PanelInv, Powered, Sound, Remembered, Tallied, HotReady
<1> QED BY <1>4, <1>5 DEF PanelInv

LEMMA PowerOffKeeps ==
    ASSUME PanelInv, PowerOffEpd
    PROVE  PanelInv'
<1>1. Typed'
  BY DEF PowerOffEpd, rtcVars, historyVars, PanelInv, Typed, Cold
<1>2. Powered' /\ Sound' /\ Remembered' /\ Tallied'
  BY DEF PowerOffEpd, rtcVars, historyVars, PanelInv, Powered, Sound, Remembered, Tallied, HotReady,
     Cold
<1> QED BY <1>1, <1>2 DEF PanelInv

\* RTC memory survives a boot, RAM does not; only a committed deep sleep makes it
\* trusted, and that one found the frame on the panel.
LEMMA BootKeeps ==
    ASSUME PanelInv, PanelSleep \/ Reset
    PROVE  PanelInv'
<1>1. PICK cacheTrusted \in BOOLEAN :
          /\ Boot(cacheTrusted)
          /\ cacheTrusted => op = "idle" /\ attempted /\ panel' = panel
  BY DEF PanelSleep, Reset
<1>2. /\ op' = "idle" /\ job' = NoJob
      /\ buffer' = NoFrame /\ previous' = NoFrame /\ synced' = FALSE
      /\ partials' = 0 /\ heavies' = 0 /\ fullFrame' = FALSE /\ hot' = Cold
      /\ ready' = FALSE /\ trusted' = cacheTrusted /\ attempted' = FALSE /\ wave' = "none"
      /\ UNCHANGED <<rtcFrame, bias, unrepaired>>
  BY <1>1 DEF Boot
<1>3. panel' \in Frames \cup {NoFrame, Garbled}
  BY DEF PanelSleep, Reset, Drawn, PanelInv, Typed, Jobs
<1>4. 0 \in 0..PartialLimit /\ 0 \in 0..HeavyLimit
  BY LimitsAssumption
<1>5. Typed'
  BY <1>2, <1>3, <1>4 DEF PanelInv, Typed, Cold
<1>6. Powered' /\ Sound' /\ Tallied'
  BY <1>2 DEF Powered, Sound, Tallied, HotReady, Cold
<1>7. Remembered'
  BY <1>1, <1>2 DEF PanelInv, Remembered
<1> QED BY <1>5, <1>6, <1>7 DEF PanelInv

--------------------------------------------------------------------------------
\* The invariant of the driver is inductive.
LEMMA Inductive ==
    ASSUME PanelInv, [PanelNext]_epdVars
    PROVE  PanelInv'
<1>1. CASE UNCHANGED epdVars
  <2>1. Typed'
    BY <1>1 DEF epdVars, driverVars, rtcVars, panelVars, historyVars, PanelInv, Typed
  <2>2. Powered' /\ Sound' /\ Remembered' /\ Tallied'
    BY <1>1 DEF epdVars, driverVars, rtcVars, panelVars, historyVars, PanelInv, Powered, Sound,
       Remembered, Tallied, HotReady
  <2> QED BY <2>1, <2>2 DEF PanelInv
<1> QED BY <1>1, RefreshFrameKeeps, SucceedKeeps, FailKeeps, RecoverKeeps, CleanKeeps,
           PowerOffKeeps, BootKeeps DEF PanelNext

\* What is proved of every reachable state.
LEMMA PanelInvariance == PanelSpec => []PanelInv
<1>1. PanelInit => PanelInv
  BY InitEstablishes
<1>2. PanelInv /\ [PanelNext]_epdVars => PanelInv'
  BY Inductive
<1> QED BY <1>1, <1>2, PTL DEF PanelSpec

\* The driver's picture, its power state and its bias count are those of the panel,
\* over failures, power cuts, deep sleeps and resets in the middle of a waveform.
THEOREM PanelIsKnown == PanelSpec => []PanelKnown
<1>1. PanelInv => PanelKnown
  <2> SUFFICES ASSUME PanelInv PROVE PanelKnown
    OBVIOUS
  <2>1. op = "idle" <=> job = NoJob
    BY DEF PanelInv, Typed, Jobs, NoJob
  <2>2. PanelTypeOK
    BY <2>1 DEF PanelInv, Typed, PanelTypeOK
  <2>3. BiasLimited
    BY LimitsAssumption DEF PanelInv, Typed, Tallied, BiasLimited
  <2> QED BY <2>2, <2>3 DEF PanelInv, Sound, Powered, PanelKnown, BeliefIsPicture, WriteToReadyPanel
<1> QED BY <1>1, PanelInvariance, PTL

\* A windowed partial never follows a full-frame one in a boot: the skips, cleanups
\* and power cuts in between do not lose what the driver escalates by.
THEOREM WindowIsEscalated == PanelSpec => NoWindowAfterFullFrame
<1>1. ASSUME PanelInv, [PanelNext]_epdVars
      PROVE  ~WindowAfterFullFrame
  <2>1. SUFFICES ASSUME bias' > bias
                 PROVE  ~(wave' = "window" /\ unrepaired = "none" /\ wave = "frame")
    BY DEF WindowAfterFullFrame
  <2>2. bias \in Nat
    BY <1>1 DEF PanelInv, Typed
  <2>3. bias' # bias /\ bias' # 0
    BY <2>1, <2>2
  <2>4. Succeed
    BY <1>1, <2>3 DEF PanelNext, epdVars, panelVars, RefreshFrame, Refresh, Fail, Waveform,
         Recover, Clean, PowerOffEpd, PanelSleep, Reset, Boot
  <2>5. op = "sending" /\ wave' = job.wave
    BY <2>4 DEF Succeed, Waveform
  <2> QED BY <1>1, <2>5 DEF PanelInv, Sound, Tallied
<1>2. PanelInv /\ [PanelNext]_epdVars => [~WindowAfterFullFrame]_epdVars
  BY <1>1
<1> QED BY <1>2, PanelInvariance, PTL DEF PanelSpec, NoWindowAfterFullFrame
================================================================================
