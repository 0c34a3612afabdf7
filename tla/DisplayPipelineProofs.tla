------------------------- MODULE DisplayPipelineProofs -------------------------
(***************************************************************************)
(* Proofs about the way of a frame to the panel, for any frames, any depth *)
(* of the result queue and any number of revisions, failures and sleeps.   *)
(*                                                                         *)
(* An accepted revision moves from place to place; the places never share  *)
(* one, and the ledger is all of them (Places).  The count of the ledger   *)
(* is what leaves room for every result.  The UI's records follow it one   *)
(* step behind (Records), the lease covers it (Covered).                   *)
(***************************************************************************)
EXTENDS DisplayPipeline, FiniteSetTheorems, TLAPS

Records == [rev : 1..MaxRevision, frame : Frames, full : BOOLEAN, sched : Schedules]
Results == [rev : 1..MaxRevision, status : {"presented", "failed", "superseded"}]

InRender == epd \in {"render", "publish"}

Typed ==
    /\ ui \in {"loop", "submitted", "acking"}
    /\ IF ui = "loop" THEN handled = NoRecord ELSE handled \in Records
    /\ desired \in Frames
    /\ need \in Schedules \cup {"none"}
    /\ force \in BOOLEAN
    /\ revision \in 1..MaxRevision
    /\ records \in SUBSET Records
    /\ presented \in Frames \cup {NoFrame}
    /\ slots \in [{0, 1} -> Intents \cup {NoIntent}]
    /\ consumer \in {0, 1} /\ taken \in {0, 1}
    /\ pending \in BOOLEAN /\ busy \in BOOLEAN /\ lease \in BOOLEAN
    /\ secondary \in Intents \cup {NoIntent}
    /\ results \in Seq(Results)
    /\ epd \in {"outer", "look", "idle", "wait", "timed", "render", "publish", "finish"}
    /\ held \in Intents \cup {NoIntent}
    /\ outcome \in {"ok", "failed"}
    /\ notified \in BOOLEAN /\ unowned \in BOOLEAN
    /\ panel \in Frames \cup {NoFrame, Garbled}
    /\ failures \in 0..MaxFailures
    /\ power \in {"awake", "preparing", "prepared"}

\* Which of the EPD task's variables hold something.
Engaged ==
    /\ pending => slots[consumer] \in Intents
    /\ InRender => held \in Intents
    /\ epd \in {"render", "publish", "finish"} => busy /\ ~pending
    /\ busy /\ epd \notin {"render", "publish", "finish"} => pending
    /\ secondary # NoIntent => busy
    /\ epd = "render" => slots[taken] = held

\* What a queue of results holds.
RevsOf(s) == {s[i].rev : i \in 1..Len(s)}
FailedOf(s) == {s[i].rev : i \in {k \in 1..Len(s) : s[k].status = "failed"}}
AnyFailed(s) == \E i \in 1..Len(s) : s[i].status = "failed"
Apart(s) == \A i, j \in 1..Len(s) : i # j => s[i].rev # s[j].rev

PendingRevs == IF pending THEN {slots[consumer].rev} ELSE {}
RenderRevs == IF InRender THEN {held.rev} ELSE {}
SecondaryRevs == RevOf(secondary)
ResultRevs == RevsOf(results)
AckRevs == IF ui = "acking" THEN {handled.rev} ELSE {}

\* Sets that share no element with each other.
Disjoint(P, R, S, Q, A) ==
    /\ P \cap R = {} /\ P \cap S = {} /\ P \cap Q = {} /\ P \cap A = {}
    /\ R \cap S = {} /\ R \cap Q = {} /\ R \cap A = {}
    /\ S \cap Q = {} /\ S \cap A = {}
    /\ Q \cap A = {}

\* An accepted revision is in exactly one place.
Places ==
    /\ outstanding = PendingRevs \cup RenderRevs \cup SecondaryRevs \cup ResultRevs \cup AckRevs
    /\ Disjoint(PendingRevs, RenderRevs, SecondaryRevs, ResultRevs, AckRevs)
    /\ Apart(results)

Count(b) == IF b THEN 1 ELSE 0

\* The ledger counts the places, and has room.
Counted ==
    /\ IsFiniteSet(outstanding) /\ Cardinality(outstanding) <= Depth
    /\ Cardinality(outstanding) = Count(pending) + Count(InRender) + Count(secondary # NoIntent)
                                  + Len(results) + Count(ui = "acking")

\* The records are the ledger, without the one the UI is busy with.
Recorded ==
    /\ ui # "loop" => handled.rev \in outstanding
    /\ {r.rev : r \in records} = IF ui = "loop" THEN outstanding ELSE outstanding \ {handled.rev}
    /\ \A r, q \in records : r.rev = q.rev => r = q
    /\ IsFiniteSet(records)
    /\ Cardinality(records) + Count(ui # "loop") = Cardinality(outstanding)

\* The lease covers the pipeline, and the gate closes only over an empty one.
Covered ==
    /\ ~lease => outstanding = {} /\ ~busy
    /\ power # "awake" => ~lease

\* The failures that the UI has yet to make a revision of.
Unseen == epd = "publish" /\ outcome = "failed"
FailedRevs == FailedOf(results)

Budget ==
    /\ Cardinality(FailedRevs) + Count(Unseen) <= failures
    /\ revision + MaxFailures + Cardinality(FailedRevs) + Count(Unseen) <= MaxRevision + failures

\* Somebody other than the UI's flag owes the full refresh; while a submission is
\* under way the flag is about to fall.
OwedOnTheWay ==
    \/ Unseen
    \/ AnyFailed(results)
    \/ pending /\ FullIn(slots[consumer])
    \/ epd = "render" /\ FullIn(held)
    \/ FullIn(secondary)

Owed == panel = Garbled /\ ~unowned => OwedOnTheWay \/ (force /\ ui # "submitted")

IInv == Typed /\ Engaged /\ Places /\ Counted /\ Recorded /\ Covered /\ Budget /\ Owed
--------------------------------------------------------------------------------
(* Queues of results *)

LEMMA Appended ==
    ASSUME NEW s \in Seq(Results), NEW r \in Results, NEW t, t = Append(s, r)
    PROVE  /\ t \in Seq(Results) /\ Len(t) = Len(s) + 1
           /\ RevsOf(t) = RevsOf(s) \cup {r.rev}
           /\ Apart(s) /\ r.rev \notin RevsOf(s) => Apart(t)
           /\ FailedOf(t) = FailedOf(s) \cup (IF r.status = "failed" THEN {r.rev} ELSE {})
           /\ AnyFailed(t) <=> AnyFailed(s) \/ r.status = "failed"
<1>1. t \in Seq(Results) /\ Len(t) = Len(s) + 1 /\ Len(s) \in Nat
  OBVIOUS
<1>2. /\ \A i \in 1..Len(s) : t[i] = s[i]
      /\ t[Len(s) + 1] = r
  OBVIOUS
<1>3. 1..Len(t) = 1..Len(s) \cup {Len(s) + 1}
  BY <1>1
<1>4. RevsOf(t) = RevsOf(s) \cup {r.rev}
  BY <1>2, <1>3 DEF RevsOf
<1>5. ASSUME Apart(s), r.rev \notin RevsOf(s)
      PROVE  Apart(t)
  BY <1>2, <1>3, <1>5 DEF RevsOf, Apart
<1>6. FailedOf(t) = FailedOf(s) \cup (IF r.status = "failed" THEN {r.rev} ELSE {})
  BY <1>2, <1>3 DEF FailedOf
<1>7. AnyFailed(t) <=> AnyFailed(s) \/ r.status = "failed"
  BY <1>2, <1>3 DEF AnyFailed
<1> QED BY <1>1, <1>4, <1>5, <1>6, <1>7

LEMMA Drained ==
    ASSUME NEW s \in Seq(Results), s # <<>>, Apart(s), NEW t, t = Tail(s)
    PROVE  /\ t \in Seq(Results) /\ Len(t) = Len(s) - 1 /\ Head(s) \in Results
           /\ Head(s).rev \in RevsOf(s)
           /\ RevsOf(t) = RevsOf(s) \ {Head(s).rev}
           /\ Apart(t)
           /\ FailedOf(t) = FailedOf(s) \ {Head(s).rev}
           /\ Head(s).status = "failed" => Head(s).rev \in FailedOf(s)
           /\ AnyFailed(s) => AnyFailed(t) \/ Head(s).status = "failed"
<1>1. /\ t \in Seq(Results) /\ Len(t) = Len(s) - 1 /\ Len(s) \in Nat /\ Len(s) >= 1
      /\ Head(s) = s[1] /\ Head(s) \in Results
  OBVIOUS
<1>2. \A i \in 1..Len(t) : i + 1 \in 1..Len(s) /\ i + 1 # 1 /\ t[i] = s[i + 1]
  BY <1>1
<1>3. \A i \in 1..Len(s) : i # 1 => i - 1 \in 1..Len(t) /\ t[i - 1] = s[i]
  <2> SUFFICES ASSUME NEW i \in 1..Len(s), i # 1
               PROVE  i - 1 \in 1..Len(t) /\ t[i - 1] = s[i]
    OBVIOUS
  <2>1. i - 1 \in 1..Len(t)
    BY <1>1
  <2> QED BY <1>1, <1>2, <2>1
<1>4. 1 \in 1..Len(s)
  BY <1>1
<1>5. Apart(t)
  BY <1>1, <1>2 DEF Apart
<1>6. \A i \in 1..Len(s) : i # 1 => s[i].rev # s[1].rev
  BY <1>4 DEF Apart
<1>7. RevsOf(t) = RevsOf(s) \ {Head(s).rev}
  <2>1. ASSUME NEW x \in RevsOf(t)
        PROVE  x \in RevsOf(s) \ {s[1].rev}
    <3>1. PICK i \in 1..Len(t) : x = t[i].rev
      BY DEF RevsOf
    <3> QED BY <1>2, <1>6, <3>1 DEF RevsOf
  <2>2. ASSUME NEW x \in RevsOf(s) \ {s[1].rev}
        PROVE  x \in RevsOf(t)
    <3>1. PICK i \in 1..Len(s) : x = s[i].rev
      BY DEF RevsOf
    <3> QED BY <1>3, <2>2, <3>1 DEF RevsOf
  <2> QED BY <1>1, <2>1, <2>2
<1>8. FailedOf(t) = FailedOf(s) \ {Head(s).rev}
  <2>1. ASSUME NEW x \in FailedOf(t)
        PROVE  x \in FailedOf(s) \ {s[1].rev}
    <3>1. PICK i \in 1..Len(t) : x = t[i].rev /\ t[i].status = "failed"
      BY DEF FailedOf
    <3> QED BY <1>2, <1>6, <3>1 DEF FailedOf
  <2>2. ASSUME NEW x \in FailedOf(s) \ {s[1].rev}
        PROVE  x \in FailedOf(t)
    <3>1. PICK i \in 1..Len(s) : x = s[i].rev /\ s[i].status = "failed"
      BY DEF FailedOf
    <3> QED BY <1>3, <2>2, <3>1 DEF FailedOf
  <2> QED BY <1>1, <2>1, <2>2
<1>9. Head(s).rev \in RevsOf(s) /\ (Head(s).status = "failed" => Head(s).rev \in FailedOf(s))
  BY <1>1, <1>4 DEF RevsOf, FailedOf
<1>10. AnyFailed(s) => AnyFailed(t) \/ Head(s).status = "failed"
  BY <1>1, <1>3 DEF AnyFailed
<1> QED BY <1>1, <1>5, <1>7, <1>8, <1>9, <1>10

\* The counts are of finite sets.
LEMMA Counts ==
    ASSUME IInv
    PROVE  /\ IsFiniteSet(outstanding) /\ Cardinality(outstanding) \in Nat
           /\ IsFiniteSet(records) /\ Cardinality(records) \in Nat
           /\ IsFiniteSet(FailedRevs) /\ Cardinality(FailedRevs) \in Nat
           /\ Len(results) \in Nat
<1>1. IsFiniteSet(outstanding) /\ IsFiniteSet(records)
  BY DEF IInv, Counted, Recorded
<1>2. FailedRevs \in SUBSET outstanding
  BY DEF IInv, Places, FailedRevs, FailedOf, ResultRevs, RevsOf
<1>3. IsFiniteSet(FailedRevs)
  BY <1>1, <1>2, FS_Subset
<1>4. Len(results) \in Nat
  BY DEF IInv, Typed
<1> QED BY <1>1, <1>3, <1>4, FS_CardinalityType

\* A revision is somewhere in the pipeline only under the lease.
LEMMA LeaseIsOut ==
    ASSUME IInv, outstanding # {} \/ busy
    PROVE  lease /\ power = "awake"
BY DEF IInv, Covered, Typed

--------------------------------------------------------------------------------
(* What the parts of the invariant depend on *)

LEMMA EngagedKept ==
    ASSUME Engaged, UNCHANGED <<pending, slots, consumer, epd, held, busy, secondary, taken>>
    PROVE  Engaged'
BY DEF Engaged, InRender

LEMMA LedgerKept ==
    ASSUME Places, Counted,
           UNCHANGED <<pending, slots, consumer, held, secondary, results, outstanding>>,
           InRender' = InRender,
           (ui' = "acking") = (ui = "acking"), ui = "acking" => handled' = handled
    PROVE  Places' /\ Counted'
<1>1. PendingRevs' = PendingRevs /\ RenderRevs' = RenderRevs /\ SecondaryRevs' = SecondaryRevs
      /\ ResultRevs' = ResultRevs /\ AckRevs' = AckRevs
  BY DEF PendingRevs, RenderRevs, SecondaryRevs, ResultRevs, AckRevs, RevOf
<1> QED BY <1>1 DEF Places, Counted, Disjoint, Apart, Count

LEMMA RecordedKept ==
    ASSUME Recorded, UNCHANGED <<ui, handled, outstanding, records>>
    PROVE  Recorded'
BY DEF Recorded, Count

LEMMA CoveredKept ==
    ASSUME Covered, UNCHANGED <<lease, outstanding, busy, power>>
    PROVE  Covered'
BY DEF Covered

LEMMA BudgetKept ==
    ASSUME Budget, UNCHANGED <<results, failures, revision>>, Unseen' = Unseen
    PROVE  Budget'
BY DEF Budget, FailedRevs, FailedOf, Count

LEMMA OwedKept ==
    ASSUME Owed, UNCHANGED <<panel, unowned, epd, outcome, results, pending, slots, consumer, held,
                             secondary>>,
           force /\ ui # "submitted" => force' /\ ui' # "submitted"
    PROVE  Owed'
BY DEF Owed, OwedOnTheWay, Unseen, AnyFailed, FullIn

--------------------------------------------------------------------------------
(* The UI task *)

LEMMA UiEventKeeps ==
    ASSUME IInv, UiEvent \/ TransferProgress
    PROVE  IInv'
<1>1. /\ ui = "loop" /\ revision + MaxFailures < MaxRevision
      /\ desired' \in Frames /\ need' \in Schedules \cup {"none"}
      /\ revision' = revision + 1
      /\ UNCHANGED <<ui, handled, force, records, presented, slots, consumer, pending, busy,
                     secondary, outstanding, lease, results, epd, taken, held, outcome, shown,
                     notified, panel, failures, unowned, power, sleeps, rtcShown>>
  BY DEF UiEvent, TransferProgress, intentVars, epdVars, panelVars, powerVars, StrongerSchedule,
         IInv, Typed
<1>2. Typed'
  BY <1>1, LimitsAssumption DEF IInv, Typed
<1>3. Budget'
  <2>1. Cardinality(FailedRevs) \in Nat /\ failures \in Nat /\ revision \in Nat
    BY Counts DEF IInv, Typed
  <2>2. Count(Unseen) \in {0, 1} /\ FailedRevs' = FailedRevs /\ Unseen' = Unseen
    BY <1>1 DEF Count, Unseen, FailedRevs, FailedOf
  <2>3. Count(Unseen)' = Count(Unseen)
    BY <2>2 DEF Count
  <2> QED BY <1>1, <2>1, <2>2, <2>3, LimitsAssumption DEF IInv, Budget
<1>4. Engaged' /\ Recorded' /\ Covered' /\ Owed'
  BY <1>1, EngagedKept, RecordedKept, CoveredKept, OwedKept DEF IInv
<1>5. Places' /\ Counted'
  BY <1>1, LedgerKept DEF IInv, InRender
<1> QED BY <1>2, <1>3, <1>4, <1>5 DEF IInv

LEMMA DrainResultKeeps ==
    ASSUME IInv, DrainResult
    PROVE  IInv'
<1> DEFINE result == Head(results)
           record == CHOOSE r \in records : r.rev = result.rev
<1>1. /\ ui = "loop" /\ results # <<>>
      /\ records' = records \ {record} /\ handled' = record
      /\ presented' \in {presented, record.frame}
      /\ IF result.status = "failed"
         THEN force' = TRUE /\ need' = StrongerSchedule(need, "change") /\ revision' = revision + 1
         ELSE UNCHANGED <<force, need, revision>>
      /\ results' = Tail(results) /\ ui' = "acking"
      /\ UNCHANGED <<desired, slots, consumer, pending, busy, secondary, outstanding, lease, epd,
                     taken, held, outcome, shown, notified, panel, failures, unowned, power,
                     sleeps>>
  BY DEF DrainResult, intentVars, epdVars, panelVars
<1>2. results \in Seq(Results) /\ Apart(results)
  BY DEF IInv, Typed, Places
<1>3. /\ results' \in Seq(Results) /\ Len(results') = Len(results) - 1 /\ result \in Results
      /\ result.rev \in RevsOf(results)
      /\ RevsOf(results') = RevsOf(results) \ {result.rev}
      /\ Apart(results')
      /\ FailedOf(results') = FailedOf(results) \ {result.rev}
      /\ result.status = "failed" => result.rev \in FailedOf(results)
      /\ AnyFailed(results) => AnyFailed(results') \/ result.status = "failed"
  BY <1>1, <1>2, Drained
<1>4. result.rev \in outstanding
  BY <1>3 DEF IInv, Places, ResultRevs
<1>5. record \in records /\ record.rev = result.rev
  <2>1. \E r \in records : r.rev = result.rev
    BY <1>1, <1>4 DEF IInv, Recorded
  <2> QED BY <2>1
<1> HIDE DEF result, record
<1>6. record \in Records /\ record.rev \in 1..MaxRevision /\ record.frame \in Frames
  BY <1>5 DEF IInv, Typed, Records
<1>7. Budget' /\ revision' \in 1..MaxRevision
  <2>1. /\ Cardinality(FailedOf(results)) \in Nat /\ IsFiniteSet(FailedOf(results))
        /\ failures \in 0..MaxFailures /\ revision \in 1..MaxRevision
    BY Counts DEF IInv, Typed, FailedRevs
  <2>2. Unseen' = Unseen /\ Count(Unseen) \in {0, 1}
    BY <1>1 DEF Unseen, Count
  <2>3. Count(Unseen)' = Count(Unseen)
    BY <2>2 DEF Count
  <2>4. /\ Cardinality(FailedOf(results)) + Count(Unseen) <= failures
        /\ revision + MaxFailures + Cardinality(FailedOf(results)) + Count(Unseen)
             <= MaxRevision + failures
    BY DEF IInv, Budget, FailedRevs
  <2>5. Cardinality(FailedOf(results')) =
           IF result.rev \in FailedOf(results) THEN Cardinality(FailedOf(results)) - 1
           ELSE Cardinality(FailedOf(results))
    BY <1>3, <2>1, FS_RemoveElement
  <2>6. IsFiniteSet(FailedOf(results')) /\ Cardinality(FailedOf(results')) \in Nat
    <3>1. IsFiniteSet(FailedOf(results) \ {result.rev})
      BY <2>1, FS_RemoveElement
    <3>2. IsFiniteSet(FailedOf(results'))
      BY <1>3, <3>1
    <3> QED BY <3>2, FS_CardinalityType
  <2>7. CASE result.status = "failed"
    <3>1. revision' = revision + 1 /\ result.rev \in FailedOf(results)
      BY <1>1, <1>3, <2>7
    <3>2. Cardinality(FailedOf(results')) = Cardinality(FailedOf(results)) - 1
      BY <2>5, <3>1
    <3>3. Cardinality(FailedOf(results')) + Count(Unseen) <= failures
      BY <2>1, <2>2, <2>4, <2>6, <3>2
    <3>4. revision + 1 + MaxFailures + Cardinality(FailedOf(results')) + Count(Unseen)
             <= MaxRevision + failures
      BY <2>1, <2>2, <2>4, <2>6, <3>2, LimitsAssumption
    <3>5. revision + 1 \in 1..MaxRevision
      BY <2>1, <2>2, <2>6, <3>4, LimitsAssumption
    <3> QED BY <1>1, <2>3, <3>1, <3>3, <3>4, <3>5 DEF Budget, FailedRevs
  <2>8. CASE result.status # "failed"
    <3>1. revision' = revision
      BY <1>1, <2>8
    <3>2. Cardinality(FailedOf(results')) <= Cardinality(FailedOf(results))
      BY <2>1, <2>5
    <3> QED BY <1>1, <2>1, <2>2, <2>3, <2>4, <2>6, <3>1, <3>2, LimitsAssumption
            DEF Budget, FailedRevs
  <2> QED BY <2>7, <2>8
<1>8. Typed'
  <2>1. need' \in Schedules \cup {"none"} /\ force' \in BOOLEAN
    BY <1>1 DEF IInv, Typed, StrongerSchedule, Schedules
  <2>2. presented' \in Frames \cup {NoFrame} /\ records' \in SUBSET Records
    BY <1>1, <1>6 DEF IInv, Typed
  <2> QED BY <1>1, <1>3, <1>6, <1>7, <2>1, <2>2 DEF IInv, Typed
<1>9. Places'
  <2>1. /\ PendingRevs' = PendingRevs /\ RenderRevs' = RenderRevs
        /\ SecondaryRevs' = SecondaryRevs
        /\ ResultRevs' = ResultRevs \ {result.rev} /\ AckRevs' = {result.rev} /\ AckRevs = {}
        /\ result.rev \in ResultRevs
    BY <1>1, <1>3, <1>5 DEF PendingRevs, RenderRevs, InRender, SecondaryRevs, RevOf, ResultRevs,
       AckRevs
  <2> QED BY <1>1, <1>3, <2>1 DEF IInv, Places, Disjoint
<1>10. Counted'
  BY <1>1, <1>3, Counts DEF IInv, Counted, Count, InRender
<1>11. Recorded'
  <2>1. /\ IsFiniteSet(records')
        /\ Cardinality(records') = Cardinality(records) - 1
    BY <1>1, <1>5, Counts, FS_RemoveElement
  <2>2. {r.rev : r \in records'} = outstanding \ {record.rev}
    BY <1>1, <1>5 DEF IInv, Recorded
  <2> QED BY <1>1, <1>4, <1>5, <2>1, <2>2, Counts DEF IInv, Recorded, Count
<1>12. Engaged' /\ Covered'
  BY <1>1, EngagedKept, CoveredKept DEF IInv
<1>13. Owed'
  BY <1>1, <1>3 DEF IInv, Owed, OwedOnTheWay, Unseen, FullIn
<1> QED BY <1>7, <1>8, <1>9, <1>10, <1>11, <1>12, <1>13 DEF IInv

LEMMA AcknowledgeKeeps ==
    ASSUME IInv, AcknowledgeDisplayResult
    PROVE  IInv'
<1>1. /\ ui = "acking" /\ ui' = "loop" /\ handled' = NoRecord
      /\ outstanding' = outstanding \ {handled.rev}
      /\ lease' = LeaseAfter(pending, busy, secondary, outstanding')
      /\ UNCHANGED <<desired, need, force, revision, records, presented, slots, consumer, pending,
                     busy, secondary, results, epd, taken, held, outcome, shown, notified, panel,
                     failures, unowned, power, sleeps, rtcShown>>
  BY DEF AcknowledgeDisplayResult, epdVars, panelVars, powerVars
<1>2. handled.rev \in outstanding /\ lease /\ power = "awake"
  BY <1>1, LeaseIsOut DEF IInv, Recorded
<1>3. lease' = (pending \/ busy \/ secondary # NoIntent \/ outstanding' # {})
  BY <1>1, <1>2 DEF LeaseAfter
<1>4. Typed'
  BY <1>1, <1>3 DEF IInv, Typed
<1>5. /\ IsFiniteSet(outstanding') /\ Cardinality(outstanding') = Cardinality(outstanding) - 1
  BY <1>1, <1>2, Counts, FS_RemoveElement
<1>6. Counted'
  BY <1>1, <1>5, Counts, LimitsAssumption DEF IInv, Counted, Count, InRender
<1>7. Places'
  <2>1. /\ PendingRevs' = PendingRevs /\ RenderRevs' = RenderRevs
        /\ SecondaryRevs' = SecondaryRevs /\ ResultRevs' = ResultRevs
        /\ AckRevs' = {} /\ AckRevs = {handled.rev}
    BY <1>1 DEF PendingRevs, RenderRevs, InRender, SecondaryRevs, RevOf, ResultRevs, AckRevs
  <2> QED BY <1>1, <2>1 DEF IInv, Places, Disjoint
<1>8. Recorded'
  BY <1>1, <1>5, Counts DEF IInv, Recorded, Count
<1>9. Covered'
  BY <1>1, <1>2, <1>3 DEF IInv, Covered
<1>10. Engaged' /\ Owed'
  BY <1>1, EngagedKept, OwedKept DEF IInv
<1>11. Budget'
  BY <1>1, BudgetKept DEF IInv, Unseen
<1> QED BY <1>4, <1>6, <1>7, <1>8, <1>9, <1>10, <1>11 DEF IInv

LEMMA FlagKeeps ==
    ASSUME IInv, SkipSubmission \/ DeferSubmission
    PROVE  IInv'
<1>1. /\ ui = "loop" /\ need' \in {need, "none"} /\ force' \in BOOLEAN
      /\ force => force'
      /\ UNCHANGED <<ui, handled, desired, revision, records, presented, slots, consumer, pending,
                     busy, secondary, outstanding, lease, results, epd, taken, held, outcome,
                     shown, notified, panel, failures, unowned, power, sleeps, rtcShown>>
  BY DEF SkipSubmission, DeferSubmission, ForceSubmission, intentVars, epdVars, panelVars,
     powerVars, IInv, Typed
<1>2. Typed'
  BY <1>1 DEF IInv, Typed
<1>3. Engaged' /\ Recorded' /\ Covered' /\ Owed'
  BY <1>1, EngagedKept, RecordedKept, CoveredKept, OwedKept DEF IInv
<1>4. Places' /\ Counted' /\ Budget'
  BY <1>1, LedgerKept, BudgetKept DEF IInv, InRender, Unseen
<1> QED BY <1>2, <1>3, <1>4 DEF IInv

\* What a submission does to the intents: it takes the place of the intent it
\* replaces, which leaves a result behind.
LEMMA SubmissionMoves ==
    ASSUME IInv, RequestEpdUiRefresh
    PROVE  /\ Replaced \in Intents \cup {NoIntent}
           /\ busy => /\ Replaced = secondary /\ secondary'.rev = revision
                      /\ secondary' \in Intents
                      /\ ForceSubmission \/ FullIn(Replaced) => FullIn(secondary')
                      /\ UNCHANGED <<slots, consumer, pending>>
           /\ ~busy => /\ Replaced = (IF pending THEN slots[consumer] ELSE NoIntent)
                       /\ slots' \in [{0, 1} -> Intents \cup {NoIntent}] /\ consumer' \in {0, 1}
                       /\ pending' = TRUE /\ slots'[consumer'] \in Intents
                       /\ slots'[consumer'].rev = revision
                       /\ ForceSubmission \/ FullIn(Replaced) => FullIn(slots'[consumer'])
                       /\ secondary = NoIntent /\ UNCHANGED secondary
           /\ handled' \in Records /\ handled'.rev = revision
           /\ Replaced # NoIntent => Superseded(Replaced.rev) \in Results
<1> DEFINE intent == [rev |-> revision, frame |-> desired, full |-> ForceSubmission]
           merged == IF Replaced = NoIntent THEN intent ELSE MergeDisplayPolicy(Replaced, intent)
<1>1. /\ IF busy
         THEN secondary' = merged /\ UNCHANGED <<slots, consumer, pending>>
         ELSE /\ slots' = [slots EXCEPT ![1 - consumer] = merged]
              /\ consumer' = 1 - consumer /\ pending' = TRUE
              /\ UNCHANGED secondary
      /\ handled' = [rev |-> revision, frame |-> desired, full |-> merged.full, sched |-> need]
      /\ need # "none"
  BY DEF RequestEpdUiRefresh
<1>2. Replaced \in Intents \cup {NoIntent}
  BY DEF IInv, Typed, Engaged, Replaced
<1>3. intent \in Intents /\ intent.rev = revision /\ intent.full = ForceSubmission
  BY DEF IInv, Typed, Intents, ForceSubmission
<1>4. /\ merged \in Intents /\ merged.rev = revision /\ merged.full \in BOOLEAN
      /\ ForceSubmission \/ FullIn(Replaced) => merged.full
  BY <1>2, <1>3 DEF MergeDisplayPolicy, Intents, FullIn
<1> HIDE DEF intent, merged
<1>5. merged # NoIntent
  BY <1>4 DEF Intents, NoIntent
<1>6. consumer \in {0, 1} /\ slots \in [{0, 1} -> Intents \cup {NoIntent}]
  BY DEF IInv, Typed
<1>7. busy => /\ Replaced = secondary /\ secondary'.rev = revision
              /\ secondary' \in Intents
              /\ ForceSubmission \/ FullIn(Replaced) => FullIn(secondary')
              /\ UNCHANGED <<slots, consumer, pending>>
  BY <1>1, <1>4, <1>5 DEF Replaced, FullIn
<1>8. ASSUME ~busy
      PROVE  /\ Replaced = (IF pending THEN slots[consumer] ELSE NoIntent)
             /\ slots' \in [{0, 1} -> Intents \cup {NoIntent}] /\ consumer' \in {0, 1}
             /\ pending' = TRUE /\ slots'[consumer'] = merged
             /\ secondary = NoIntent /\ UNCHANGED secondary
  <2>1. 1 - consumer \in {0, 1}
    BY <1>6
  <2>2. slots' = [slots EXCEPT ![1 - consumer] = merged] /\ consumer' = 1 - consumer
        /\ pending' = TRUE /\ UNCHANGED secondary
    BY <1>1, <1>8
  <2>3. slots'[1 - consumer] = merged
    BY <1>6, <2>1, <2>2
  <2>4. slots' \in [{0, 1} -> Intents \cup {NoIntent}]
    BY <1>4, <1>6, <2>2
  <2>5. secondary = NoIntent
    BY <1>8 DEF IInv, Engaged
  <2> QED BY <1>8, <2>1, <2>2, <2>3, <2>4, <2>5 DEF Replaced
<1>9. handled' \in Records /\ handled'.rev = revision
  BY <1>1, <1>4 DEF IInv, Typed, Records
<1>10. Replaced # NoIntent => Superseded(Replaced.rev) \in Results
  BY <1>2 DEF Superseded, Results, Intents
<1>11. ~busy => /\ slots'[consumer'] \in Intents /\ slots'[consumer'].rev = revision
                /\ ForceSubmission \/ FullIn(Replaced) => FullIn(slots'[consumer'])
  BY <1>4, <1>5, <1>8 DEF FullIn
<1> QED BY <1>2, <1>7, <1>8, <1>9, <1>10, <1>11

LEMMA SubmissionKeeps ==
    ASSUME IInv, RequestEpdUiRefresh
    PROVE  IInv'
<1>1. /\ ui = "loop" /\ ui' = "submitted"
      /\ revision \notin outstanding /\ Cardinality(outstanding) < Depth
      /\ lease \/ power = "awake"
      /\ results' = IF Replaced = NoIntent THEN results
                    ELSE Append(results, Superseded(Replaced.rev))
      /\ outstanding' = outstanding \cup {revision} /\ lease' = TRUE
      /\ UNCHANGED <<desired, need, force, revision, records, presented, busy, epd, taken, held,
                     outcome, shown, notified, panel, failures, unowned, power, sleeps, rtcShown>>
  BY DEF RequestEpdUiRefresh, Accepts, GateOpen, epdVars, panelVars, powerVars
<1> DEFINE old == Replaced
<1>2. /\ old \in Intents \cup {NoIntent}
      /\ busy => /\ old = secondary /\ secondary'.rev = revision
                 /\ secondary' \in Intents
                 /\ ForceSubmission \/ FullIn(old) => FullIn(secondary')
                 /\ UNCHANGED <<slots, consumer, pending>>
      /\ ~busy => /\ old = (IF pending THEN slots[consumer] ELSE NoIntent)
                  /\ slots' \in [{0, 1} -> Intents \cup {NoIntent}] /\ consumer' \in {0, 1}
                  /\ pending' = TRUE /\ slots'[consumer'] \in Intents
                  /\ slots'[consumer'].rev = revision
                  /\ ForceSubmission \/ FullIn(old) => FullIn(slots'[consumer'])
                  /\ secondary = NoIntent /\ UNCHANGED secondary
      /\ handled' \in Records /\ handled'.rev = revision
      /\ old # NoIntent => Superseded(old.rev) \in Results
  BY SubmissionMoves
<1>3. results' = IF old = NoIntent THEN results ELSE Append(results, Superseded(old.rev))
  BY <1>1
<1> HIDE DEF old
<1>4. results \in Seq(Results) /\ Apart(results) /\ revision \in 1..MaxRevision
  BY DEF IInv, Typed, Places
<1>5. NoIntent \notin Intents
  BY DEF NoIntent, Intents
<1>6. old.rev \notin RevsOf(results) \/ old = NoIntent
  <2>1. CASE busy
    BY <1>2, <2>1 DEF IInv, Places, Disjoint, SecondaryRevs, RevOf, ResultRevs
  <2>2. CASE ~busy
    BY <1>2, <2>2 DEF IInv, Places, Disjoint, PendingRevs, ResultRevs
  <2> QED BY <2>1, <2>2
<1>7. /\ results' \in Seq(Results)
      /\ Len(results') = Len(results) + Count(old # NoIntent)
      /\ RevsOf(results') = RevsOf(results) \cup RevOf(old)
      /\ Apart(results')
      /\ FailedOf(results') = FailedOf(results)
      /\ AnyFailed(results') <=> AnyFailed(results)
  <2>1. CASE old = NoIntent
    BY <1>3, <1>4, <2>1, Counts DEF Count, RevOf
  <2>2. CASE old # NoIntent
    <3>1. PICK r \in Results : r = Superseded(old.rev)
      BY <1>2, <2>2
    <3>2. r.rev = old.rev /\ r.status = "superseded"
      BY <3>1 DEF Superseded
    <3>3. results' = Append(results, r)
      BY <1>3, <2>2, <3>1
    <3> QED BY <1>4, <1>6, <2>2, <3>2, <3>3, Appended DEF Count, RevOf
  <2> QED BY <2>1, <2>2
<1>8. Typed'
  <2>1. /\ slots' \in [{0, 1} -> Intents \cup {NoIntent}] /\ consumer' \in {0, 1}
        /\ pending' \in BOOLEAN /\ secondary' \in Intents \cup {NoIntent}
    BY <1>2 DEF IInv, Typed
  <2> QED BY <1>1, <1>2, <1>7, <2>1 DEF IInv, Typed
<1>9. Engaged'
  BY <1>1, <1>2, <1>5 DEF IInv, Engaged, InRender
<1>10. InRender' = InRender /\ (~busy => ~InRender)
  BY <1>1 DEF IInv, Engaged, InRender
<1>11. Places'
  <2>1. /\ RenderRevs' = RenderRevs /\ ResultRevs' = ResultRevs \cup RevOf(old)
        /\ AckRevs' = {} /\ AckRevs = {}
    BY <1>1, <1>7, <1>10 DEF RenderRevs, ResultRevs, AckRevs
  <2>2. revision \notin PendingRevs \cup RenderRevs \cup SecondaryRevs \cup ResultRevs
    BY <1>1 DEF IInv, Places
  <2>3. CASE busy
    <3>1. PendingRevs' = PendingRevs /\ SecondaryRevs = RevOf(old) /\ SecondaryRevs' = {revision}
      BY <1>2, <1>5, <2>3 DEF PendingRevs, SecondaryRevs, RevOf
    <3> QED BY <1>1, <1>7, <2>1, <2>2, <3>1 DEF IInv, Places, Disjoint
  <2>4. CASE ~busy
    <3>1. /\ PendingRevs = RevOf(old) /\ PendingRevs' = {revision}
          /\ SecondaryRevs = {} /\ SecondaryRevs' = {} /\ RenderRevs = {}
      BY <1>2, <1>5, <1>10, <2>4 DEF PendingRevs, SecondaryRevs, RevOf, RenderRevs, IInv, Engaged
    <3> QED BY <1>1, <1>7, <2>1, <2>2, <3>1 DEF IInv, Places, Disjoint
  <2> QED BY <2>3, <2>4
<1>12. /\ IsFiniteSet(outstanding') /\ Cardinality(outstanding') = Cardinality(outstanding) + 1
  BY <1>1, Counts, FS_AddElement
<1>13. Counted'
  <2>1. Cardinality(outstanding') <= Depth
    BY <1>1, <1>12, Counts, LimitsAssumption
  <2>2. CASE busy
    <3>1. Count(old # NoIntent) = Count(secondary # NoIntent) /\ Count(secondary # NoIntent)' = 1
          /\ Count(pending)' = Count(pending) /\ Count(InRender)' = Count(InRender)
          /\ Count(ui = "acking") = 0 /\ Count(ui = "acking")' = 0
      BY <1>1, <1>2, <1>5, <1>10, <2>2 DEF Count
    <3>2. Count(pending) \in Nat /\ Count(InRender) \in Nat /\ Count(secondary # NoIntent) \in Nat
      BY DEF Count
    <3> QED BY <1>7, <1>12, <2>1, <3>1, <3>2, Counts DEF IInv, Counted
  <2>3. CASE ~busy
    <3>1. /\ Count(old # NoIntent) = Count(pending) /\ Count(pending)' = 1
          /\ Count(secondary # NoIntent) = 0 /\ Count(secondary # NoIntent)' = 0
          /\ Count(InRender) = 0 /\ Count(InRender)' = 0
          /\ Count(ui = "acking") = 0 /\ Count(ui = "acking")' = 0
      BY <1>1, <1>2, <1>5, <1>10, <2>3 DEF Count, IInv, Engaged
    <3>2. Count(pending) \in Nat
      BY DEF Count
    <3> QED BY <1>7, <1>12, <2>1, <3>1, <3>2, Counts DEF IInv, Counted
  <2> QED BY <2>2, <2>3
<1>14. Recorded'
  BY <1>1, <1>2, <1>12, Counts DEF IInv, Recorded, Count
<1>15. Covered'
  BY <1>1 DEF IInv, Covered
<1>16. Budget'
  <2>1. FailedRevs' = FailedRevs /\ Unseen' = Unseen
    BY <1>1, <1>7 DEF FailedRevs, Unseen
  <2> QED BY <1>1, <2>1 DEF IInv, Budget, Count
<1>17. Owed'
  <2> SUFFICES ASSUME panel = Garbled, ~unowned
               PROVE  OwedOnTheWay'
    BY <1>1 DEF Owed
  <2>1. OwedOnTheWay \/ force
    BY DEF IInv, Owed
  <2>2. CASE busy
    BY <1>1, <1>2, <1>7, <2>1, <2>2 DEF OwedOnTheWay, Unseen, ForceSubmission
  <2>3. CASE ~busy
    <3>1. ~FullIn(secondary)
      BY <1>2, <2>3 DEF FullIn
    <3> QED BY <1>1, <1>2, <1>7, <2>1, <2>3, <3>1 DEF OwedOnTheWay, Unseen, ForceSubmission
  <2> QED BY <2>2, <2>3
<1> QED BY <1>8, <1>9, <1>11, <1>13, <1>14, <1>15, <1>16, <1>17 DEF IInv

LEMMA TrackKeeps ==
    ASSUME IInv, TrackDisplaySubmission
    PROVE  IInv'
<1>1. /\ ui = "submitted" /\ ui' = "loop" /\ handled' = NoRecord
      /\ notified' \in BOOLEAN /\ records' = records \cup {handled}
      /\ force' = FALSE /\ need' = "none"
      /\ UNCHANGED <<desired, revision, presented, slots, consumer, pending, busy, secondary,
                     outstanding, lease, results, epd, taken, held, outcome, shown, panel,
                     failures, unowned, power, sleeps, rtcShown>>
  BY DEF TrackDisplaySubmission, intentVars, epdVars, panelVars, powerVars, IInv, Typed
<1>2. handled \in Records
  BY <1>1 DEF IInv, Typed
<1>3. Typed'
  <2>1. records' \in SUBSET Records
    BY <1>1, <1>2 DEF IInv, Typed
  <2>2. /\ IF ui' = "loop" THEN handled' = NoRecord ELSE handled' \in Records
        /\ need' \in Schedules \cup {"none"}
    BY <1>1
  <2> QED BY <1>1, <2>1, <2>2 DEF IInv, Typed
<1>4. Recorded'
  <2>1. handled.rev \in outstanding /\ {r.rev : r \in records} = outstanding \ {handled.rev}
    BY <1>1 DEF IInv, Recorded
  <2>2. \A r \in records : r.rev # handled.rev
    BY <2>1
  <2>3. IsFiniteSet(records') /\ Cardinality(records') = Cardinality(records) + 1
    BY <1>1, <2>2, Counts, FS_AddElement
  <2>4. {r.rev : r \in records'} = outstanding
    BY <1>1, <2>1
  <2>5. \A r, q \in records' : r.rev = q.rev => r = q
    BY <1>1, <2>2 DEF IInv, Recorded
  <2> QED BY <1>1, <2>3, <2>4, <2>5, Counts DEF IInv, Recorded, Count
<1>5. Engaged' /\ Covered'
  BY <1>1, EngagedKept, CoveredKept DEF IInv
<1>6. Owed'
  BY <1>1 DEF IInv, Owed, OwedOnTheWay, Unseen, AnyFailed, FullIn
<1>7. Places' /\ Counted' /\ Budget'
  BY <1>1, LedgerKept, BudgetKept DEF IInv, InRender, Unseen
<1> QED BY <1>3, <1>4, <1>5, <1>6, <1>7 DEF IInv

--------------------------------------------------------------------------------
(* The EPD task *)

\* Steps that move only the task itself, its notification, the lease or the power.
LEMMA PlaceKeeps ==
    ASSUME IInv, TakeNotification \/ Look \/ IdleCommands
    PROVE  IInv'
<1>1. /\ ~InRender /\ epd # "finish" /\ ~InRender'
      /\ epd' \in {"look", "timed", "idle", "wait"}
      /\ notified' \in BOOLEAN /\ power' \in {"awake", "preparing", "prepared"}
      /\ power' = "awake" <=> power = "awake"
      /\ lease' = lease \/ lease' = LeaseAfter(pending, busy, secondary, outstanding)
      /\ UNCHANGED <<ui, handled, desired, need, force, revision, records, presented, slots,
                     consumer, pending, busy, secondary, outstanding, results, taken, held,
                     outcome, shown, panel, failures, unowned, sleeps, rtcShown>>
  BY DEF TakeNotification, Look, IdleCommands, uiVars, intentVars, epdVars, panelVars, powerVars,
     InRender, IInv, Typed
<1>2. lease' \in BOOLEAN
  BY <1>1 DEF LeaseAfter, IInv, Typed
<1>3. Typed'
  BY <1>1, <1>2 DEF IInv, Typed
<1>4. Engaged'
  BY <1>1 DEF IInv, Engaged, InRender
<1>5. InRender' = InRender /\ Unseen' = Unseen
  BY <1>1 DEF InRender, Unseen
<1>6. Places' /\ Counted' /\ Budget' /\ Recorded'
  BY <1>1, <1>5, LedgerKept, BudgetKept, RecordedKept DEF IInv
<1>7. Covered'
  <2>1. CASE lease' = lease
    BY <1>1, <2>1 DEF IInv, Covered
  <2>2. CASE lease' = LeaseAfter(pending, busy, secondary, outstanding)
    <3>1. lease' => lease
      BY <2>2 DEF LeaseAfter
    <3>2. lease /\ ~lease' => outstanding = {} /\ ~busy
      BY <2>2 DEF LeaseAfter
    <3>3. ~lease' => outstanding' = {} /\ ~busy'
      BY <1>1, <3>2 DEF IInv, Covered
    <3>4. power' # "awake" => ~lease'
      BY <1>1, <3>1 DEF IInv, Covered
    <3> QED BY <3>3, <3>4 DEF Covered
  <2> QED BY <1>1, <2>1, <2>2
<1>8. Owed'
  BY <1>1, <1>5 DEF IInv, Owed, OwedOnTheWay, AnyFailed, FullIn, InRender
<1> QED BY <1>3, <1>4, <1>6, <1>7, <1>8 DEF IInv

LEMMA ConsumeKeeps ==
    ASSUME IInv, Consume
    PROVE  IInv'
<1>1. /\ epd = "timed" /\ pending /\ epd' = "render"
      /\ taken' = consumer /\ held' = slots[consumer]
      /\ pending' = FALSE /\ busy' = TRUE
      /\ UNCHANGED <<ui, handled, desired, need, force, revision, records, presented, slots,
                     consumer, secondary, outstanding, lease, results, outcome, shown, notified,
                     panel, failures, unowned, power, sleeps, rtcShown>>
  BY DEF Consume, uiVars, panelVars, powerVars
<1>2. slots[consumer] \in Intents
  BY <1>1 DEF IInv, Engaged
<1>3. ~InRender /\ InRender' /\ ~Unseen /\ ~Unseen' /\ Unseen' = Unseen
  BY <1>1 DEF InRender, Unseen
<1>4. Typed'
  <2>1. held' \in Intents \cup {NoIntent} /\ taken' \in {0, 1}
    BY <1>1, <1>2 DEF IInv, Typed
  <2>2. /\ pending' \in BOOLEAN /\ busy' \in BOOLEAN
        /\ IF ui' = "loop" THEN handled' = NoRecord ELSE handled' \in Records
    BY <1>1 DEF IInv, Typed
  <2>3. Typed
    BY DEF IInv
  <2> QED BY <1>1, <2>1, <2>2, <2>3 DEF Typed
<1>5. Engaged'
  BY <1>1, <1>2 DEF Engaged, InRender
<1>6. Places' /\ outstanding # {}
  <2>1. /\ RenderRevs = {} /\ RenderRevs' = PendingRevs /\ PendingRevs' = {}
        /\ SecondaryRevs' = SecondaryRevs /\ ResultRevs' = ResultRevs /\ AckRevs' = AckRevs
        /\ PendingRevs # {}
    BY <1>1, <1>3 DEF RenderRevs, PendingRevs, SecondaryRevs, ResultRevs, AckRevs, RevOf
  <2> QED BY <1>1, <2>1 DEF IInv, Places, Disjoint
<1>7. Counted'
  <2>1. /\ Count(pending) = 1 /\ Count(pending)' = 0
        /\ Count(InRender) = 0 /\ Count(InRender)' = 1
        /\ Count(secondary # NoIntent)' = Count(secondary # NoIntent)
        /\ Count(ui = "acking")' = Count(ui = "acking")
        /\ Count(secondary # NoIntent) \in Nat /\ Count(ui = "acking") \in Nat
    BY <1>1, <1>3 DEF Count
  <2>2. /\ Cardinality(outstanding') = Cardinality(outstanding) /\ IsFiniteSet(outstanding')
        /\ Len(results') = Len(results)
    BY <1>1, Counts
  <2> QED BY <2>1, <2>2, Counts DEF IInv, Counted
<1>8. Recorded' /\ Budget'
  <2>1. Recorded'
    BY <1>1, RecordedKept DEF IInv
  <2>2. Budget'
    BY <1>1, <1>3, BudgetKept DEF IInv
  <2> QED BY <2>1, <2>2
<1>9. Covered'
  BY <1>1, <1>6, LeaseIsOut DEF IInv, Covered
<1>10. Owed'
  BY <1>1, <1>3 DEF IInv, Owed, OwedOnTheWay, AnyFailed, FullIn
<1> QED BY <1>4, <1>5, <1>6, <1>7, <1>8, <1>9, <1>10 DEF IInv

LEMMA RenderKeeps ==
    ASSUME IInv, RenderDuplicate \/ RenderFrameToEpd \/ RenderFails
    PROVE  IInv'
<1>1. /\ epd = "render" /\ epd' = "publish"
      /\ outcome' \in {"ok", "failed"}
      /\ UNCHANGED <<ui, handled, desired, need, force, revision, records, presented, slots,
                     consumer, pending, busy, secondary, outstanding, lease, results, taken, held,
                     notified, power, sleeps, rtcShown>>
  BY DEF RenderDuplicate, RenderFrameToEpd, RenderFails, uiVars, intentVars, epdVars, panelVars,
     powerVars
<1>2. held \in Intents /\ slots[taken] = held /\ busy /\ ~pending
  BY <1>1 DEF IInv, Engaged, InRender
<1>3. InRender' = InRender /\ ~Unseen
  BY <1>1 DEF InRender, Unseen
<1>4. \/ /\ outcome' = "ok" /\ UNCHANGED <<panel, unowned, failures>> /\ ~FullIn(held)
      \/ /\ outcome' = "ok" /\ panel' = held.frame /\ UNCHANGED failures /\ unowned' = FALSE
      \/ /\ outcome' = "failed" /\ failures' = failures + 1 /\ failures < MaxFailures
         /\ panel' = Garbled /\ unowned' = FALSE
  BY <1>2 DEF RenderDuplicate, CanDeduplicate, RenderFrameToEpd, RenderFails, panelVars, FullIn
<1>5. held.frame \in Frames
  BY <1>2 DEF Intents
<1>6. Typed'
  <2>1. panel' \in Frames \cup {NoFrame, Garbled} /\ unowned' \in BOOLEAN
    BY <1>4, <1>5 DEF IInv, Typed
  <2>2. failures' \in 0..MaxFailures
    <3>1. failures \in 0..MaxFailures /\ MaxFailures \in Nat
      BY LimitsAssumption DEF IInv, Typed
    <3>2. failures' = failures \/ (failures' = failures + 1 /\ failures < MaxFailures)
      BY <1>4
    <3> QED BY <3>1, <3>2
  <2> QED BY <1>1, <2>1, <2>2 DEF IInv, Typed
<1>7. Engaged'
  BY <1>1, <1>2 DEF IInv, Engaged, InRender
<1>8. Places' /\ Counted' /\ Recorded' /\ Covered'
  BY <1>1, <1>3, LedgerKept, RecordedKept, CoveredKept DEF IInv
<1>9. Budget'
  <2>1. FailedRevs' = FailedRevs
    BY <1>1 DEF FailedRevs, FailedOf
  <2>2. Count(Unseen) = 0 /\ Count(Unseen)' = (IF outcome' = "failed" THEN 1 ELSE 0)
    BY <1>1, <1>3 DEF Count, Unseen
  <2>3. failures \in Nat /\ revision \in Nat
    BY DEF IInv, Typed
  <2> QED BY <1>1, <1>4, <2>1, <2>2, <2>3, Counts, LimitsAssumption DEF IInv, Budget
<1>10. Owed'
  <2>1. CASE outcome' = "failed"
    BY <1>1, <2>1 DEF Owed, OwedOnTheWay, Unseen
  <2>2. CASE outcome' = "ok" /\ panel' = held.frame
    <3>1. panel' # Garbled
      BY <1>5, <2>2, LimitsAssumption DEF Garbled
    <3> QED BY <3>1 DEF Owed
  <2>3. CASE UNCHANGED <<panel, unowned>> /\ ~FullIn(held)
    BY <1>1, <1>2, <1>3, <2>3 DEF IInv, Owed, OwedOnTheWay, AnyFailed, FullIn
  <2> QED BY <1>4, <2>1, <2>2, <2>3
<1> QED BY <1>6, <1>7, <1>8, <1>9, <1>10 DEF IInv

LEMMA PublishKeeps ==
    ASSUME IInv, PublishResult
    PROVE  IInv'
<1>1. epd = "publish" /\ held \in Intents /\ busy /\ ~pending /\ InRender
  BY DEF PublishResult, IInv, Engaged, InRender
<1>2. HasRoom
  <2>1. Count(pending) \in Nat /\ Count(InRender) = 1 /\ Count(secondary # NoIntent) \in Nat
        /\ Count(ui = "acking") \in Nat
    BY <1>1 DEF Count
  <2> QED BY <2>1, Counts, LimitsAssumption DEF IInv, Counted, HasRoom
<1>3. PICK r \in Results :
          /\ r.rev = held.rev /\ r.status = (IF outcome = "ok" THEN "presented" ELSE "failed")
          /\ results' = Append(results, r)
  <2> DEFINE new == [rev |-> held.rev,
                     status |-> IF outcome = "ok" THEN "presented" ELSE "failed"]
  <2>1. new \in Results
    BY <1>1 DEF Results, Intents
  <2>2. results' = Append(results, new)
    BY <1>2 DEF PublishResult
  <2> QED BY <2>1, <2>2
<1>4. /\ epd' = "finish"
      /\ UNCHANGED <<ui, handled, desired, need, force, revision, records, presented, slots,
                     consumer, pending, busy, secondary, outstanding, lease, taken, held, outcome,
                     shown, notified, panel, failures, unowned, power, sleeps, rtcShown>>
  BY <1>2 DEF PublishResult, uiVars, epdVars, panelVars, powerVars
<1>5. results \in Seq(Results) /\ Apart(results) /\ held.rev \notin RevsOf(results)
  BY <1>1 DEF IInv, Typed, Places, Disjoint, RenderRevs, ResultRevs
<1>6. /\ results' \in Seq(Results) /\ Len(results') = Len(results) + 1
      /\ RevsOf(results') = RevsOf(results) \cup {held.rev}
      /\ Apart(results')
      /\ FailedOf(results') = FailedOf(results)
                              \cup (IF r.status = "failed" THEN {held.rev} ELSE {})
      /\ AnyFailed(results') <=> AnyFailed(results) \/ r.status = "failed"
  <2>1. /\ results' \in Seq(Results) /\ Len(results') = Len(results) + 1
        /\ RevsOf(results') = RevsOf(results) \cup {r.rev}
        /\ Apart(results) /\ r.rev \notin RevsOf(results) => Apart(results')
        /\ FailedOf(results') = FailedOf(results)
                                \cup (IF r.status = "failed" THEN {r.rev} ELSE {})
        /\ AnyFailed(results') <=> AnyFailed(results) \/ r.status = "failed"
    BY <1>3, <1>5, Appended
  <2>2. r.rev = held.rev
    BY <1>3
  <2> QED BY <1>5, <2>1, <2>2
<1>7. r.status = "failed" <=> Unseen
  BY <1>1, <1>3 DEF Unseen, IInv, Typed
<1>8. ~InRender' /\ ~Unseen'
  BY <1>4 DEF InRender, Unseen
<1>9. Typed'
  BY <1>4, <1>6 DEF IInv, Typed
<1>10. Engaged'
  BY <1>1, <1>4 DEF IInv, Engaged, InRender
<1>11. Places'
  <2>1. /\ RenderRevs = {held.rev} /\ RenderRevs' = {} /\ ResultRevs' = ResultRevs \cup {held.rev}
        /\ PendingRevs' = PendingRevs /\ SecondaryRevs' = SecondaryRevs /\ AckRevs' = AckRevs
    BY <1>1, <1>4, <1>6, <1>8 DEF RenderRevs, PendingRevs, SecondaryRevs, ResultRevs, AckRevs,
       RevOf
  <2> QED BY <1>4, <1>6, <2>1 DEF IInv, Places, Disjoint
<1>12. Counted'
  <2>1. /\ Count(pending)' = Count(pending) /\ Count(pending) \in Nat
        /\ Count(InRender) = 1 /\ Count(InRender)' = 0
        /\ Count(secondary # NoIntent)' = Count(secondary # NoIntent)
        /\ Count(ui = "acking")' = Count(ui = "acking")
        /\ Count(secondary # NoIntent) \in Nat /\ Count(ui = "acking") \in Nat
    BY <1>1, <1>4, <1>8 DEF Count
  <2>2. Cardinality(outstanding') = Cardinality(outstanding) /\ IsFiniteSet(outstanding')
    BY <1>4, Counts
  <2> QED BY <1>6, <2>1, <2>2, Counts, SMTT(30) DEF IInv, Counted
<1>13. Recorded' /\ Covered'
  BY <1>4, RecordedKept, CoveredKept DEF IInv
<1>14. Budget'
  <2>1. /\ Count(Unseen) = (IF r.status = "failed" THEN 1 ELSE 0) /\ Count(Unseen)' = 0
    BY <1>7, <1>8 DEF Count
  <2>2. IsFiniteSet(FailedOf(results)) /\ Cardinality(FailedOf(results)) \in Nat
    BY Counts DEF FailedRevs
  <2>3. /\ Cardinality(FailedOf(results')) <= Cardinality(FailedOf(results)) + Count(Unseen)
        /\ Cardinality(FailedOf(results')) \in Nat
    <3>1. CASE r.status = "failed"
      <4>1. /\ IsFiniteSet(FailedOf(results) \cup {held.rev})
            /\ Cardinality(FailedOf(results) \cup {held.rev}) \in
                  {Cardinality(FailedOf(results)), Cardinality(FailedOf(results)) + 1}
        BY <2>2, FS_AddElement
      <4>2. FailedOf(results') = FailedOf(results) \cup {held.rev}
        BY <1>6, <3>1
      <4> QED BY <2>1, <2>2, <3>1, <4>1, <4>2
    <3>2. CASE r.status # "failed"
      <4>1. FailedOf(results') = FailedOf(results)
        BY <1>6, <3>2
      <4> QED BY <2>1, <2>2, <3>2, <4>1
    <3> QED BY <3>1, <3>2
  <2>4. failures \in Nat /\ revision \in Nat /\ Count(Unseen) \in Nat
    BY DEF IInv, Typed, Count
  <2> QED BY <1>4, <2>1, <2>2, <2>3, <2>4, LimitsAssumption DEF IInv, Budget, FailedRevs
<1>15. Owed'
  BY <1>1, <1>4, <1>6, <1>7 DEF IInv, Owed, OwedOnTheWay, FullIn
<1> QED BY <1>9, <1>10, <1>11, <1>12, <1>13, <1>14, <1>15 DEF IInv

LEMMA FinishKeeps ==
    ASSUME IInv, Finish
    PROVE  IInv'
<1>1. /\ epd = "finish" /\ epd' = "outer" /\ held' = NoIntent
      /\ UNCHANGED <<ui, handled, desired, need, force, revision, records, presented, outstanding,
                     results, taken, outcome, shown, panel, failures, unowned, power, sleeps,
                     rtcShown>>
  BY DEF Finish, uiVars, panelVars, powerVars
<1>2. busy /\ ~pending /\ ~InRender /\ ~InRender' /\ ~Unseen /\ ~Unseen'
  BY <1>1 DEF IInv, Engaged, InRender, Unseen
<1>3. lease /\ power = "awake"
  BY <1>2, LeaseIsOut
<1>4. /\ RenderRevs = {} /\ RenderRevs' = {} /\ PendingRevs = {}
      /\ ResultRevs' = ResultRevs /\ AckRevs' = AckRevs
  BY <1>1, <1>2 DEF RenderRevs, PendingRevs, ResultRevs, RevsOf, AckRevs
<1>5. Recorded' /\ Budget'
  <2>1. Recorded'
    BY <1>1, RecordedKept DEF IInv
  <2>2. Unseen' = Unseen
    BY <1>1 DEF Unseen
  <2>3. Budget'
    BY <1>1, <2>2, BudgetKept DEF IInv
  <2> QED BY <2>1, <2>3
<1>6. CASE secondary # NoIntent
  <2>1. /\ slots' = [slots EXCEPT ![1 - consumer] = secondary]
        /\ consumer' = 1 - consumer /\ pending' = TRUE
        /\ secondary' = NoIntent /\ notified' = TRUE
        /\ UNCHANGED <<busy, lease>>
    BY <1>6 DEF Finish
  <2>2. secondary \in Intents /\ consumer \in {0, 1}
        /\ slots \in [{0, 1} -> Intents \cup {NoIntent}]
    BY <1>6 DEF IInv, Typed
  <2>3. /\ consumer' \in {0, 1} /\ slots'[consumer'] = secondary
        /\ slots' \in [{0, 1} -> Intents \cup {NoIntent}]
    <3>1. 1 - consumer \in {0, 1}
      BY <2>2
    <3> QED BY <2>1, <2>2, <3>1
  <2>4. Typed'
    BY <1>1, <2>1, <2>3 DEF IInv, Typed
  <2>5. Engaged'
    BY <1>1, <1>2, <2>1, <2>2, <2>3 DEF Engaged, InRender
  <2>6. Places'
    <3>1. PendingRevs' = SecondaryRevs /\ SecondaryRevs' = {}
      BY <1>6, <2>1, <2>3 DEF PendingRevs, SecondaryRevs, RevOf
    <3> QED BY <1>1, <1>4, <3>1 DEF IInv, Places, Disjoint, Apart
  <2>7. Counted'
    BY <1>1, <1>2, <1>6, <2>1, Counts DEF IInv, Counted, Count
  <2>8. Covered'
    BY <1>1, <2>1 DEF IInv, Covered
  <2>9. Owed'
    BY <1>1, <1>2, <1>6, <2>1, <2>3 DEF IInv, Owed, OwedOnTheWay, AnyFailed, FullIn
  <2> QED BY <1>5, <2>4, <2>5, <2>6, <2>7, <2>8, <2>9 DEF IInv
<1>7. CASE secondary = NoIntent
  <2>1. /\ busy' = FALSE /\ lease' = LeaseAfter(pending, FALSE, secondary, outstanding)
        /\ UNCHANGED <<slots, consumer, pending, secondary, notified>>
    BY <1>7 DEF Finish
  <2>2. lease' = (outstanding # {})
    BY <1>2, <1>3, <1>7, <2>1 DEF LeaseAfter
  <2>3. Typed'
    <3>1. /\ busy' \in BOOLEAN /\ lease' \in BOOLEAN
          /\ IF ui' = "loop" THEN handled' = NoRecord ELSE handled' \in Records
      BY <1>1, <2>1, <2>2 DEF IInv, Typed
    <3>2. Typed
      BY DEF IInv
    <3>3. UNCHANGED <<slots, consumer, secondary, results, taken, outcome, power, records>>
      BY <1>1, <2>1
    <3>4. UNCHANGED <<ui, desired, need, force, revision, presented, panel, failures, unowned,
                      notified, pending>>
      BY <1>1, <2>1
    <3> QED BY <1>1, <3>1, <3>2, <3>3, <3>4 DEF Typed
  <2>4. Engaged'
    BY <1>1, <1>2, <1>7, <2>1 DEF Engaged, InRender
  <2>5. Places'
    <3>1. PendingRevs' = {} /\ SecondaryRevs' = SecondaryRevs
      BY <1>2, <2>1 DEF PendingRevs, SecondaryRevs, RevOf
    <3> QED BY <1>1, <1>4, <3>1 DEF IInv, Places, Disjoint, Apart
  <2>6. Counted'
    BY <1>1, <1>2, <2>1, Counts DEF IInv, Counted, Count
  <2>7. Covered'
    BY <1>1, <1>3, <2>1, <2>2 DEF IInv, Covered
  <2>8. Owed'
    BY <1>1, <1>2, <2>1 DEF IInv, Owed, OwedOnTheWay, AnyFailed, FullIn
  <2> QED BY <1>5, <2>3, <2>4, <2>5, <2>6, <2>7, <2>8 DEF IInv
<1> QED BY <1>6, <1>7

--------------------------------------------------------------------------------
(* The power task *)

LEMMA GateKeeps ==
    ASSUME IInv, BeginQuiesce \/ AbortSleep
    PROVE  IInv'
<1>1. /\ power' \in {"awake", "preparing"} /\ notified' \in BOOLEAN
      /\ power' = "awake" \/ ~lease
      /\ UNCHANGED <<ui, handled, desired, need, force, revision, records, presented, slots,
                     consumer, pending, busy, secondary, outstanding, lease, results, epd, taken,
                     held, outcome, shown, panel, failures, unowned, rtcShown>>
  BY DEF BeginQuiesce, AbortSleep, uiVars, intentVars, epdVars, panelVars, IInv, Typed
<1>2. Typed'
  BY <1>1 DEF IInv, Typed
<1>3. Engaged' /\ Recorded' /\ Owed'
  BY <1>1, EngagedKept, RecordedKept, OwedKept DEF IInv
<1>4. Places' /\ Counted' /\ Budget'
  BY <1>1, LedgerKept, BudgetKept DEF IInv, InRender, Unseen
<1>5. Covered'
  BY <1>1 DEF IInv, Covered
<1> QED BY <1>2, <1>3, <1>4, <1>5 DEF IInv

\* RAM starts over; only the revisions, the failures and the panel remain.
LEMMA BootKeeps ==
    ASSUME IInv, DeepSleepAndBoot
    PROVE  IInv'
<1>1. /\ desired' \in Frames /\ presented' \in Frames \cup {NoFrame}
      /\ need' \in Schedules \cup {"none"}
  <2>1. PICK f \in Frames, timer \in BOOLEAN :
            /\ desired' = f
            /\ presented' = IF SkipsInitRefresh(f, timer) THEN f ELSE NoFrame
            /\ need' = IF SkipsInitRefresh(f, timer) THEN "none"
                       ELSE IF timer THEN "clock" ELSE "change"
    BY DEF DeepSleepAndBoot
  <2> QED BY <2>1 DEF Schedules
<1>2. /\ ui' = "loop" /\ handled' = NoRecord /\ force' = FALSE /\ records' = {}
      /\ slots' = [i \in {0, 1} |-> NoIntent] /\ consumer' = 0
      /\ pending' = FALSE /\ busy' = FALSE /\ secondary' = NoIntent
      /\ outstanding' = {} /\ results' = <<>> /\ lease' = FALSE
      /\ epd' = "outer" /\ taken' = 0 /\ held' = NoIntent /\ outcome' = "ok"
      /\ notified' = FALSE /\ unowned' = (panel = Garbled) /\ power' = "awake"
      /\ UNCHANGED <<revision, panel, failures>>
  BY DEF DeepSleepAndBoot
<1>3. ~InRender' /\ ~Unseen'
  BY <1>2 DEF InRender, Unseen
<1>4. Typed'
  <2>1. slots' \in [{0, 1} -> Intents \cup {NoIntent}] /\ records' \in SUBSET Records
        /\ results' \in Seq(Results)
    BY <1>2
  <2> QED BY <1>1, <1>2, <2>1 DEF IInv, Typed
<1>5. Engaged'
  BY <1>2, <1>3 DEF Engaged
<1>6. RevsOf(results') = {} /\ FailedOf(results') = {} /\ Apart(results') /\ Len(results') = 0
  BY <1>2 DEF RevsOf, FailedOf, Apart
<1>7. Places'
  <2>1. /\ PendingRevs' = {} /\ RenderRevs' = {} /\ SecondaryRevs' = {} /\ ResultRevs' = {}
        /\ AckRevs' = {}
    BY <1>2, <1>3, <1>6 DEF PendingRevs, RenderRevs, SecondaryRevs, RevOf, ResultRevs, AckRevs
  <2> QED BY <1>2, <1>6, <2>1 DEF Places, Disjoint
<1>8. Counted'
  BY <1>2, <1>3, <1>6, FS_EmptySet, LimitsAssumption DEF Counted, Count
<1>9. Recorded'
  BY <1>2, FS_EmptySet DEF Recorded, Count
<1>10. Covered'
  BY <1>2 DEF Covered
<1>11. Budget'
  <2>1. Cardinality(FailedRevs') = 0 /\ Count(Unseen)' = 0
    BY <1>3, <1>6, FS_EmptySet DEF FailedRevs, Count
  <2>2. failures \in Nat /\ revision \in Nat /\ Count(Unseen) \in Nat
    BY DEF IInv, Typed, Count
  <2> QED BY <1>2, <2>1, <2>2, Counts, LimitsAssumption DEF IInv, Budget
<1>12. Owed'
  BY <1>2 DEF Owed
<1> QED BY <1>4, <1>5, <1>7, <1>8, <1>9, <1>10, <1>11, <1>12 DEF IInv

--------------------------------------------------------------------------------
\* The pipeline starts empty, with the first page to draw.
LEMMA InitEstablishes == Init => IInv
<1> SUFFICES ASSUME Init PROVE IInv
  OBVIOUS
<1>1. /\ ui = "loop" /\ handled = NoRecord
      /\ desired \in Frames /\ need = "change" /\ force = FALSE /\ revision = 1
      /\ records = {} /\ presented = NoFrame
      /\ slots = [i \in {0, 1} |-> NoIntent] /\ consumer = 0
      /\ pending = FALSE /\ busy = FALSE /\ secondary = NoIntent
      /\ outstanding = {} /\ results = <<>> /\ lease = FALSE
      /\ epd = "outer" /\ taken = 0 /\ held = NoIntent /\ outcome = "ok"
      /\ notified = FALSE /\ panel = NoFrame /\ failures = 0 /\ unowned = FALSE
      /\ power = "awake"
  BY DEF Init
<1>2. ~InRender /\ ~Unseen
  BY <1>1 DEF InRender, Unseen
<1>3. Typed
  <2>1. slots \in [{0, 1} -> Intents \cup {NoIntent}] /\ records \in SUBSET Records
        /\ results \in Seq(Results)
    BY <1>1
  <2>2. 1 \in 1..MaxRevision /\ 0 \in 0..MaxFailures
    BY LimitsAssumption
  <2> QED BY <1>1, <2>1, <2>2 DEF Typed, Schedules
<1>4. RevsOf(results) = {} /\ FailedOf(results) = {} /\ Apart(results) /\ Len(results) = 0
  BY <1>1 DEF RevsOf, FailedOf, Apart
<1>5. Engaged /\ Covered
  BY <1>1, <1>2 DEF Engaged, Covered
<1>6. Places
  <2>1. /\ PendingRevs = {} /\ RenderRevs = {} /\ SecondaryRevs = {} /\ ResultRevs = {}
        /\ AckRevs = {}
    BY <1>1, <1>2, <1>4 DEF PendingRevs, RenderRevs, SecondaryRevs, RevOf, ResultRevs, AckRevs
  <2> QED BY <1>1, <1>4, <2>1 DEF Places, Disjoint
<1>7. Counted
  BY <1>1, <1>2, <1>4, FS_EmptySet, LimitsAssumption DEF Counted, Count
<1>8. Recorded
  BY <1>1, FS_EmptySet DEF Recorded, Count
<1>9. Budget
  <2>1. Cardinality(FailedRevs) = 0 /\ Count(Unseen) = 0
    BY <1>2, <1>4, FS_EmptySet DEF FailedRevs, Count
  <2> QED BY <1>1, <2>1, LimitsAssumption DEF Budget
<1>10. Owed
  BY <1>1 DEF Owed, NoFrame, Garbled
<1> QED BY <1>3, <1>5, <1>6, <1>7, <1>8, <1>9, <1>10 DEF IInv

LEMMA Inductive == IInv /\ [Next]_vars => IInv'
<1> SUFFICES ASSUME IInv, [Next]_vars PROVE IInv'
  OBVIOUS
<1>1. CASE UNCHANGED vars
  <2>1. UNCHANGED <<ui, handled, desired, need, force, revision, records, presented, slots,
                    consumer, pending, busy, secondary, outstanding, lease, results, epd, taken,
                    held, outcome, shown, notified, panel, failures, unowned, power, sleeps,
                    rtcShown>>
    BY <1>1 DEF vars, uiVars, intentVars, epdVars, panelVars, powerVars
  <2>2. Typed'
    BY <2>1 DEF IInv, Typed
  <2>3. Engaged' /\ Recorded' /\ Covered' /\ Owed'
    BY <2>1, EngagedKept, RecordedKept, CoveredKept, OwedKept DEF IInv
  <2>4. Places' /\ Counted' /\ Budget'
    BY <2>1, LedgerKept, BudgetKept DEF IInv, InRender, Unseen
  <2> QED BY <2>2, <2>3, <2>4 DEF IInv
<1> QED BY <1>1, UiEventKeeps, DrainResultKeeps, AcknowledgeKeeps, FlagKeeps, SubmissionKeeps,
           TrackKeeps, PlaceKeeps, ConsumeKeeps, RenderKeeps, PublishKeeps, FinishKeeps, GateKeeps,
           BootKeeps DEF Next, UiTask, EpdTask, PowerTask

LEMMA Invariance == Spec => []IInv
BY InitEstablishes, Inductive, PTL DEF Spec

--------------------------------------------------------------------------------
\* An accepted revision is in one place and gets one result, for which the queue has
\* room; the slot that is rendered by reference holds still (ui_refresh.cpp:753).
THEOREM LedgerIsSound == Spec => []LedgerSound
<1>1. IInv => LedgerSound
  <2> SUFFICES ASSUME IInv PROVE LedgerSound
    OBVIOUS
  <2>1. Cardinality(records) <= Depth
    BY Counts, LimitsAssumption DEF IInv, Counted, Recorded, Count
  <2>2. Len(results) + Count(epd \in {"render", "publish"}) <= Cardinality(outstanding)
    <3>1. /\ Count(pending) \in Nat /\ Count(secondary # NoIntent) \in Nat
          /\ Count(ui = "acking") \in Nat /\ Count(epd \in {"render", "publish"}) \in Nat
      BY DEF Count
    <3> QED BY <3>1, Counts DEF IInv, Counted, InRender
  <2>3. Len(results) <= Depth /\ (epd = "publish" => HasRoom)
    BY <2>2, Counts, LimitsAssumption DEF IInv, Counted, Count, HasRoom
  <2>4. TypeOK
    <3>1. \A i \in {0, 1} : slots[i] \in Intents \cup {NoIntent}
      BY DEF IInv, Typed
    <3> QED BY <2>1, <2>3, <3>1 DEF IInv, Typed, Engaged, InRender, TypeOK
  <2>5. outstanding = Waiting \cup Answered
    BY DEF IInv, Places, PendingRevs, RenderRevs, InRender, SecondaryRevs, ResultRevs, RevsOf,
       AckRevs, Waiting, Answered
  <2>6. OneResultPerRevision
    BY <2>3, <2>5 DEF IInv, Counted, Count, InRender, OneResultPerRevision
  <2> QED BY <2>4, <2>6 DEF IInv, Engaged, LedgerSound, RenderedFrameStable
<1> QED BY <1>1, Invariance, PTL

\* The gate closes only over an empty pipeline: the lease ends with the last result the
\* UI takes (ui_refresh.cpp:159).
THEOREM SleepIsQuiet == Spec => []SleepFindsNoFrame
<1>1. IInv => SleepFindsNoFrame
  <2> SUFFICES ASSUME IInv, power # "awake" PROVE SleepFindsNoFrame
    BY DEF SleepFindsNoFrame
  <2>1. outstanding = {} /\ ~busy
    BY DEF IInv, Covered
  <2>2. ui = "loop" /\ records = {}
    BY <2>1 DEF IInv, Typed, Recorded
  <2>3. ~pending
    BY <2>1 DEF IInv, Places, PendingRevs
  <2>4. epd \notin {"render", "publish", "finish"}
    BY <2>1 DEF IInv, Engaged
  <2> QED BY <2>1, <2>2, <2>3, <2>4 DEF SleepFindsNoFrame
<1> QED BY <1>1, Invariance, PTL

\* A failed transfer is owed a full refresh by the UI's flag, a result, an intent or the
\* renderer until it is repaired (ui_refresh.cpp:1028).
THEOREM FailureIsOwed == Spec => []FailureOwesFullRefresh
<1>1. IInv => FailureOwesFullRefresh
  BY DEF IInv, Owed, OwedOnTheWay, Unseen, AnyFailed, FailureOwesFullRefresh
<1> QED BY <1>1, Invariance, PTL
================================================================================
