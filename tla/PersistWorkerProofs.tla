-------------------------- MODULE PersistWorkerProofs --------------------------
(***************************************************************************)
(* Proofs about the persist worker, for any kinds, any depth of the pool   *)
(* and any number of operations and resets.                                *)
(*                                                                         *)
(* None of the properties is inductive.  The invariant follows a command   *)
(* from hand to hand: each state of a slot names who holds it and what the *)
(* others know of its operation (Commands), and each step of the UI task   *)
(* and of the worker names the slot it is about (UiTask, WorkerTask).      *)
(***************************************************************************)
EXTENDS PersistWorker, FiniteSetTheorems, SequenceTheorems, TLAPS

Live(s) == slot[s].state # "free"
Published(k) == Box(k).pending \notin {0, Box(k).acked}
Waits(s) == \E i \in 1..Len(queue) : queue[i] = s
Publishing(s) == worker.pc \in {"publishing", "filled"} /\ worker.slot = s

SlotType == [state : {"free", "filling", "queued", "running", "resultPending"},
             kind : Kinds \cup {"none"}, op : 0..MaxOps, result : Outcomes]
WorkerType == [pc : {"idle", "running", "executed", "released", "publishing", "filled"},
               slot : 0..PoolDepth]
BoxType == [pending : 0..MaxOps, acked : 0..MaxOps, result : Outcomes, op : 0..MaxOps,
            slot : 0..PoolDepth]
UiType == [pc : {"idle", "reserved", "taking", "applying", "acking", "acked", "releasing"},
           kind : Kinds \cup {"none"}, slot : 0..PoolDepth, op : 0..MaxOps, gen : 0..MaxOps,
           result : Outcomes]
PageType == [state : {"quiet", "armed", "persisting"}, op : 0..MaxOps]

Typed ==
    /\ slot \in [Slots -> SlotType]
    /\ leased \subseteq Slots
    /\ gate \in {"open", "idle", "emergency"}
    /\ queue \in Seq(Slots) /\ Len(queue) <= PoolDepth
    /\ worker \in WorkerType
    /\ busy \in [Kinds -> BOOLEAN]
    /\ mailbox \in [Kinds -> BoxType]
    /\ ui \in UiType
    /\ page \in [Kinds -> PageType]
    /\ ops \in 0..MaxOps /\ published \in 0..MaxOps
    /\ visit \in [Kinds -> Nat] /\ asked \in [Ops -> Nat]
    /\ fate \in [Ops -> Outcomes \cup {"none", "pending", "cancelled", "dropped", "lost"}]
    /\ outcome \in [Ops -> Outcomes \cup {"none"}]

\* A command per kind, and an operation per command.
OneEach ==
    \A s, t \in Slots :
        Live(s) /\ Live(t) /\ (slot[s].kind = slot[t].kind \/ slot[s].op = slot[t].op) => s = t

\* Who holds a command, from the state of its slot.
Command(s) ==
    LET op == slot[s].op
        box == mailbox[slot[s].kind]
    IN  /\ Live(s) => slot[s].kind \in Kinds /\ op \in 1..ops /\ busy[slot[s].kind]
        /\ Live(s) /\ ~(ui.pc = "acking" /\ ui.op = op) => fate[op] = "pending"
        /\ slot[s].state = "filling" =>
              /\ ui.pc = "reserved" /\ ui.slot = s /\ ui.kind = slot[s].kind /\ ui.op = op
              /\ s \in leased /\ outcome[op] = "none"
        /\ slot[s].state = "queued" => Waits(s) /\ s \in leased /\ outcome[op] = "none"
        /\ slot[s].state = "running" =>
              /\ worker.slot = s /\ worker.pc \in {"running", "executed", "released"}
              /\ worker.pc # "released" => s \in leased
              /\ outcome[op] = IF worker.pc = "running" THEN "none" ELSE slot[s].result
        /\ slot[s].state = "resultPending" =>
              /\ outcome[op] = slot[s].result
              /\ Publishing(s) => ~Published(slot[s].kind)
              /\ ~Publishing(s) => Published(slot[s].kind)
              /\ ~Publishing(s) \/ worker.pc = "filled" =>
                    box.slot = s /\ box.op = op /\ box.result = slot[s].result

Commands == \A s \in Slots : Command(s)

QueueHolds ==
    /\ \A i \in 1..Len(queue) : slot[queue[i]].state = "queued"
    /\ \A i, j \in 1..Len(queue) : queue[i] = queue[j] => i = j

LeasesHeld ==
    /\ \A s \in leased : slot[s].state \in {"filling", "queued", "running"}
    /\ worker.pc = "released" => worker.slot \notin leased
    /\ gate = "idle" => leased = {}

\* A mailbox is full from its generation to the acknowledgement of it.
Boxes ==
    \A k \in Kinds :
        /\ Box(k).pending <= published /\ Box(k).acked <= published
        /\ Published(k) =>
              \/ ui.pc = "acked" /\ ui.kind = k
              \/ /\ Box(k).slot \in Slots /\ slot[Box(k).slot].state = "resultPending"
                 /\ slot[Box(k).slot].kind = k /\ ~Publishing(Box(k).slot)

Idle(k) == \A s \in Slots : Live(s) => slot[s].kind # k

UiTask ==
    /\ ui.pc # "idle" => ui.kind \in Kinds
    /\ ui.pc = "reserved" =>
          /\ ui.slot \in Slots /\ slot[ui.slot].state = "filling"
          /\ page[ui.kind].state = "armed" /\ asked[ui.op] = visit[ui.kind]
    /\ ui.pc \in {"taking", "applying", "acking", "acked"} =>
          Published(ui.kind) /\ ui.gen = Box(ui.kind).pending
    /\ ui.pc \in {"applying", "acking"} =>
          ui.op = Box(ui.kind).op /\ ui.result = Box(ui.kind).result
    /\ ui.pc = "acking" => fate[ui.op] # "pending"
    /\ ui.pc \in {"acked", "releasing"} => busy[ui.kind] /\ Idle(ui.kind)
    /\ ui.pc = "releasing" => ~Published(ui.kind)
    /\ \A k \in Kinds :
          busy[k] => ~Idle(k) \/ (ui.pc \in {"acked", "releasing"} /\ ui.kind = k)

WorkerTask ==
    /\ worker.pc # "idle" => worker.slot \in Slots
    /\ worker.pc \in {"running", "executed", "released"} => slot[worker.slot].state = "running"
    /\ worker.pc \in {"publishing", "filled"} => slot[worker.slot].state = "resultPending"

\* What a page awaits was asked for in this visit and is still on its way.
Pages ==
    \A k \in Kinds :
        /\ page[k].state # "persisting" => page[k].op = 0
        /\ page[k].state = "persisting" =>
              /\ \E s \in Slots : Live(s) /\ slot[s].kind = k /\ slot[s].op = page[k].op
              /\ fate[page[k].op] = "pending" /\ asked[page[k].op] = visit[k]

\* Operations are new when they are reserved, and no more results are published
\* than writes have ended.
Written == {o \in Ops : outcome[o] # "none"}
InHand == IF worker.pc \in {"executed", "released", "publishing", "filled"} THEN 1 ELSE 0

Counted ==
    /\ \A o \in Ops : o > ops => fate[o] = "none" /\ outcome[o] = "none"
    /\ \A o \in Ops : fate[o] = "cancelled" => outcome[o] = "none"
    /\ published + InHand <= Cardinality(Written)

IInv ==
    /\ Typed /\ OneEach /\ Commands /\ QueueHolds /\ LeasesHeld /\ Boxes /\ UiTask /\ WorkerTask
    /\ Pages /\ Counted

--------------------------------------------------------------------------------
\* The bounds are numbers.
LEMMA Bounds == MaxOps \in Nat /\ MaxResets \in Nat /\ PoolDepth \in Nat /\ PoolDepth >= 1
BY BoundAssumption, PoolAssumption

\* The invariant's types give those of the model.
LEMMA Types ==
    ASSUME Typed
    PROVE  TypeOK
<1>1. slot \in [Slots -> SlotType] /\ worker \in WorkerType /\ mailbox \in [Kinds -> BoxType]
  BY DEF Typed
<1>2. worker.slot \in 0..PoolDepth
  BY <1>1 DEF WorkerType
<1>3. \A k \in Kinds : Box(k).pending \in 0..MaxOps /\ Box(k).op \in 0..MaxOps
  BY <1>1 DEF BoxType, Box
<1> QED BY <1>1, <1>2, <1>3 DEF Typed, TypeOK, SlotType

\* What is queued are slots.
LEMMA QueueOfSlots ==
    ASSUME IInv
    PROVE  /\ queue \in Seq(Slots) /\ Len(queue) \in Nat
           /\ \A i \in 1..Len(queue) : queue[i] \in Slots
BY DEF IInv, Typed

\* Leases are of slots.
LEMMA LeasedSlots ==
    ASSUME IInv
    PROVE  leased \subseteq Slots
BY DEF IInv, Typed

\* The generations of a mailbox are numbers.
LEMMA BoxNumbers ==
    ASSUME IInv
    PROVE  \A k \in Kinds : mailbox[k].pending \in Nat /\ mailbox[k].acked \in Nat
<1>1. \A k \in Kinds : mailbox[k] \in BoxType
  BY DEF IInv, Typed
<1> QED BY <1>1, Bounds DEF BoxType

\* Live commands are of a kind and of an operation that was reserved.
LEMMA LiveCommands ==
    ASSUME IInv
    PROVE  \A t \in Slots : Live(t) =>
              /\ slot[t].kind \in Kinds /\ busy[slot[t].kind]
              /\ slot[t].op \in Ops /\ ~(slot[t].op > ops)
<1> SUFFICES ASSUME NEW t \in Slots, Live(t)
             PROVE  /\ slot[t].kind \in Kinds /\ busy[slot[t].kind]
                    /\ slot[t].op \in Ops /\ ~(slot[t].op > ops)
  OBVIOUS
<1>1. slot[t].kind \in Kinds /\ slot[t].op \in 1..ops /\ busy[slot[t].kind]
  BY DEF IInv, Commands, Command
<1>2. ops \in 0..MaxOps
  BY DEF IInv, Typed
<1> QED BY <1>1, <1>2, Bounds DEF Ops

\* The worker's command.
LEMMA WorkersCommand ==
    ASSUME IInv, worker.pc # "idle"
    PROVE  \E r \in Slots, k \in Kinds, o \in Ops :
              /\ worker.slot = r /\ slot[r].kind = k /\ slot[r].op = o /\ busy[k] /\ ~(o > ops)
              /\ ~(o > ops)
              /\ worker.pc \in {"running", "executed", "released"} => slot[r].state = "running"
              /\ worker.pc \in {"publishing", "filled"} => slot[r].state = "resultPending"
<1> USE DEF IInv
<1>1. PICK r \in Slots : worker.slot = r
  BY DEF WorkerTask
<1>2. worker.pc \in {"running", "executed", "released", "publishing", "filled"}
  BY DEF Typed, WorkerType
<1>3. /\ worker.pc \in {"running", "executed", "released"} => slot[r].state = "running"
      /\ worker.pc \in {"publishing", "filled"} => slot[r].state = "resultPending"
      /\ Live(r)
  BY <1>1, <1>2 DEF WorkerTask, Live
<1> QED BY <1>1, <1>3, LiveCommands

\* The command of the result the UI task holds.
LEMMA UisCommand ==
    ASSUME IInv, ui.pc \in {"taking", "applying", "acking"}
    PROVE  \E r \in Slots, k \in Kinds, o \in Ops :
              /\ ui.kind = k /\ Box(k).slot = r /\ Box(k).op = o /\ Published(k)
              /\ ui.gen = Box(k).pending /\ ~Publishing(r)
              /\ slot[r].state = "resultPending" /\ slot[r].kind = k /\ slot[r].op = o
              /\ Box(k).result = slot[r].result /\ outcome[o] = slot[r].result
              /\ fate[o] = "pending" <=> ui.pc # "acking"
              /\ ui.pc # "taking" => ui.op = o /\ ui.result = slot[r].result
<1> USE DEF IInv
<1>1. PICK k \in Kinds : ui.kind = k /\ Published(k) /\ ui.gen = Box(k).pending
  BY DEF UiTask
<1>2. PICK r \in Slots : /\ Box(k).slot = r /\ slot[r].state = "resultPending"
                         /\ slot[r].kind = k /\ ~Publishing(r)
  BY <1>1 DEF Boxes
<1>3. /\ Box(k).op = slot[r].op /\ Box(k).result = slot[r].result
      /\ outcome[slot[r].op] = slot[r].result
      /\ ui.pc # "acking" => fate[slot[r].op] = "pending"
  BY <1>2 DEF Commands, Command, Live, Box
<1>4. slot[r].op \in Ops
  BY <1>2, LiveCommands DEF Live
<1>5. /\ ui.pc # "taking" => ui.op = Box(k).op /\ ui.result = Box(k).result
      /\ ui.pc = "acking" => fate[ui.op] # "pending"
  BY <1>1 DEF UiTask
<1> QED BY <1>1, <1>2, <1>3, <1>4, <1>5

\* Fewer commands are queued than there are slots, when one of them is not queued.
LEMMA QueueFits ==
    ASSUME IInv, NEW s \in Slots, ~Waits(s)
    PROVE  Len(queue) < PoolDepth
<1> DEFINE f == [i \in 1..Len(queue) |-> queue[i]]
<1>1. f \in [1..Len(queue) -> Slots \ {s}] /\ \A i, j \in 1..Len(queue) : f[i] = f[j] => i = j
  BY QueueOfSlots DEF QueueHolds, IInv, Waits
<1>2. /\ IsFiniteSet(1..PoolDepth) /\ Cardinality(1..PoolDepth) = PoolDepth
      /\ IsFiniteSet(1..Len(queue)) /\ Cardinality(1..Len(queue)) = Len(queue)
  <2>1. \A n \in Nat : IsFiniteSet(1..n) /\ Cardinality(1..n) = n
    BY FS_Interval
  <2> QED BY <2>1, QueueOfSlots, Bounds
<1>3. IsFiniteSet(Slots \ {s}) /\ Cardinality(Slots \ {s}) = PoolDepth - 1
  BY <1>2, FS_RemoveElement DEF Slots
<1> HIDE DEF f
<1>4. ~ Cardinality(Slots \ {s}) < Cardinality(1..Len(queue))
  BY <1>1, <1>2, <1>3, FS_PigeonHole
<1> QED BY <1>2, <1>3, <1>4, QueueOfSlots, Bounds

\* What a page does keeps the invariant.
LEMMA PageSteps ==
    ASSUME IInv, NEW k \in Kinds, Confirm(k) \/ ResetPage(k)
    PROVE  IInv'
<1> USE DEF IInv
<1>1. CASE Confirm(k)
  <2>1. ui.pc = "idle" /\ page[k].state = "quiet" /\ page[k].op = 0
    BY <1>1 DEF Confirm, Pages
  <2>2. page' = [page EXCEPT ![k] = [@ EXCEPT !.state = "armed"]]
    BY <1>1 DEF Confirm
  <2>3. /\ UNCHANGED <<slot, leased, gate, queue, worker, busy, mailbox, ops,
                   published, ui, visit, asked, outcome, fate>>
    BY <1>1 DEF Confirm, poolVars
  <2>4. /\ page' \in [Kinds -> PageType] /\ \A j \in Kinds \ {k} : page'[j] = page[j]
        /\ page'[k] = [state |-> "armed", op |-> 0]
    BY <2>1, <2>2, Bounds DEF Typed, PageType
  <2>5. Typed'
    BY <2>1, <2>3, <2>4 DEF Typed
  <2>6. OneEach'
    BY <2>1, <2>3, <2>4 DEF OneEach, Live
  <2>7. Commands'
    BY <2>1, <2>3, <2>4 DEF Commands, Command, Live, Publishing, Published, Waits, Box
  <2>8. QueueHolds'
    BY <2>1, <2>3, <2>4, QueueOfSlots DEF QueueHolds
  <2>9. LeasesHeld'
    BY <2>1, <2>3, <2>4, LeasedSlots DEF LeasesHeld
  <2>10. Boxes'
    BY <2>1, <2>3, <2>4 DEF Boxes, Publishing, Published, Box
  <2>11. UiTask'
    BY <2>1, <2>3, <2>4 DEF UiTask, Idle, Live, Published, Box
  <2>12. WorkerTask'
    BY <2>1, <2>3, <2>4 DEF WorkerTask
  <2>13. Pages'
    BY <2>1, <2>3, <2>4 DEF Pages, Live
  <2>14. Counted'
    BY <2>1, <2>3, <2>4 DEF Counted, Written, InHand
  <2> QED BY <2>5, <2>6, <2>7, <2>8, <2>9, <2>10, <2>11, <2>12, <2>13, <2>14
<1>2. CASE ResetPage(k)
  <2>1. ui.pc = "idle"
    BY <1>2 DEF ResetPage
  <2>2. page' = [page EXCEPT ![k] = Quiet] /\ visit' = [visit EXCEPT ![k] = @ + 1]
    BY <1>2 DEF ResetPage
  <2>3. /\ UNCHANGED <<slot, leased, gate, queue, worker, busy, mailbox, ops,
                   published, ui, asked, outcome, fate>>
    BY <1>2 DEF ResetPage, poolVars
  <2>4. /\ page' \in [Kinds -> PageType] /\ \A j \in Kinds \ {k} : page'[j] = page[j]
        /\ page'[k] = [state |-> "quiet", op |-> 0]
    BY <2>2, Bounds DEF Typed, PageType, Quiet
  <2>5. visit' \in [Kinds -> Nat] /\ \A j \in Kinds \ {k} : visit'[j] = visit[j]
    BY <2>2 DEF Typed
  <2>6. Typed'
    BY <2>1, <2>3, <2>4, <2>5 DEF Typed
  <2>7. OneEach'
    BY <2>1, <2>3, <2>4, <2>5 DEF OneEach, Live
  <2>8. Commands'
    BY <2>1, <2>3, <2>4, <2>5 DEF Commands, Command, Live, Publishing, Published, Waits, Box
  <2>9. QueueHolds'
    BY <2>1, <2>3, <2>4, <2>5, QueueOfSlots DEF QueueHolds
  <2>10. LeasesHeld'
    BY <2>1, <2>3, <2>4, <2>5, LeasedSlots DEF LeasesHeld
  <2>11. Boxes'
    BY <2>1, <2>3, <2>4, <2>5 DEF Boxes, Publishing, Published, Box
  <2>12. UiTask'
    BY <2>1, <2>3, <2>4, <2>5 DEF UiTask, Idle, Live, Published, Box
  <2>13. WorkerTask'
    BY <2>1, <2>3, <2>4, <2>5 DEF WorkerTask
  <2>14. Pages'
    BY <2>1, <2>3, <2>4, <2>5 DEF Pages, Live
  <2>15. Counted'
    BY <2>1, <2>3, <2>4, <2>5 DEF Counted, Written, InHand
  <2> QED BY <2>6, <2>7, <2>8, <2>9, <2>10, <2>11, <2>12, <2>13, <2>14, <2>15
<1> QED BY <1>1, <1>2

\* A reservation keeps the invariant.
LEMMA ReserveStep ==
    ASSUME IInv, NEW k \in Kinds, Reserve(k)
    PROVE  IInv'
<1> USE DEF IInv
<1>1. PICK s \in Slots :
        /\ ui.pc = "idle" /\ page[k].state = "armed" /\ ~busy[k] /\ ops < MaxOps
        /\ slot[s].state = "free" /\ gate = "open"
        /\ slot' = [slot EXCEPT ![s] = [state |-> "filling", kind |-> k, op |-> ops + 1,
                                        result |-> "failed"]]
        /\ leased' = leased \cup {s}
        /\ ui' = [UiIdle EXCEPT !.pc = "reserved", !.kind = k, !.slot = s, !.op = ops + 1]
        /\ busy' = [busy EXCEPT ![k] = TRUE] /\ ops' = ops + 1
        /\ fate' = [fate EXCEPT ![ops + 1] = "pending"]
        /\ asked' = [asked EXCEPT ![ops + 1] = visit[k]]
        /\ UNCHANGED <<gate, queue, worker, mailbox, published, page, visit, outcome>>
  BY DEF Reserve, FreeSlots
<1>2. PICK o \in Ops : o = ops + 1 /\ ops \in 0..MaxOps /\ o \in Nat
  BY <1>1, Bounds DEF Typed, Ops
<1>3. /\ ui.pc = "idle" /\ page[k].state = "armed" /\ ~busy[k] /\ slot[s].state = "free"
      /\ gate = "open" /\ leased' = leased \cup {s} /\ ops' = o
      /\ UNCHANGED <<gate, queue, worker, mailbox, published, page, visit, outcome>>
  BY <1>1, <1>2
<1>4. /\ slot' \in [Slots -> SlotType] /\ \A t \in Slots \ {s} : slot'[t] = slot[t]
   /\ slot'[s] = [state |-> "filling", kind |-> k, op |-> o, result |-> "failed"]
  BY <1>1, <1>2, Bounds DEF Typed, SlotType, Outcomes, Ops
<1>5. /\ ui' = [pc |-> "reserved", kind |-> k, slot |-> s, op |-> o, gen |-> 0,
               result |-> "failed"]
      /\ ui' \in UiType
  <2>1. ui' = [pc |-> "reserved", kind |-> k, slot |-> s, op |-> o, gen |-> 0,
               result |-> "failed"]
    BY <1>1, <1>2 DEF UiIdle
  <2>2. o \in 0..MaxOps /\ s \in 0..PoolDepth /\ 0 \in 0..MaxOps
    BY Bounds DEF Ops, Slots
  <2> QED BY <2>1, <2>2 DEF UiType, Outcomes
<1>6. /\ busy' \in [Kinds -> BOOLEAN] /\ \A j \in Kinds \ {k} : busy'[j] = busy[j]
      /\ busy'[k] = TRUE
  BY <1>1 DEF Typed
<1>7. /\ fate' \in [Ops -> Outcomes \cup {"none", "pending", "cancelled", "dropped", "lost"}]
      /\ \A p \in Ops \ {o} : fate'[p] = fate[p]
      /\ fate'[o] = "pending"
  BY <1>1, <1>2 DEF Typed
<1>8. /\ asked' \in [Ops -> Nat] /\ \A p \in Ops \ {o} : asked'[p] = asked[p]
      /\ asked'[o] = visit[k]
  BY <1>1, <1>2 DEF Typed
<1>9. /\ \A t \in Slots : Live(t) => slot[t].kind # k /\ slot[t].op # o /\ slot[t].op \in Ops
      /\ fate[o] = "none" /\ outcome[o] = "none"
  BY <1>2, <1>3, Bounds DEF Commands, Command, Counted, Ops
<1>10. Typed'
  BY <1>2, <1>3, <1>4, <1>5, <1>6, <1>7, <1>8, <1>9, Bounds DEF Typed, Ops
<1>11. OneEach'
  BY <1>2, <1>3, <1>4, <1>5, <1>6, <1>7, <1>8, <1>9 DEF OneEach, Live
<1>12. Commands'
  <2> SUFFICES ASSUME NEW t \in Slots PROVE Command(t)'
    BY DEF Commands
  <2>1. /\ Command(t)
        /\ Live(t) => slot[t].kind \in Kinds /\ slot[t].op \in Ops
        /\ Live(t) /\ Live(s) /\ t # s => slot[t].kind # slot[s].kind /\ slot[t].op # slot[s].op
    BY LiveCommands DEF Commands, OneEach
  <2>2. CASE t = s
    BY <2>1, <2>2, <1>2, <1>3, <1>4, <1>5, <1>6, <1>7, <1>8, <1>9 DEF Command, Live,
       Publishing, Published, Waits, Box
  <2>3. CASE t # s
    BY <2>1, <2>3, <1>2, <1>3, <1>4, <1>5, <1>6, <1>7, <1>8, <1>9 DEF Command, Live,
       Publishing, Published, Waits, Box
  <2> QED BY <2>2, <2>3
<1>13. QueueHolds'
  BY <1>2, <1>3, <1>4, <1>5, <1>6, <1>7, <1>8, <1>9, QueueOfSlots DEF QueueHolds
<1>14. LeasesHeld'
  BY <1>2, <1>3, <1>4, <1>5, <1>6, <1>7, <1>8, <1>9, LeasedSlots DEF LeasesHeld,
     WorkerTask
<1>15. Boxes'
  BY <1>2, <1>3, <1>4, <1>5, <1>6, <1>7, <1>8, <1>9 DEF Boxes, Publishing, Published, Box
<1>16. UiTask'
  BY <1>2, <1>3, <1>4, <1>5, <1>6, <1>7, <1>8, <1>9 DEF UiTask, Idle, Live, Published, Box
<1>17. WorkerTask'
  BY <1>2, <1>3, <1>4, <1>5, <1>6, <1>7, <1>8, <1>9 DEF WorkerTask
<1>18. Pages'
  <2> SUFFICES ASSUME NEW j \in Kinds, page[j].state = "persisting"
               PROVE  /\ \E t \in Slots : /\ slot'[t].state # "free" /\ slot'[t].kind = j
                                        /\ slot'[t].op = page[j].op
                      /\ fate'[page[j].op] = "pending" /\ asked'[page[j].op] = visit[j]
    BY <1>2, <1>3, <1>4, <1>5, <1>6, <1>7, <1>8, <1>9 DEF Pages, Live
  <2>1. /\ \E t \in Slots : Live(t) /\ slot[t].kind = j /\ slot[t].op = page[j].op
        /\ fate[page[j].op] = "pending" /\ asked[page[j].op] = visit[j]
    BY DEF Pages
  <2>2. PICK t \in Slots : /\ Live(t) /\ slot[t].kind = j /\ slot[t].op = page[j].op
                          /\ slot[t].op \in Ops
    BY <2>1, LiveCommands
  <2>3. slot[t].op # o
    BY <2>1, <2>2, <1>2, <1>3, <1>4, <1>5, <1>6, <1>7, <1>8, <1>9
  <2>4. t # s
    BY <2>2, <1>3 DEF Live
  <2>5. slot'[t] = slot[t] /\ fate'[slot[t].op] = fate[slot[t].op]
    BY <2>2, <2>3, <2>4, <1>4, <1>7
  <2>6. asked'[slot[t].op] = asked[slot[t].op]
    BY <2>2, <2>3, <1>8
  <2> QED BY <2>1, <2>2, <2>5, <2>6 DEF Live
<1>19. Counted'
  BY <1>2, <1>3, <1>4, <1>5, <1>6, <1>7, <1>8, <1>9 DEF Counted, Written, InHand
<1> QED BY <1>10, <1>11, <1>12, <1>13, <1>14, <1>15, <1>16, <1>17, <1>18, <1>19

\* The command of a reservation.
LEMMA ReservedCommand ==
    ASSUME IInv, ui.pc = "reserved"
    PROVE  \E s \in Slots, k \in Kinds, o \in Ops :
              /\ ui.slot = s /\ ui.kind = k /\ ui.op = o /\ ~(o > ops)
              /\ slot[s].state = "filling" /\ slot[s].kind = k /\ slot[s].op = o
              /\ page[k].state = "armed" /\ asked[o] = visit[k]
              /\ fate[o] = "pending" /\ outcome[o] = "none" /\ s \in leased
<1> USE DEF IInv
<1>1. PICK s \in Slots, k \in Kinds :
        /\ ui.slot = s /\ ui.kind = k /\ slot[s].state = "filling"
        /\ page[k].state = "armed" /\ asked[ui.op] = visit[k]
  BY DEF UiTask
<1>2. /\ slot[s].kind = k /\ slot[s].op = ui.op
      /\ fate[ui.op] = "pending" /\ outcome[ui.op] = "none" /\ s \in leased
  BY <1>1 DEF Commands, Command, Live
<1>3. ui.op \in Ops /\ ~(ui.op > ops)
  BY <1>1, <1>2, LiveCommands DEF Live
<1> QED BY <1>1, <1>2, <1>3

\* A cancelled reservation keeps it.
LEMMA CancelStep ==
    ASSUME IInv, CancelPersistReservation
    PROVE  IInv'
<1> USE DEF IInv
<1>1. PICK s \in Slots, k \in Kinds, o \in Ops :
        /\ ui.pc = "reserved" /\ ui.slot = s /\ ui.kind = k /\ ui.op = o /\ ~(o > ops)
        /\ slot[s].state = "filling" /\ slot[s].kind = k /\ slot[s].op = o
        /\ page[k].state = "armed" /\ outcome[o] = "none"
  BY ReservedCommand DEF CancelPersistReservation, Reserved
<1>2. /\ slot' = [slot EXCEPT ![s] = [@ EXCEPT !.state = "free"]]
      /\ busy' = [busy EXCEPT ![k] = FALSE] /\ page' = [page EXCEPT ![k] = Quiet]
      /\ fate' = [fate EXCEPT ![o] = "cancelled"]
  BY <1>1 DEF CancelPersistReservation
<1>3. /\ leased' = leased \ {s}
      /\ UNCHANGED <<gate, queue, worker, mailbox, ops, published, visit, asked, outcome>>
  BY <1>1 DEF CancelPersistReservation
<1>4. /\ slot' \in [Slots -> SlotType] /\ \A t \in Slots \ {s} : slot'[t] = slot[t]
      /\ slot'[s] = [state |-> "free", kind |-> k, op |-> o, result |-> slot[s].result]
  BY <1>1, <1>2 DEF Typed, SlotType
<1>5. /\ ui' = [pc |-> "idle", kind |-> "none", slot |-> 0, op |-> 0, gen |-> 0,
                result |-> "failed"]
      /\ ui' \in UiType
  BY <1>1, Bounds DEF CancelPersistReservation, UiIdle, UiType, Outcomes
<1>6. /\ busy' \in [Kinds -> BOOLEAN] /\ \A j \in Kinds \ {k} : busy'[j] = busy[j]
      /\ busy'[k] = FALSE
  BY <1>2 DEF Typed
<1>7. /\ page' \in [Kinds -> PageType] /\ \A j \in Kinds \ {k} : page'[j] = page[j]
      /\ page'[k] = [state |-> "quiet", op |-> 0]
  BY <1>2, Bounds DEF Typed, PageType, Quiet
<1>8. /\ fate' \in [Ops -> Outcomes \cup {"none", "pending", "cancelled", "dropped", "lost"}]
      /\ \A p \in Ops \ {o} : fate'[p] = fate[p]
      /\ fate'[o] = "cancelled"
  BY <1>2 DEF Typed
<1>9. Typed'
  BY <1>1, <1>3, <1>4, <1>5, <1>6, <1>7, <1>8 DEF Typed
<1>10. OneEach'
  BY <1>1, <1>3, <1>4, <1>5, <1>6, <1>7, <1>8 DEF OneEach, Live
<1>11. Commands'
  <2> SUFFICES ASSUME NEW t \in Slots PROVE Command(t)'
    BY DEF Commands
  <2>1. /\ Command(t)
        /\ Live(t) => slot[t].kind \in Kinds /\ slot[t].op \in Ops
        /\ Live(t) /\ Live(s) /\ t # s => slot[t].kind # slot[s].kind /\ slot[t].op # slot[s].op
    BY LiveCommands DEF Commands, OneEach
  <2>2. CASE t = s
    BY <2>1, <2>2, <1>1, <1>3, <1>4, <1>5, <1>6, <1>7, <1>8 DEF Command, Live, Publishing,
       Published, Waits, Box
  <2>3. CASE t # s
    BY <2>1, <2>3, <1>1, <1>3, <1>4, <1>5, <1>6, <1>7, <1>8 DEF Command, Live, Publishing,
       Published, Waits, Box
  <2> QED BY <2>2, <2>3
<1>12. QueueHolds'
  BY <1>1, <1>3, <1>4, <1>5, <1>6, <1>7, <1>8, QueueOfSlots DEF QueueHolds
<1>13. LeasesHeld'
  BY <1>1, <1>3, <1>4, <1>5, <1>6, <1>7, <1>8, LeasedSlots DEF LeasesHeld
<1>14. Boxes'
  BY <1>1, <1>3, <1>4, <1>5, <1>6, <1>7, <1>8 DEF Boxes, Publishing, Published, Box
<1>15. UiTask'
  BY <1>1, <1>3, <1>4, <1>5, <1>6, <1>7, <1>8 DEF UiTask, Idle, Live, Published, Box
<1>16. WorkerTask'
  BY <1>1, <1>3, <1>4, <1>5, <1>6, <1>7, <1>8 DEF WorkerTask
<1>17. Pages'
  <2> SUFFICES ASSUME NEW j \in Kinds \ {k}, page[j].state = "persisting"
               PROVE  /\ \E t \in Slots : /\ slot'[t].state # "free" /\ slot'[t].kind = j
                                        /\ slot'[t].op = page[j].op
                      /\ fate'[page[j].op] = "pending" /\ asked[page[j].op] = visit[j]
    BY <1>1, <1>3, <1>4, <1>5, <1>6, <1>7, <1>8 DEF Pages, Live
  <2>1. /\ \E t \in Slots : Live(t) /\ slot[t].kind = j /\ slot[t].op = page[j].op
        /\ fate[page[j].op] = "pending" /\ asked[page[j].op] = visit[j]
    BY DEF Pages
  <2>2. PICK t \in Slots : /\ Live(t) /\ slot[t].kind = j /\ slot[t].op = page[j].op
                          /\ slot[t].op \in Ops
    BY <2>1, LiveCommands
  <2>3. slot[t].op # o
    BY <2>1, <2>2, <1>1, <1>3, <1>4, <1>5, <1>6, <1>7, <1>8 DEF OneEach, Live
  <2> QED BY <2>1, <2>2, <2>3, <1>1, <1>3, <1>4, <1>5, <1>6, <1>7, <1>8 DEF Live
<1>18. Counted'
  BY <1>1, <1>3, <1>4, <1>5, <1>6, <1>7, <1>8 DEF Counted, Written, InHand
<1> QED BY <1>9, <1>10, <1>11, <1>12, <1>13, <1>14, <1>15, <1>16, <1>17, <1>18

\* A reservation that is enqueued keeps it.
LEMMA EnqueueStep ==
    ASSUME IInv, EnqueueReserved
    PROVE  IInv'
<1> USE DEF IInv
<1>1. PICK s \in Slots, k \in Kinds, o \in Ops :
        /\ ui.pc = "reserved" /\ ui.slot = s /\ ui.kind = k /\ ui.op = o /\ ~(o > ops)
        /\ slot[s].state = "filling" /\ slot[s].kind = k /\ slot[s].op = o
        /\ page[k].state = "armed" /\ asked[o] = visit[k] /\ fate[o] = "pending"
  BY ReservedCommand DEF EnqueueReserved, Reserved
<1>2. /\ slot' = [slot EXCEPT ![s] = [@ EXCEPT !.state = "queued"]] /\ queue' = Append(queue, s)
      /\ page' = [page EXCEPT ![k] = [state |-> "persisting", op |-> o]]
  BY <1>1 DEF EnqueueReserved
<1>3. /\ UNCHANGED <<leased, gate, worker, busy, mailbox, ops, published, visit, asked, outcome,
                     fate>>
  BY DEF EnqueueReserved
<1>4. /\ slot' \in [Slots -> SlotType] /\ \A t \in Slots \ {s} : slot'[t] = slot[t]
      /\ slot'[s] = [state |-> "queued", kind |-> k, op |-> o, result |-> slot[s].result]
  BY <1>1, <1>2 DEF Typed, SlotType
<1>5. /\ ui' = [pc |-> "idle", kind |-> "none", slot |-> 0, op |-> 0, gen |-> 0,
                result |-> "failed"]
      /\ ui' \in UiType
  BY Bounds DEF EnqueueReserved, UiIdle, UiType, Outcomes
<1>6. /\ page' \in [Kinds -> PageType] /\ \A j \in Kinds \ {k} : page'[j] = page[j]
      /\ page'[k] = [state |-> "persisting", op |-> o]
  BY <1>2, Bounds DEF Typed, PageType, Ops
<1>7. Len(queue) < PoolDepth /\ \A i \in 1..Len(queue) : queue[i] \in Slots /\ queue[i] # s
  BY <1>1, QueueFits, QueueOfSlots DEF QueueHolds, Waits
<1>8. /\ queue' \in Seq(Slots) /\ Len(queue') = Len(queue) + 1 /\ Len(queue) \in Nat
      /\ \A i \in 1..Len(queue) : queue'[i] = queue[i]
      /\ queue'[Len(queue) + 1] = s
  BY <1>2, QueueOfSlots, AppendProperties
<1>9. Typed'
  BY <1>1, <1>3, <1>4, <1>5, <1>6, <1>7, <1>8, Bounds DEF Typed
<1>10. OneEach'
  BY <1>1, <1>3, <1>4, <1>5, <1>6, <1>7, <1>8 DEF OneEach, Live
<1>11. Commands'
  <2> SUFFICES ASSUME NEW t \in Slots PROVE Command(t)'
    BY DEF Commands
  <2>1. /\ Command(t)
        /\ Live(t) => slot[t].kind \in Kinds /\ slot[t].op \in Ops
        /\ Live(t) /\ Live(s) /\ t # s => slot[t].kind # slot[s].kind /\ slot[t].op # slot[s].op
    BY LiveCommands DEF Commands, OneEach
  <2>2. CASE t = s
    BY <2>1, <2>2, <1>1, <1>3, <1>4, <1>5, <1>6, <1>7, <1>8 DEF Command, Live, Publishing,
       Published, Waits, Box
  <2>3. CASE t # s
    BY <2>1, <2>3, <1>1, <1>3, <1>4, <1>5, <1>6, <1>7, <1>8 DEF Command, Live, Publishing,
       Published, Waits, Box
  <2> QED BY <2>2, <2>3
<1>12. QueueHolds'
  <2>1. \A i \in 1..Len(queue') : i \in 1..Len(queue) \/ i = Len(queue) + 1
    BY <1>8
  <2>2. \A i \in 1..Len(queue) : slot'[queue'[i]].state = "queued" /\ queue'[i] # s
    BY <1>4, <1>7, <1>8 DEF QueueHolds
  <2>3. \A i, j \in 1..Len(queue') : queue'[i] = queue'[j] => i = j
    BY <2>1, <2>2, <1>8 DEF QueueHolds
  <2> QED BY <2>1, <2>2, <2>3, <1>4, <1>8 DEF QueueHolds
<1>13. LeasesHeld'
  BY <1>1, <1>3, <1>4, <1>5, <1>6, <1>7, <1>8, LeasedSlots DEF LeasesHeld
<1>14. Boxes'
  BY <1>1, <1>3, <1>4, <1>5, <1>6, <1>7, <1>8 DEF Boxes, Publishing, Published, Box
<1>15. UiTask'
  BY <1>1, <1>3, <1>4, <1>5, <1>6, <1>7, <1>8 DEF UiTask, Idle, Live, Published, Box
<1>16. WorkerTask'
  BY <1>1, <1>3, <1>4, <1>5, <1>6, <1>7, <1>8 DEF WorkerTask
<1>17. Pages'
  <2> SUFFICES ASSUME NEW j \in Kinds \ {k}, page[j].state = "persisting"
               PROVE  /\ \E t \in Slots : /\ slot'[t].state # "free" /\ slot'[t].kind = j
                                        /\ slot'[t].op = page[j].op
                      /\ fate'[page[j].op] = "pending" /\ asked[page[j].op] = visit[j]
    BY <1>1, <1>3, <1>4, <1>5, <1>6, <1>7, <1>8 DEF Pages, Live
  <2>1. /\ \E t \in Slots : Live(t) /\ slot[t].kind = j /\ slot[t].op = page[j].op
        /\ fate[page[j].op] = "pending" /\ asked[page[j].op] = visit[j]
    BY DEF Pages
  <2>2. PICK t \in Slots : /\ Live(t) /\ slot[t].kind = j /\ slot[t].op = page[j].op
                          /\ slot[t].op \in Ops
    BY <2>1, LiveCommands
  <2>3. slot[t].op # o
    BY <2>1, <2>2, <1>1, <1>3, <1>4, <1>5, <1>6, <1>7, <1>8 DEF OneEach, Live
  <2> QED BY <2>1, <2>2, <2>3, <1>1, <1>3, <1>4, <1>5, <1>6, <1>7, <1>8 DEF Live
<1>18. Counted'
  BY <1>1, <1>3, <1>4, <1>5, <1>6, <1>7, <1>8 DEF Counted, Written, InHand
<1> QED BY <1>9, <1>10, <1>11, <1>12, <1>13, <1>14, <1>15, <1>16, <1>17, <1>18

\* Taking a result keeps it.
LEMMA TakeSteps ==
    ASSUME IInv, (\E k \in Kinds : TakeGeneration(k)) \/ TakeFields
    PROVE  IInv'
<1> USE DEF IInv
<1>1. CASE \E k \in Kinds : TakeGeneration(k)
  <2>1. PICK k \in Kinds : TakeGeneration(k)
    BY <1>1
  <2>2. ui.pc = "idle" /\ Published(k)
    BY <2>1 DEF TakeGeneration, Published
  <2>3. /\ UNCHANGED <<slot, leased, gate, queue, worker, busy, mailbox, ops,
                   published, page, visit, asked, outcome, fate>>
    BY <2>1 DEF TakeGeneration, poolVars
  <2>4. mailbox[k] \in BoxType
    BY DEF Typed
  <2>5. /\ ui' = [pc |-> "taking", kind |-> k, slot |-> 0, op |-> 0, gen |-> Box(k).pending,
                 result |-> "failed"]
        /\ ui' \in UiType
    <3>1. ui' = [pc |-> "taking", kind |-> k, slot |-> 0, op |-> 0, gen |-> Box(k).pending,
                 result |-> "failed"]
      BY <2>1 DEF TakeGeneration, UiIdle
    <3>2. Box(k).pending \in 0..MaxOps /\ 0 \in 0..MaxOps /\ 0 \in 0..PoolDepth
      BY <2>4, Bounds DEF BoxType, Box
    <3> QED BY <3>1, <3>2 DEF UiType, Outcomes
  <2>6. Typed'
    BY <2>2, <2>3, <2>5 DEF Typed
  <2>7. OneEach'
    BY <2>2, <2>3, <2>5 DEF OneEach, Live
  <2>8. Commands'
    BY <2>2, <2>3, <2>5 DEF Commands, Command, Live, Publishing, Published, Waits, Box
  <2>9. QueueHolds'
    BY <2>2, <2>3, <2>5, QueueOfSlots DEF QueueHolds
  <2>10. LeasesHeld'
    BY <2>2, <2>3, <2>5, LeasedSlots DEF LeasesHeld
  <2>11. Boxes'
    BY <2>2, <2>3, <2>5 DEF Boxes, Publishing, Published, Box
  <2>12. UiTask'
    BY <2>2, <2>3, <2>5 DEF UiTask, Idle, Live, Published, Box
  <2>13. WorkerTask'
    BY <2>2, <2>3, <2>5 DEF WorkerTask
  <2>14. Pages'
    BY <2>2, <2>3, <2>5 DEF Pages, Live
  <2>15. Counted'
    BY <2>2, <2>3, <2>5 DEF Counted, Written, InHand
  <2> QED BY <2>6, <2>7, <2>8, <2>9, <2>10, <2>11, <2>12, <2>13, <2>14, <2>15
<1>2. CASE TakeFields
  <2>1. ui.pc = "taking" /\ ui.kind \in Kinds
    BY <1>2 DEF TakeFields, UiTask
  <2>2. PICK k \in Kinds : ui.kind = k
    BY <2>1
  <2>3. /\ UNCHANGED <<slot, leased, gate, queue, worker, busy, mailbox, ops,
                   published, page, visit, asked, outcome, fate>>
    BY <1>2 DEF TakeFields, poolVars
  <2>4. mailbox[k] \in BoxType
    BY DEF Typed
  <2>5. /\ ui' = [pc |-> "applying", kind |-> k, slot |-> ui.slot, op |-> Box(k).op, gen |-> ui.gen,
               result |-> Box(k).result]
      /\ ui' \in UiType
    BY <1>2, <2>2, <2>4 DEF TakeFields, Typed, UiType, BoxType, Box
  <2>6. Typed'
    BY <2>1, <2>2, <2>3, <2>5 DEF Typed
  <2>7. OneEach'
    BY <2>1, <2>2, <2>3, <2>5 DEF OneEach, Live
  <2>8. Commands'
    BY <2>1, <2>2, <2>3, <2>5 DEF Commands, Command, Live, Publishing, Published, Waits, Box
  <2>9. QueueHolds'
    BY <2>1, <2>2, <2>3, <2>5, QueueOfSlots DEF QueueHolds
  <2>10. LeasesHeld'
    BY <2>1, <2>2, <2>3, <2>5, LeasedSlots DEF LeasesHeld
  <2>11. Boxes'
    BY <2>1, <2>2, <2>3, <2>5 DEF Boxes, Publishing, Published, Box
  <2>12. UiTask'
    BY <2>1, <2>2, <2>3, <2>5 DEF UiTask, Idle, Live, Published, Box
  <2>13. WorkerTask'
    BY <2>1, <2>2, <2>3, <2>5 DEF WorkerTask
  <2>14. Pages'
    BY <2>1, <2>2, <2>3, <2>5 DEF Pages, Live
  <2>15. Counted'
    BY <2>1, <2>2, <2>3, <2>5 DEF Counted, Written, InHand
  <2> QED BY <2>6, <2>7, <2>8, <2>9, <2>10, <2>11, <2>12, <2>13, <2>14, <2>15
<1> QED BY <1>1, <1>2

\* Applying a result keeps it.
LEMMA ApplyStep ==
    ASSUME IInv, ApplyResult
    PROVE  IInv'
<1> USE DEF IInv
<1>1. ui.pc = "applying"
  BY DEF ApplyResult
<1>2. PICK r \in Slots, k \in Kinds, o \in Ops :
        /\ ui.kind = k /\ Box(k).slot = r /\ Box(k).op = o /\ Published(k)
        /\ ui.gen = Box(k).pending /\ ~Publishing(r) /\ ui.op = o /\ ui.result = slot[r].result
        /\ slot[r].state = "resultPending" /\ slot[r].kind = k /\ slot[r].op = o
        /\ fate[o] = "pending" /\ outcome[o] = ui.result
  BY <1>1, UisCommand
<1>3. /\ UNCHANGED <<slot, leased, gate, queue, worker, busy, mailbox, ops,
                 published, visit, asked, outcome>>
  BY DEF ApplyResult, poolVars
<1>4. /\ ui' = [pc |-> "acking", kind |-> k, slot |-> ui.slot, op |-> o, gen |-> ui.gen,
               result |-> ui.result]
      /\ ui' \in UiType
  BY <1>2 DEF ApplyResult, Typed, UiType
<1>5. ui.result \in Outcomes
  BY DEF Typed, UiType
<1>6. /\ fate' \in [Ops -> Outcomes \cup {"none", "pending", "cancelled", "dropped", "lost"}]
      /\ \A p \in Ops \ {o} : fate'[p] = fate[p]
      /\ fate'[o] # "cancelled" /\ fate'[o] # "none" /\ fate'[o] # "pending"
  BY <1>2, <1>5 DEF ApplyResult, Typed, Outcomes
<1>7. /\ page' \in [Kinds -> PageType] /\ \A j \in Kinds \ {k} : page'[j] = page[j]
      /\ \/ page'[k] = [state |-> "quiet", op |-> 0]
         \/ page'[k] = page[k] /\ (page[k].state = "persisting" => page[k].op # o)
  <2>1. \/ page' = [page EXCEPT ![k] = [state |-> "quiet", op |-> 0]]
        \/ page' = page /\ ~Awaited(k, o)
    BY <1>2 DEF ApplyResult, Quiet
  <2>2. page \in [Kinds -> PageType] /\ [state |-> "quiet", op |-> 0] \in PageType
    BY Bounds DEF Typed, PageType
  <2> QED BY <2>1, <2>2 DEF Awaited
<1>8. Typed'
  BY <1>1, <1>2, <1>3, <1>4, <1>6, <1>7 DEF Typed
<1>9. OneEach'
  BY <1>1, <1>2, <1>3, <1>4, <1>6, <1>7 DEF OneEach, Live
<1>10. Commands'
  <2> SUFFICES ASSUME NEW t \in Slots PROVE Command(t)'
    BY DEF Commands
  <2>1. /\ Command(t)
        /\ Live(t) => slot[t].kind \in Kinds /\ slot[t].op \in Ops
        /\ Live(t) /\ Live(r) /\ t # r => slot[t].kind # slot[r].kind /\ slot[t].op # slot[r].op
    BY LiveCommands DEF Commands, OneEach
  <2>2. CASE t = r
    BY <2>1, <2>2, <1>1, <1>2, <1>3, <1>4, <1>6, <1>7 DEF Command, Live, Publishing,
       Published, Waits, Box
  <2>3. CASE t # r
    BY <2>1, <2>3, <1>1, <1>2, <1>3, <1>4, <1>6, <1>7 DEF Command, Live, Publishing,
       Published, Waits, Box
  <2> QED BY <2>2, <2>3
<1>11. QueueHolds'
  BY <1>1, <1>2, <1>3, <1>4, <1>6, <1>7, QueueOfSlots DEF QueueHolds
<1>12. LeasesHeld'
  BY <1>1, <1>2, <1>3, <1>4, <1>6, <1>7, LeasedSlots DEF LeasesHeld
<1>13. Boxes'
  BY <1>1, <1>2, <1>3, <1>4, <1>6, <1>7 DEF Boxes, Publishing, Published, Box
<1>14. UiTask'
  BY <1>1, <1>2, <1>3, <1>4, <1>6, <1>7 DEF UiTask, Idle, Live, Published, Box
<1>15. WorkerTask'
  BY <1>1, <1>2, <1>3, <1>4, <1>6, <1>7 DEF WorkerTask
<1>16. Pages'
  <2> SUFFICES ASSUME NEW j \in Kinds, page'[j] = page[j], page[j].state = "persisting"
               PROVE  /\ \E t \in Slots : /\ slot'[t].state # "free" /\ slot'[t].kind = j
                                        /\ slot'[t].op = page[j].op
                      /\ fate'[page[j].op] = "pending" /\ asked[page[j].op] = visit[j]
    BY <1>1, <1>2, <1>3, <1>4, <1>6, <1>7 DEF Pages, Live
  <2>1. /\ \E t \in Slots : Live(t) /\ slot[t].kind = j /\ slot[t].op = page[j].op
        /\ fate[page[j].op] = "pending" /\ asked[page[j].op] = visit[j]
    BY DEF Pages
  <2>2. PICK t \in Slots : /\ Live(t) /\ slot[t].kind = j /\ slot[t].op = page[j].op
                          /\ slot[t].op \in Ops
    BY <2>1, LiveCommands
  <2>3. slot[t].op # o
    BY <2>1, <2>2, <1>1, <1>2, <1>3, <1>4, <1>6, <1>7 DEF OneEach, Live
  <2> QED BY <2>1, <2>2, <2>3, <1>1, <1>2, <1>3, <1>4, <1>6, <1>7 DEF Live
<1>17. Counted'
  BY <1>1, <1>2, <1>3, <1>4, <1>6, <1>7 DEF Counted, Written, InHand
<1> QED BY <1>8, <1>9, <1>10, <1>11, <1>12, <1>13, <1>14, <1>15, <1>16, <1>17

\* The acknowledgement that frees the slot keeps it.
LEMMA AckFreesSlotStep ==
    ASSUME IInv, AckFreesSlot
    PROVE  IInv'
<1> USE DEF IInv
<1>1. ui.pc = "acking"
  BY DEF AckFreesSlot
<1>2. PICK r \in Slots, k \in Kinds, o \in Ops :
        /\ ui.kind = k /\ Box(k).slot = r /\ Box(k).op = o /\ Published(k)
        /\ ui.gen = Box(k).pending /\ ~Publishing(r) /\ ui.op = o /\ ui.result = slot[r].result
        /\ slot[r].state = "resultPending" /\ slot[r].kind = k /\ slot[r].op = o
        /\ fate[o] # "pending"
  BY <1>1, UisCommand
<1>3. AckMatches
  BY <1>2 DEF AckMatches, Published
<1>4. /\ UNCHANGED <<leased, gate, queue, worker, busy, mailbox, ops,
                 published, page, visit, asked, outcome, fate>>
  BY DEF AckFreesSlot
<1>5. /\ slot' \in [Slots -> SlotType] /\ \A t \in Slots \ {r} : slot'[t] = slot[t]
      /\ slot'[r] = [state |-> "free", kind |-> k, op |-> o, result |-> slot[r].result]
  <2>1. slot' = [slot EXCEPT ![r] = [@ EXCEPT !.state = "free"]]
    BY <1>2, <1>3 DEF AckFreesSlot
  <2>2. slot \in [Slots -> SlotType] /\ slot[r].kind = k /\ slot[r].op = o
    BY <1>2 DEF Typed
  <2> QED BY <2>1, <2>2 DEF SlotType
<1>6. /\ ui' = [pc |-> "acked", kind |-> k, slot |-> ui.slot, op |-> o, gen |-> ui.gen,
               result |-> ui.result]
      /\ ui' \in UiType
  BY <1>2, <1>3 DEF AckFreesSlot, Typed, UiType
<1>7. busy[k]
  BY <1>2, LiveCommands DEF Live
<1>8. Typed'
  BY <1>1, <1>2, <1>4, <1>5, <1>6, <1>7 DEF Typed
<1>9. OneEach'
  BY <1>1, <1>2, <1>4, <1>5, <1>6, <1>7 DEF OneEach, Live
<1>10. Commands'
  <2> SUFFICES ASSUME NEW t \in Slots PROVE Command(t)'
    BY DEF Commands
  <2>1. /\ Command(t)
        /\ Live(t) => slot[t].kind \in Kinds /\ slot[t].op \in Ops
        /\ Live(t) /\ Live(r) /\ t # r => slot[t].kind # slot[r].kind /\ slot[t].op # slot[r].op
    BY LiveCommands DEF Commands, OneEach
  <2>2. CASE t = r
    BY <2>1, <2>2, <1>1, <1>2, <1>4, <1>5, <1>6, <1>7 DEF Command, Live, Publishing,
       Published, Waits, Box
  <2>3. CASE t # r
    BY <2>1, <2>3, <1>1, <1>2, <1>4, <1>5, <1>6, <1>7 DEF Command, Live, Publishing,
       Published, Waits, Box
  <2> QED BY <2>2, <2>3
<1>11. QueueHolds'
  BY <1>1, <1>2, <1>4, <1>5, <1>6, <1>7, QueueOfSlots DEF QueueHolds
<1>12. LeasesHeld'
  BY <1>1, <1>2, <1>4, <1>5, <1>6, <1>7, LeasedSlots DEF LeasesHeld
<1>13. Boxes'
  BY <1>1, <1>2, <1>4, <1>5, <1>6, <1>7 DEF Boxes, Publishing, Published, Box
<1>14. UiTask'
  BY <1>1, <1>2, <1>4, <1>5, <1>6, <1>7 DEF UiTask, Idle, Live, Published, Box, Publishing,
     OneEach
<1>15. WorkerTask'
  BY <1>1, <1>2, <1>4, <1>5, <1>6, <1>7 DEF WorkerTask, Publishing
<1>16. Pages'
  <2> SUFFICES ASSUME NEW j \in Kinds, page[j].state = "persisting"
               PROVE  /\ \E t \in Slots : /\ slot'[t].state # "free" /\ slot'[t].kind = j
                                        /\ slot'[t].op = page[j].op
                      /\ fate'[page[j].op] = "pending" /\ asked[page[j].op] = visit[j]
    BY <1>1, <1>2, <1>4, <1>5, <1>6, <1>7 DEF Pages, Live
  <2>1. /\ \E t \in Slots : Live(t) /\ slot[t].kind = j /\ slot[t].op = page[j].op
        /\ fate[page[j].op] = "pending" /\ asked[page[j].op] = visit[j]
    BY DEF Pages
  <2>2. PICK t \in Slots : /\ Live(t) /\ slot[t].kind = j /\ slot[t].op = page[j].op
                          /\ slot[t].op \in Ops
    BY <2>1, LiveCommands
  <2>3. t # r
    BY <2>1, <2>2, <1>1, <1>2, <1>4, <1>5, <1>6, <1>7
  <2> QED BY <2>1, <2>2, <2>3, <1>1, <1>2, <1>4, <1>5, <1>6, <1>7 DEF Live
<1>17. Counted'
  BY <1>1, <1>2, <1>4, <1>5, <1>6, <1>7 DEF Counted, Written, InHand
<1> QED BY <1>8, <1>9, <1>10, <1>11, <1>12, <1>13, <1>14, <1>15, <1>16, <1>17

\* The rest of the acknowledgement keeps it.
LEMMA AckSteps ==
    ASSUME IInv, AckGeneration \/ ReleaseKind
    PROVE  IInv'
<1> USE DEF IInv
<1>1. CASE AckGeneration
  <2>1. PICK k \in Kinds : ui.pc = "acked" /\ ui.kind = k /\ ui.gen = Box(k).pending /\ Published(k)
    BY <1>1 DEF AckGeneration, UiTask
  <2>2. /\ UNCHANGED <<slot, leased, gate, queue, worker, busy, ops, published,
                   page, visit, asked, outcome, fate>>
    BY <1>1 DEF AckGeneration
  <2>3. /\ ui' = [pc |-> "releasing", kind |-> k, slot |-> ui.slot, op |-> ui.op, gen |-> ui.gen,
               result |-> ui.result]
      /\ ui' \in UiType
    BY <1>1, <2>1 DEF AckGeneration, Typed, UiType
  <2>4. /\ mailbox' \in [Kinds -> BoxType] /\ \A j \in Kinds \ {k} : mailbox'[j] = mailbox[j]
      /\ mailbox'[k] = [pending |-> mailbox[k].pending, acked |-> mailbox[k].pending,
                        result |-> mailbox[k].result, op |-> mailbox[k].op,
                        slot |-> mailbox[k].slot]
    <3>1. mailbox' = [mailbox EXCEPT ![k] = [@ EXCEPT !.acked = mailbox[k].pending]]
      BY <1>1, <2>1 DEF AckGeneration, Box
    <3>2. mailbox \in [Kinds -> BoxType] /\ mailbox[k] \in BoxType
      BY DEF Typed
    <3> QED BY <3>1, <3>2 DEF BoxType
  <2>5. busy[k] /\ Idle(k)
    BY <2>1 DEF UiTask
  <2>6. Typed'
    BY <2>1, <2>2, <2>3, <2>4, <2>5 DEF Typed
  <2>7. OneEach'
    BY <2>1, <2>2, <2>3, <2>4, <2>5 DEF OneEach, Live
  <2>8. Commands'
    <3> SUFFICES ASSUME NEW t \in Slots PROVE Command(t)'
      BY DEF Commands
    <3>1. Command(t) /\ (Live(t) => slot[t].kind \in Kinds \ {k})
      BY <2>5, LiveCommands DEF Commands, Idle
    <3> QED BY <3>1, <2>1, <2>2, <2>3, <2>4 DEF Command, Live, Publishing, Published, Waits, Box
  <2>9. QueueHolds'
    BY <2>1, <2>2, <2>3, <2>4, <2>5, QueueOfSlots DEF QueueHolds
  <2>10. LeasesHeld'
    BY <2>1, <2>2, <2>3, <2>4, <2>5, LeasedSlots DEF LeasesHeld
  <2>11. Boxes'
    BY <2>1, <2>2, <2>3, <2>4, <2>5 DEF Boxes, Publishing, Published, Box
  <2>12. UiTask'
    BY <2>1, <2>2, <2>3, <2>4, <2>5 DEF UiTask, Idle, Live, Published, Box
  <2>13. WorkerTask'
    BY <2>1, <2>2, <2>3, <2>4, <2>5 DEF WorkerTask
  <2>14. Pages'
    BY <2>1, <2>2, <2>3, <2>4, <2>5 DEF Pages, Live
  <2>15. Counted'
    BY <2>1, <2>2, <2>3, <2>4, <2>5 DEF Counted, Written, InHand
  <2> QED BY <2>6, <2>7, <2>8, <2>9, <2>10, <2>11, <2>12, <2>13, <2>14, <2>15
<1>2. CASE ReleaseKind
  <2>1. PICK k \in Kinds : ui.pc = "releasing" /\ ui.kind = k
    BY <1>2 DEF ReleaseKind, UiTask
  <2>2. /\ UNCHANGED <<slot, leased, gate, queue, worker, mailbox, ops,
                   published, page, visit, asked, outcome, fate>>
    BY <1>2 DEF ReleaseKind
  <2>3. /\ ui' = [pc |-> "idle", kind |-> "none", slot |-> 0, op |-> 0, gen |-> 0,
                  result |-> "failed"]
      /\ ui' \in UiType
    BY <1>2, Bounds DEF ReleaseKind, UiIdle, UiType, Outcomes
  <2>4. /\ busy' \in [Kinds -> BOOLEAN] /\ \A j \in Kinds \ {k} : busy'[j] = busy[j]
        /\ busy'[k] = FALSE
    BY <1>2, <2>1 DEF ReleaseKind, Typed
  <2>5. busy[k] /\ Idle(k) /\ ~Published(k)
    BY <2>1 DEF UiTask
  <2>6. Typed'
    BY <2>1, <2>2, <2>3, <2>4, <2>5 DEF Typed
  <2>7. OneEach'
    BY <2>1, <2>2, <2>3, <2>4, <2>5 DEF OneEach, Live
  <2>8. Commands'
    BY <2>1, <2>2, <2>3, <2>4, <2>5 DEF Commands, Command, Live, Publishing, Published, Waits,
       Box, Idle
  <2>9. QueueHolds'
    BY <2>1, <2>2, <2>3, <2>4, <2>5, QueueOfSlots DEF QueueHolds
  <2>10. LeasesHeld'
    BY <2>1, <2>2, <2>3, <2>4, <2>5, LeasedSlots DEF LeasesHeld
  <2>11. Boxes'
    BY <2>1, <2>2, <2>3, <2>4, <2>5 DEF Boxes, Publishing, Published, Box
  <2>12. UiTask'
    BY <2>1, <2>2, <2>3, <2>4, <2>5 DEF UiTask, Idle, Live, Published, Box
  <2>13. WorkerTask'
    BY <2>1, <2>2, <2>3, <2>4, <2>5 DEF WorkerTask
  <2>14. Pages'
    BY <2>1, <2>2, <2>3, <2>4, <2>5 DEF Pages, Live
  <2>15. Counted'
    BY <2>1, <2>2, <2>3, <2>4, <2>5 DEF Counted, Written, InHand
  <2> QED BY <2>6, <2>7, <2>8, <2>9, <2>10, <2>11, <2>12, <2>13, <2>14, <2>15
<1> QED BY <1>1, <1>2

\* A queued command.
LEMMA QueuedCommand ==
    ASSUME IInv, NEW r \in Slots, slot[r].state = "queued"
    PROVE  /\ slot[r].kind \in Kinds /\ slot[r].op \in Ops
           /\ outcome[slot[r].op] = "none" /\ r \in leased
BY LiveCommands DEF IInv, Commands, Command, Live

\* Receiving a command keeps it.
LEMMA ReceiveStep ==
    ASSUME IInv, WorkerReceive
    PROVE  IInv'
<1> USE DEF IInv
<1>1. queue # <<>> /\ queue \in Seq(Slots) /\ Len(queue) \in Nat
  BY QueueOfSlots DEF WorkerReceive
<1>2. /\ Tail(queue) \in Seq(Slots) /\ Len(Tail(queue)) = Len(queue) - 1 /\ Len(queue) >= 1
      /\ \A i \in 1..Len(Tail(queue)) : Tail(queue)[i] = queue[i + 1]
      /\ Head(queue) = queue[1] /\ Head(queue) \in Slots
  BY <1>1, HeadTailProperties
<1>3. PICK r \in Slots, k \in Kinds, o \in Ops :
        /\ r = Head(queue) /\ r = queue[1] /\ slot[r].state = "queued" /\ slot[r].kind = k
        /\ slot[r].op = o /\ outcome[o] = "none" /\ r \in leased
  BY <1>2, QueuedCommand DEF QueueHolds
<1>4. /\ worker.pc = "idle" /\ queue' = Tail(queue) /\ worker' = [pc |-> "running", slot |-> r]
      /\ UNCHANGED <<leased, gate, busy, mailbox, ops, published, ui, page, visit, asked, outcome,
                     fate>>
  BY <1>3 DEF WorkerReceive
<1>5. /\ slot' \in [Slots -> SlotType] /\ \A t \in Slots \ {r} : slot'[t] = slot[t]
      /\ slot'[r] = [state |-> "running", kind |-> k, op |-> o, result |-> slot[r].result]
  <2>1. slot' = [slot EXCEPT ![r] = [@ EXCEPT !.state = "running"]]
    BY <1>3 DEF WorkerReceive
  <2> QED BY <2>1, <1>3 DEF Typed, SlotType
<1>6. /\ queue' \in Seq(Slots) /\ Len(queue') = Len(queue) - 1 /\ Len(queue) \in Nat
      /\ \A i \in 1..Len(queue') : queue'[i] = queue[i + 1] /\ queue'[i] # r
      /\ \A i \in 1..Len(queue) : i = 1 \/ queue[i] = queue'[i - 1]
  BY <1>1, <1>2, <1>3, <1>4 DEF QueueHolds
<1>7. worker' \in WorkerType
  BY <1>4, Bounds DEF WorkerType, Slots
<1>8. Typed'
  BY <1>3, <1>4, <1>5, <1>6, <1>7, Bounds, QueueOfSlots DEF Typed
<1>9. OneEach'
  BY <1>3, <1>4, <1>5, <1>6, <1>7 DEF OneEach, Live
<1>10. Commands'
  <2> SUFFICES ASSUME NEW t \in Slots PROVE Command(t)'
    BY DEF Commands
  <2>1. /\ Command(t)
        /\ Live(t) => slot[t].kind \in Kinds /\ slot[t].op \in Ops
        /\ Live(t) /\ Live(r) /\ t # r => slot[t].kind # slot[r].kind /\ slot[t].op # slot[r].op
    BY LiveCommands DEF Commands, OneEach
  <2>4. t # r /\ Waits(t) => Waits(t)'
    <3> SUFFICES ASSUME NEW i \in 1..Len(queue), queue[i] = t, t # r PROVE Waits(t)'
      BY DEF Waits
    <3>1. i # 1 /\ i - 1 \in 1..Len(queue') /\ queue'[i - 1] = t
      BY <1>3, <1>6
    <3> QED BY <3>1 DEF Waits
  <2>2. CASE t = r
    BY <2>1, <2>2, <1>3, <1>4, <1>5, <1>6, <1>7 DEF Command, Live, Publishing, Published,
       Waits, Box
  <2>3. CASE t # r
    BY <2>1, <2>3, <2>4, <1>3, <1>4, <1>5, <1>7 DEF Command, Live, Publishing, Published, Box
  <2> QED BY <2>2, <2>3
<1>11. QueueHolds'
  BY <1>3, <1>4, <1>5, <1>6, <1>7, QueueOfSlots DEF QueueHolds
<1>12. LeasesHeld'
  BY <1>3, <1>4, <1>5, <1>6, <1>7, LeasedSlots DEF LeasesHeld
<1>13. Boxes'
  BY <1>3, <1>4, <1>5, <1>6, <1>7 DEF Boxes, Publishing, Published, Box
<1>14. UiTask'
  BY <1>3, <1>4, <1>5, <1>6, <1>7 DEF UiTask, Idle, Live, Published, Box
<1>15. WorkerTask'
  BY <1>3, <1>4, <1>5, <1>6, <1>7 DEF WorkerTask
<1>16. Pages'
  BY <1>3, <1>4, <1>5, <1>6, <1>7 DEF Pages, Live
<1>17. Counted'
  BY <1>3, <1>4, <1>5, <1>6, <1>7 DEF Counted, Written, InHand
<1> QED BY <1>8, <1>9, <1>10, <1>11, <1>12, <1>13, <1>14, <1>15, <1>16, <1>17

\* The command that is being written.
LEMMA RunningCommand ==
    ASSUME IInv, NEW r \in Slots, slot[r].state = "running"
    PROVE  /\ worker.pc = "running" => outcome[slot[r].op] = "none"
           /\ worker.pc # "running" => outcome[slot[r].op] = slot[r].result
           /\ fate[slot[r].op] = "pending"
<1> USE DEF IInv
<1>1. Live(r)
  BY DEF Live
<1>2. ~(ui.pc = "acking" /\ ui.op = slot[r].op)
  BY <1>1, UisCommand DEF OneEach, Live
<1> QED BY <1>1, <1>2 DEF Commands, Command

\* The write keeps it.
LEMMA ExecuteStep ==
    ASSUME IInv, ExecutePersistCommand
    PROVE  IInv'
<1> USE DEF IInv
<1>1. worker.pc = "running"
  BY DEF ExecutePersistCommand
<1>2. PICK r \in Slots, k \in Kinds, o \in Ops :
        /\ worker.slot = r /\ slot[r].kind = k /\ slot[r].op = o /\ slot[r].state = "running"
        /\ busy[k] /\ ~(o > ops)
  BY <1>1, WorkersCommand
<1>3. PICK result \in Outcomes :
        /\ slot' = [slot EXCEPT ![r] = [@ EXCEPT !.result = result]]
        /\ outcome' = [outcome EXCEPT ![o] = result]
  BY <1>2 DEF ExecutePersistCommand, Working
<1>4. /\ UNCHANGED <<leased, gate, queue, busy, mailbox, ops, published, ui,
                 page, visit, asked, fate>>
  BY DEF ExecutePersistCommand
<1>5. /\ slot' \in [Slots -> SlotType] /\ \A t \in Slots \ {r} : slot'[t] = slot[t]
      /\ slot'[r] = [state |-> "running", kind |-> k, op |-> o, result |-> result]
  BY <1>2, <1>3 DEF Typed, SlotType
<1>6. /\ outcome' \in [Ops -> Outcomes \cup {"none"}]
      /\ \A p \in Ops \ {o} : outcome'[p] = outcome[p]
      /\ outcome'[o] = result /\ result # "none"
  BY <1>2, <1>3 DEF Typed, Outcomes
<1>7. /\ worker' = [pc |-> "executed", slot |-> r] /\ worker' \in WorkerType
  BY <1>2 DEF ExecutePersistCommand, Work, Typed, WorkerType
<1>8. outcome[o] = "none" /\ fate[o] = "pending"
  BY <1>1, <1>2, RunningCommand
<1>9. Typed'
  BY <1>1, <1>2, <1>4, <1>5, <1>6, <1>7, <1>8 DEF Typed
<1>10. OneEach'
  BY <1>1, <1>2, <1>4, <1>5, <1>6, <1>7, <1>8 DEF OneEach, Live
<1>11. Commands'
  <2> SUFFICES ASSUME NEW t \in Slots PROVE Command(t)'
    BY DEF Commands
  <2>1. /\ Command(t)
        /\ Live(t) => slot[t].kind \in Kinds /\ slot[t].op \in Ops
        /\ Live(t) /\ Live(r) /\ t # r => slot[t].kind # slot[r].kind /\ slot[t].op # slot[r].op
    BY LiveCommands DEF Commands, OneEach
  <2>2. CASE t = r
    BY <2>1, <2>2, <1>1, <1>2, <1>4, <1>5, <1>6, <1>7, <1>8 DEF Command, Live, Publishing,
       Published, Waits, Box
  <2>3. CASE t # r
    BY <2>1, <2>3, <1>1, <1>2, <1>4, <1>5, <1>6, <1>7, <1>8 DEF Command, Live, Publishing,
       Published, Waits, Box
  <2> QED BY <2>2, <2>3
<1>12. QueueHolds'
  BY <1>1, <1>2, <1>4, <1>5, <1>6, <1>7, <1>8, QueueOfSlots DEF QueueHolds
<1>13. LeasesHeld'
  BY <1>1, <1>2, <1>4, <1>5, <1>6, <1>7, <1>8, LeasedSlots DEF LeasesHeld
<1>14. Boxes'
  BY <1>1, <1>2, <1>4, <1>5, <1>6, <1>7, <1>8 DEF Boxes, Publishing, Published, Box
<1>15. UiTask'
  BY <1>1, <1>2, <1>4, <1>5, <1>6, <1>7, <1>8 DEF UiTask, Idle, Live, Published, Box
<1>16. WorkerTask'
  BY <1>1, <1>2, <1>4, <1>5, <1>6, <1>7, <1>8 DEF WorkerTask
<1>17. Pages'
  BY <1>1, <1>2, <1>4, <1>5, <1>6, <1>7, <1>8 DEF Pages, Live
<1>18. Counted'
  <2>1. Written' = Written \cup {o} /\ o \notin Written
    BY <1>1, <1>2, <1>4, <1>5, <1>6, <1>7, <1>8 DEF Written
  <2>2. IsFiniteSet(Ops) /\ Written \in SUBSET Ops
    BY Bounds, FS_Interval DEF Ops, Written
  <2>3. Cardinality(Written') = Cardinality(Written) + 1 /\ Cardinality(Written) \in Nat
    BY <2>1, <2>2, FS_Subset, FS_AddElement, FS_CardinalityType
  <2>4. published + InHand <= Cardinality(Written) /\ published \in Nat /\ InHand = 0 /\ InHand' = 1
    BY <1>1, <1>2, <1>4, <1>5, <1>6, <1>7, <1>8 DEF Counted, Typed, InHand
  <2>5. published' + InHand' <= Cardinality(Written')
    BY <2>3, <2>4, <1>1, <1>2, <1>4, <1>5, <1>6, <1>7, <1>8
  <2> QED BY <2>5, <1>1, <1>2, <1>4, <1>5, <1>6, <1>7, <1>8 DEF Counted
<1> QED BY <1>9, <1>10, <1>11, <1>12, <1>13, <1>14, <1>15, <1>16, <1>17, <1>18

\* Giving the lease back keeps it.
LEMMA ReleaseLeaseStep ==
    ASSUME IInv, ReleaseLease
    PROVE  IInv'
<1> USE DEF IInv
<1>1. worker.pc = "executed"
  BY DEF ReleaseLease
<1>2. PICK r \in Slots, k \in Kinds, o \in Ops :
        /\ worker.slot = r /\ slot[r].kind = k /\ slot[r].op = o /\ slot[r].state = "running"
        /\ busy[k] /\ ~(o > ops)
  BY <1>1, WorkersCommand
<1>3. /\ leased' = leased \ {r}
      /\ UNCHANGED <<slot, gate, queue, busy, mailbox, ops, published, ui,
                 page, visit, asked, outcome, fate>>
  BY <1>2 DEF ReleaseLease
<1>4. /\ worker' = [pc |-> "released", slot |-> r] /\ worker' \in WorkerType
  BY <1>2 DEF ReleaseLease, Work, Typed, WorkerType
<1>5. Typed'
  BY <1>1, <1>2, <1>3, <1>4 DEF Typed
<1>6. OneEach'
  BY <1>1, <1>2, <1>3, <1>4 DEF OneEach, Live
<1>7. Commands'
  <2> SUFFICES ASSUME NEW t \in Slots PROVE Command(t)'
    BY DEF Commands
  <2>1. /\ Command(t)
        /\ Live(t) => slot[t].kind \in Kinds /\ slot[t].op \in Ops
        /\ Live(t) /\ Live(r) /\ t # r => slot[t].kind # slot[r].kind /\ slot[t].op # slot[r].op
    BY LiveCommands DEF Commands, OneEach
  <2>2. CASE t = r
    BY <2>1, <2>2, <1>1, <1>2, <1>3, <1>4 DEF Command, Live, Publishing, Published, Waits, Box
  <2>3. CASE t # r
    BY <2>1, <2>3, <1>1, <1>2, <1>3, <1>4 DEF Command, Live, Publishing, Published, Waits, Box
  <2> QED BY <2>2, <2>3
<1>8. QueueHolds'
  BY <1>1, <1>2, <1>3, <1>4, QueueOfSlots DEF QueueHolds
<1>9. LeasesHeld'
  BY <1>1, <1>2, <1>3, <1>4, LeasedSlots DEF LeasesHeld
<1>10. Boxes'
  BY <1>1, <1>2, <1>3, <1>4 DEF Boxes, Publishing, Published, Box
<1>11. UiTask'
  BY <1>1, <1>2, <1>3, <1>4 DEF UiTask, Idle, Live, Published, Box
<1>12. WorkerTask'
  BY <1>1, <1>2, <1>3, <1>4 DEF WorkerTask
<1>13. Pages'
  BY <1>1, <1>2, <1>3, <1>4 DEF Pages, Live
<1>14. Counted'
  BY <1>1, <1>2, <1>3, <1>4 DEF Counted, Written, InHand
<1> QED BY <1>5, <1>6, <1>7, <1>8, <1>9, <1>10, <1>11, <1>12, <1>13, <1>14

\* Marking the result keeps it.
LEMMA MarkStep ==
    ASSUME IInv, MarkResultPending
    PROVE  IInv'
<1> USE DEF IInv
<1>1. worker.pc = "released"
  BY DEF MarkResultPending
<1>2. PICK r \in Slots, k \in Kinds, o \in Ops :
        /\ worker.slot = r /\ slot[r].kind = k /\ slot[r].op = o /\ slot[r].state = "running"
        /\ busy[k] /\ ~(o > ops)
  BY <1>1, WorkersCommand
<1>3. /\ UNCHANGED <<leased, gate, queue, busy, mailbox, ops, published, ui,
                 page, visit, asked, outcome, fate>>
  BY DEF MarkResultPending
<1>4. /\ slot' \in [Slots -> SlotType] /\ \A t \in Slots \ {r} : slot'[t] = slot[t]
      /\ slot'[r] = [state |-> "resultPending", kind |-> k, op |-> o, result |-> slot[r].result]
  BY <1>2 DEF MarkResultPending, Typed, SlotType
<1>5. /\ worker' = [pc |-> "publishing", slot |-> r] /\ worker' \in WorkerType
  BY <1>2 DEF MarkResultPending, Work, Typed, WorkerType
<1>6. ~Published(k)
  BY <1>2 DEF Boxes, UiTask, Idle, OneEach, Live
<1>7. r \notin leased
  BY <1>1, <1>2 DEF LeasesHeld
<1>8. Typed'
  BY <1>1, <1>2, <1>3, <1>4, <1>5, <1>6, <1>7 DEF Typed
<1>9. OneEach'
  BY <1>1, <1>2, <1>3, <1>4, <1>5, <1>6, <1>7 DEF OneEach, Live
<1>10. Commands'
  <2> SUFFICES ASSUME NEW t \in Slots PROVE Command(t)'
    BY DEF Commands
  <2>1. /\ Command(t)
        /\ Live(t) => slot[t].kind \in Kinds /\ slot[t].op \in Ops
        /\ Live(t) /\ Live(r) /\ t # r => slot[t].kind # slot[r].kind /\ slot[t].op # slot[r].op
    BY LiveCommands DEF Commands, OneEach
  <2>2. CASE t = r
    BY <2>1, <2>2, <1>1, <1>2, <1>3, <1>4, <1>5, <1>6, <1>7 DEF Command, Live, Publishing,
       Published, Waits, Box
  <2>3. CASE t # r
    BY <2>1, <2>3, <1>1, <1>2, <1>3, <1>4, <1>5, <1>6, <1>7 DEF Command, Live, Publishing,
       Published, Waits, Box
  <2> QED BY <2>2, <2>3
<1>11. QueueHolds'
  BY <1>1, <1>2, <1>3, <1>4, <1>5, <1>6, <1>7, QueueOfSlots DEF QueueHolds
<1>12. LeasesHeld'
  BY <1>1, <1>2, <1>3, <1>4, <1>5, <1>6, <1>7, LeasedSlots DEF LeasesHeld
<1>13. Boxes'
  BY <1>1, <1>2, <1>3, <1>4, <1>5, <1>6, <1>7 DEF Boxes, Publishing, Published, Box
<1>14. UiTask'
  BY <1>1, <1>2, <1>3, <1>4, <1>5, <1>6, <1>7 DEF UiTask, Idle, Live, Published, Box
<1>15. WorkerTask'
  BY <1>1, <1>2, <1>3, <1>4, <1>5, <1>6, <1>7 DEF WorkerTask
<1>16. Pages'
  BY <1>1, <1>2, <1>3, <1>4, <1>5, <1>6, <1>7 DEF Pages, Live
<1>17. Counted'
  BY <1>1, <1>2, <1>3, <1>4, <1>5, <1>6, <1>7 DEF Counted, Written, InHand
<1> QED BY <1>8, <1>9, <1>10, <1>11, <1>12, <1>13, <1>14, <1>15, <1>16, <1>17

\* Filling the mailbox keeps it.
LEMMA FillStep ==
    ASSUME IInv, FillMailbox
    PROVE  IInv'
<1> USE DEF IInv
<1>1. worker.pc = "publishing"
  BY DEF FillMailbox
<1>2. PICK r \in Slots, k \in Kinds, o \in Ops :
        /\ worker.slot = r /\ slot[r].kind = k /\ slot[r].op = o /\ slot[r].state = "resultPending"
        /\ busy[k] /\ ~(o > ops)
  BY <1>1, WorkersCommand
<1>3. /\ UNCHANGED <<slot, leased, gate, queue, busy, ops, published, ui,
                 page, visit, asked, outcome, fate>>
  BY DEF FillMailbox
<1>4. /\ mailbox' \in [Kinds -> BoxType] /\ \A j \in Kinds \ {k} : mailbox'[j] = mailbox[j]
      /\ mailbox'[k] = [pending |-> mailbox[k].pending, acked |-> mailbox[k].acked,
                        result |-> slot[r].result, op |-> o, slot |-> r]
  <2>1. mailbox' = [mailbox EXCEPT ![k] = [@ EXCEPT !.result = slot[r].result, !.op = o,
                                                    !.slot = r]]
    BY <1>2 DEF FillMailbox, Working
  <2>2. slot[r] \in SlotType /\ mailbox \in [Kinds -> BoxType] /\ mailbox[k] \in BoxType
    BY DEF Typed
  <2>3. slot[r].result \in Outcomes /\ o \in 0..MaxOps /\ r \in 0..PoolDepth
    BY <2>2, Bounds DEF SlotType, Ops, Slots
  <2> QED BY <2>1, <2>2, <2>3 DEF BoxType
<1>5. /\ worker' = [pc |-> "filled", slot |-> r] /\ worker' \in WorkerType
  BY <1>2 DEF FillMailbox, Work, Typed, WorkerType
<1>6. ~Published(k)
  BY <1>1, <1>2 DEF Commands, Command, Publishing
<1>7. Typed'
  BY <1>1, <1>2, <1>3, <1>4, <1>5, <1>6 DEF Typed
<1>8. OneEach'
  BY <1>1, <1>2, <1>3, <1>4, <1>5, <1>6 DEF OneEach, Live
<1>9. Commands'
  <2> SUFFICES ASSUME NEW t \in Slots PROVE Command(t)'
    BY DEF Commands
  <2>1. /\ Command(t)
        /\ Live(t) => slot[t].kind \in Kinds /\ slot[t].op \in Ops
        /\ Live(t) /\ Live(r) /\ t # r => slot[t].kind # slot[r].kind /\ slot[t].op # slot[r].op
    BY LiveCommands DEF Commands, OneEach
  <2>2. CASE t = r
    BY <2>1, <2>2, <1>1, <1>2, <1>3, <1>4, <1>5, <1>6 DEF Command, Live, Publishing,
       Published, Waits, Box
  <2>3. CASE t # r
    BY <2>1, <2>3, <1>1, <1>2, <1>3, <1>4, <1>5, <1>6 DEF Command, Live, Publishing,
       Published, Waits, Box
  <2> QED BY <2>2, <2>3
<1>10. QueueHolds'
  BY <1>1, <1>2, <1>3, <1>4, <1>5, <1>6, QueueOfSlots DEF QueueHolds
<1>11. LeasesHeld'
  BY <1>1, <1>2, <1>3, <1>4, <1>5, <1>6, LeasedSlots DEF LeasesHeld
<1>12. Boxes'
  BY <1>1, <1>2, <1>3, <1>4, <1>5, <1>6 DEF Boxes, Publishing, Published, Box
<1>13. UiTask'
  BY <1>1, <1>2, <1>3, <1>4, <1>5, <1>6 DEF UiTask, Idle, Live, Published, Box
<1>14. WorkerTask'
  BY <1>1, <1>2, <1>3, <1>4, <1>5, <1>6 DEF WorkerTask
<1>15. Pages'
  BY <1>1, <1>2, <1>3, <1>4, <1>5, <1>6 DEF Pages, Live
<1>16. Counted'
  BY <1>1, <1>2, <1>3, <1>4, <1>5, <1>6 DEF Counted, Written, InHand
<1> QED BY <1>7, <1>8, <1>9, <1>10, <1>11, <1>12, <1>13, <1>14, <1>15, <1>16

\* Making it visible keeps it.
LEMMA PublishStep ==
    ASSUME IInv, PublishGeneration
    PROVE  IInv'
<1> USE DEF IInv
<1>1. worker.pc = "filled"
  BY DEF PublishGeneration
<1>2. PICK r \in Slots, k \in Kinds, o \in Ops :
        /\ worker.slot = r /\ slot[r].kind = k /\ slot[r].op = o /\ slot[r].state = "resultPending"
        /\ busy[k] /\ ~(o > ops)
  BY <1>1, WorkersCommand
<1>3. /\ UNCHANGED <<slot, leased, gate, queue, busy, ops, ui, page, visit,
                 asked, outcome, fate>>
  BY DEF PublishGeneration
<1>4. published \in Nat /\ published' = published + 1 /\ published' \in 0..MaxOps
  <2>1. IsFiniteSet(Ops) /\ Cardinality(Ops) = MaxOps /\ Written \in SUBSET Ops
    BY Bounds, FS_Interval DEF Ops, Written
  <2>2. Cardinality(Written) <= MaxOps /\ Cardinality(Written) \in Nat
    BY <2>1, FS_Subset, FS_CardinalityType
  <2>3. published \in Nat /\ published + 1 <= Cardinality(Written)
    BY <1>1 DEF Counted, InHand, Typed
  <2> QED BY <2>2, <2>3, Bounds DEF PublishGeneration
<1>5. /\ mailbox' \in [Kinds -> BoxType] /\ \A j \in Kinds \ {k} : mailbox'[j] = mailbox[j]
      /\ mailbox'[k] = [pending |-> published + 1, acked |-> mailbox[k].acked,
                        result |-> mailbox[k].result, op |-> mailbox[k].op,
                        slot |-> mailbox[k].slot]
  <2>1. mailbox' = [mailbox EXCEPT ![k] = [@ EXCEPT !.pending = published + 1]]
    BY <1>2 DEF PublishGeneration, Working
  <2>2. mailbox \in [Kinds -> BoxType] /\ mailbox[k] \in BoxType /\ published + 1 \in 0..MaxOps
    BY <1>4 DEF Typed
  <2> QED BY <2>1, <2>2 DEF BoxType
<1>6. /\ worker' = [pc |-> "idle", slot |-> 0] /\ worker' \in WorkerType
  BY Bounds DEF PublishGeneration, WorkerType
<1>7. mailbox[k].slot = r /\ mailbox[k].acked <= published /\ mailbox[k].acked \in Nat
  BY <1>1, <1>2, BoxNumbers DEF Commands, Command, Publishing, Boxes, Box
<1>8. ~Published(k)
  BY <1>1, <1>2 DEF Commands, Command, Publishing
<1>9. Typed'
  BY <1>1, <1>2, <1>3, <1>4, <1>5, <1>6, <1>7, <1>8 DEF Typed
<1>10. OneEach'
  BY <1>1, <1>2, <1>3, <1>4, <1>5, <1>6, <1>7, <1>8 DEF OneEach, Live
<1>11. Commands'
  <2> SUFFICES ASSUME NEW t \in Slots PROVE Command(t)'
    BY DEF Commands
  <2>1. /\ Command(t)
        /\ Live(t) => slot[t].kind \in Kinds /\ slot[t].op \in Ops
        /\ Live(t) /\ Live(r) /\ t # r => slot[t].kind # slot[r].kind /\ slot[t].op # slot[r].op
    BY LiveCommands DEF Commands, OneEach
  <2>2. CASE t = r
    BY <2>1, <2>2, <1>1, <1>2, <1>3, <1>4, <1>5, <1>6, <1>7, <1>8 DEF Command, Live,
       Publishing, Published, Waits, Box
  <2>3. CASE t # r
    BY <2>1, <2>3, <1>1, <1>2, <1>3, <1>4, <1>5, <1>6, <1>7, <1>8 DEF Command, Live,
       Publishing, Published, Waits, Box
  <2> QED BY <2>2, <2>3
<1>12. QueueHolds'
  BY <1>1, <1>2, <1>3, <1>4, <1>5, <1>6, <1>7, <1>8, QueueOfSlots DEF QueueHolds
<1>13. LeasesHeld'
  BY <1>1, <1>2, <1>3, <1>4, <1>5, <1>6, <1>7, <1>8, LeasedSlots DEF LeasesHeld
<1>14. Boxes'
  BY <1>1, <1>2, <1>3, <1>4, <1>5, <1>6, <1>7, <1>8, BoxNumbers DEF Boxes, Publishing,
     Published, Box
<1>15. UiTask'
  BY <1>1, <1>2, <1>3, <1>4, <1>5, <1>6, <1>7, <1>8 DEF UiTask, Idle, Live, Published, Box
<1>16. WorkerTask'
  BY <1>1, <1>2, <1>3, <1>4, <1>5, <1>6, <1>7, <1>8 DEF WorkerTask
<1>17. Pages'
  BY <1>1, <1>2, <1>3, <1>4, <1>5, <1>6, <1>7, <1>8 DEF Pages, Live
<1>18. Counted'
  BY <1>1, <1>2, <1>3, <1>4, <1>5, <1>6, <1>7, <1>8 DEF Counted, Written, InHand
<1> QED BY <1>9, <1>10, <1>11, <1>12, <1>13, <1>14, <1>15, <1>16, <1>17, <1>18

\* The gate, and the reset that ends a sleep.
LEMMA GateSteps ==
    ASSUME IInv, MoveGate \/ Sleep
    PROVE  IInv'
<1> USE DEF IInv
<1>1. CASE MoveGate
  <2>1. /\ gate' \in {"open", "idle", "emergency"} /\ (gate' = "idle" => leased = {})
      /\ UNCHANGED <<slot, leased, queue, worker, busy, mailbox, ops,
                   published, ui, page, visit, asked, outcome, fate>>
    BY <1>1 DEF MoveGate, Gate!CloseForIdle, Gate!CloseForEmergency, Gate!Reopen
  <2>2. Typed'
    BY <2>1 DEF Typed
  <2>3. OneEach'
    BY <2>1 DEF OneEach, Live
  <2>4. Commands'
    BY <2>1 DEF Commands, Command, Live, Publishing, Published, Waits, Box, Idle
  <2>5. QueueHolds'
    BY <2>1, QueueOfSlots DEF QueueHolds
  <2>6. LeasesHeld'
    BY <2>1, LeasedSlots DEF LeasesHeld
  <2>7. Boxes'
    BY <2>1 DEF Boxes, Publishing, Published, Box
  <2>8. UiTask'
    BY <2>1 DEF UiTask, Idle, Live, Published, Box
  <2>9. WorkerTask'
    BY <2>1 DEF WorkerTask
  <2>10. Pages'
    BY <2>1 DEF Pages, Live
  <2>11. Counted'
    BY <2>1 DEF Counted, Written, InHand
  <2> QED BY <2>2, <2>3, <2>4, <2>5, <2>6, <2>7, <2>8, <2>9, <2>10, <2>11
<1>2. CASE Sleep
  <2>1. /\ leased' = {} /\ gate' = "open" /\ queue' = <<>> /\ published' = 0
      /\ slot' = [s \in Slots |-> FreeSlot] /\ mailbox' = [k \in Kinds |-> EmptyBox]
      /\ busy' = [k \in Kinds |-> FALSE] /\ page' = [k \in Kinds |-> Quiet]
      /\ fate' = [o \in Ops |-> IF fate[o] = "pending" THEN "lost" ELSE fate[o]]
      /\ UNCHANGED <<ops, visit, asked, outcome>>
    BY <1>2 DEF Sleep, Gate!Sleep
  <2>2. /\ worker' = [pc |-> "idle", slot |-> 0] /\ worker' \in WorkerType
    BY <1>2, Bounds DEF Sleep, WorkerType
  <2>3. /\ ui' = [pc |-> "idle", kind |-> "none", slot |-> 0, op |-> 0, gen |-> 0,
                  result |-> "failed"]
      /\ ui' \in UiType
    BY <1>2, Bounds DEF Sleep, UiIdle, UiType, Outcomes
  <2>4. /\ slot' \in [Slots -> SlotType] /\ \A s \in Slots : slot'[s].state = "free"
    BY <2>1, Bounds DEF FreeSlot, SlotType, Outcomes
  <2>5. /\ mailbox' \in [Kinds -> BoxType]
        /\ \A k \in Kinds : (mailbox'[k].pending = 0 /\ mailbox'[k].acked = 0)
    BY <2>1, Bounds DEF EmptyBox, BoxType, Outcomes
  <2>6. /\ page' \in [Kinds -> PageType]
        /\ \A k \in Kinds : (page'[k].state = "quiet" /\ page'[k].op = 0)
    BY <2>1, Bounds DEF Quiet, PageType
  <2>7. /\ busy' \in [Kinds -> BOOLEAN] /\ \A k \in Kinds : ~busy'[k]
    BY <2>1
  <2>8. /\ fate' \in [Ops -> Outcomes \cup {"none", "pending", "cancelled", "dropped", "lost"}]
      /\ \A o \in Ops : fate'[o] = fate[o] \/ (fate[o] = "pending" /\ fate'[o] = "lost")
    BY <2>1 DEF Typed
  <2>9. /\ queue' = <<>> /\ leased' = {} /\ gate' = "open" /\ published' = 0
      /\ UNCHANGED <<ops, visit, asked, outcome>>
    BY <2>1
  <2>10. Typed'
    BY <2>2, <2>3, <2>4, <2>5, <2>6, <2>7, <2>8, <2>9, Bounds DEF Typed
  <2>11. OneEach'
    BY <2>2, <2>3, <2>4, <2>5, <2>6, <2>7, <2>8, <2>9 DEF OneEach, Live
  <2>12. Commands'
    BY <2>2, <2>3, <2>4, <2>5, <2>6, <2>7, <2>8, <2>9 DEF Commands, Command, Live, Publishing,
       Published, Waits, Box
  <2>13. QueueHolds'
    BY <2>2, <2>3, <2>4, <2>5, <2>6, <2>7, <2>8, <2>9, QueueOfSlots DEF QueueHolds
  <2>14. LeasesHeld'
    BY <2>2, <2>3, <2>4, <2>5, <2>6, <2>7, <2>8, <2>9, LeasedSlots DEF LeasesHeld
  <2>15. Boxes'
    BY <2>2, <2>3, <2>4, <2>5, <2>6, <2>7, <2>8, <2>9 DEF Boxes, Publishing, Published, Box
  <2>16. UiTask'
    BY <2>2, <2>3, <2>4, <2>5, <2>6, <2>7, <2>8, <2>9 DEF UiTask, Idle, Live, Published, Box
  <2>17. WorkerTask'
    BY <2>2, <2>3, <2>4, <2>5, <2>6, <2>7, <2>8, <2>9 DEF WorkerTask
  <2>18. Pages'
    BY <2>2, <2>3, <2>4, <2>5, <2>6, <2>7, <2>8, <2>9 DEF Pages, Live
  <2>19. Counted'
    <3>1. Written' = Written /\ published' = 0 /\ InHand' = 0
      BY <2>2, <2>9 DEF Written, InHand
    <3>2. IsFiniteSet(Ops) /\ Written \in SUBSET Ops
      BY Bounds, FS_Interval DEF Ops, Written
    <3>3. Cardinality(Written) \in Nat
      BY <3>2, FS_Subset, FS_CardinalityType
    <3>4. published' + InHand' <= Cardinality(Written')
      BY <3>1, <3>3
    <3> QED BY <3>4, <2>8, <2>9 DEF Counted
  <2> QED BY <2>10, <2>11, <2>12, <2>13, <2>14, <2>15, <2>16, <2>17, <2>18, <2>19
<1> QED BY <1>1, <1>2

\* The invariant holds in every state.
LEMMA Inductive ==
    Spec => []IInv
<1>1. Init => IInv
  <2> SUFFICES ASSUME Init PROVE IInv
    OBVIOUS
  <2>1. /\ slot = [s \in Slots |-> FreeSlot] /\ mailbox = [k \in Kinds |-> EmptyBox]
        /\ page = [k \in Kinds |-> Quiet] /\ ui = UiIdle /\ leased = {} /\ gate = "open"
        /\ queue = <<>> /\ worker = [pc |-> "idle", slot |-> 0] /\ ops = 0 /\ published = 0
        /\ busy = [k \in Kinds |-> FALSE] /\ visit = [k \in Kinds |-> 0]
        /\ asked = [o \in Ops |-> 0] /\ outcome = [o \in Ops |-> "none"]
        /\ fate = [o \in Ops |-> "none"]
    BY DEF Init, InitPool
  <2>2. /\ FreeSlot \in SlotType /\ EmptyBox \in BoxType /\ Quiet \in PageType
        /\ UiIdle \in UiType /\ worker \in WorkerType
    BY <2>1, Bounds DEF FreeSlot, EmptyBox, Quiet, UiIdle, SlotType, BoxType, PageType, UiType,
       WorkerType, Outcomes
  <2>3. /\ \A s \in Slots : slot[s].state = "free"
        /\ \A k \in Kinds : ~busy[k] /\ ~Published(k) /\ page[k].state = "quiet" /\ page[k].op = 0
                            /\ mailbox[k].pending = 0 /\ mailbox[k].acked = 0
        /\ ui.pc = "idle" /\ worker.pc = "idle" /\ Len(queue) = 0
        /\ \A o \in Ops : fate[o] = "none" /\ outcome[o] = "none"
    BY <2>1 DEF FreeSlot, EmptyBox, Quiet, UiIdle, Published, Box
  <2>4. Typed
    BY <2>1, <2>2, Bounds DEF Typed
  <2>5. OneEach /\ Commands /\ QueueHolds /\ LeasesHeld /\ WorkerTask /\ Pages
    BY <2>1, <2>3 DEF OneEach, Commands, Command, Live, QueueHolds, LeasesHeld, WorkerTask, Pages
  <2>6. Boxes /\ UiTask
    BY <2>1, <2>3 DEF Boxes, Box, UiTask
  <2>7. Counted
    <3>1. Written = {} /\ InHand = 0 /\ published = 0
      BY <2>1, <2>3 DEF Written, InHand
    <3> QED BY <3>1, <2>3, FS_EmptySet DEF Counted
  <2> QED BY <2>4, <2>5, <2>6, <2>7 DEF IInv
<1>2. IInv /\ [Next]_vars => IInv'
  <2> SUFFICES ASSUME IInv, [Next]_vars PROVE IInv'
    OBVIOUS
  <2>1. CASE \E k \in Kinds : Confirm(k) \/ ResetPage(k)
    BY <2>1, PageSteps
  <2>2. CASE \E k \in Kinds : Reserve(k)
    BY <2>2, ReserveStep
  <2>3. CASE UiStep
    BY <2>3, CancelStep, EnqueueStep, TakeSteps, ApplyStep, AckFreesSlotStep, AckSteps DEF UiStep
  <2>4. CASE WorkerStep
    BY <2>4, ReceiveStep, ExecuteStep, ReleaseLeaseStep, MarkStep, FillStep, PublishStep
       DEF WorkerStep
  <2>5. CASE MoveGate \/ Sleep
    BY <2>5, GateSteps
  <2>6. CASE UNCHANGED vars
    BY <2>6 DEF IInv, vars, poolVars, Typed, OneEach, Commands, Command, Live, Publishing,
       Published, Waits, Box, QueueHolds, LeasesHeld, Boxes, UiTask, Idle, WorkerTask, Pages,
       Counted, Written, InHand
  <2> QED BY <2>1, <2>2, <2>3, <2>4, <2>5, <2>6 DEF Next
<1> QED BY <1>1, <1>2, PTL DEF Spec

\* Slot, mailbox, busy flag, queue and page agree on which operation is whose, whatever
\* the kinds, the depth of the pool and the number of operations: a reserved write finds
\* room, an acknowledgement is never ignored, an awaited operation is alive, and an idle
\* sleep cuts no write.
THEOREM PoolIsSound ==
    Spec => []PoolSound
<1>1. IInv => PoolSound
  <2> SUFFICES ASSUME IInv PROVE PoolSound
    OBVIOUS
  <2> USE DEF IInv
  <2>1. TypeOK
    BY Types
  <2>2. OneSlotPerBusyKind
    <3> SUFFICES ASSUME NEW k \in Kinds
                 PROVE  LET mine == {s \in Slots : slot[s].state # "free" /\ slot[s].kind = k}
                        IN /\ Cardinality(mine) <= 1
                           /\ mine # {} => busy[k]
                           /\ busy[k] /\ mine = {} =>
                                 ui.pc \in {"acked", "releasing"} /\ ui.kind = k
      BY DEF OneSlotPerBusyKind
    <3> DEFINE mine == {s \in Slots : slot[s].state # "free" /\ slot[s].kind = k}
    <3>1. mine = {} \/ \E s \in Slots : mine = {s}
      BY DEF OneEach, Live
    <3>2. Cardinality(mine) <= 1
      <4>1. Cardinality({}) = 0 /\ \A s \in Slots : Cardinality({s}) = 1
        BY FS_EmptySet, FS_Singleton
      <4> HIDE DEF mine
      <4> QED BY <3>1, <4>1
    <3>3. mine # {} => busy[k]
      BY LiveCommands DEF Live
    <3>4. busy[k] /\ mine = {} => ui.pc \in {"acked", "releasing"} /\ ui.kind = k
      BY DEF UiTask, Idle, Live
    <3> QED BY <3>2, <3>3, <3>4
  <2>3. ReservedWriteFitsQueue
    <3> SUFFICES ASSUME ui.pc = "reserved" PROVE Reserved /\ Len(queue) < PoolDepth
      BY DEF ReservedWriteFitsQueue
    <3>1. Reserved /\ ui.slot \in Slots
      BY ReservedCommand DEF Reserved
    <3>2. ~Waits(ui.slot)
      BY <3>1 DEF Reserved, QueueHolds, Waits
    <3> QED BY <3>1, <3>2, QueueFits
  <2>4. AckNeverIgnored
    BY UisCommand DEF AckNeverIgnored, AckMatches, Published
  <2>5. AwaitedOperationAlive
    BY DEF AwaitedOperationAlive, Pages, Live
  <2>6. IdleSleepNeverCutsWrite
    <3> SUFFICES ASSUME leased = {}
                 PROVE  ui.pc # "reserved" /\ queue = <<>> /\ worker.pc # "running"
      BY DEF IdleSleepNeverCutsWrite, LeasesHeld
    <3>1. ui.pc # "reserved"
      BY ReservedCommand
    <3>2. queue = <<>>
      <4> SUFFICES ASSUME queue # <<>> PROVE FALSE
        OBVIOUS
      <4>1. 1 \in 1..Len(queue) /\ queue[1] \in Slots
        BY QueueOfSlots
      <4> QED BY <4>1, QueuedCommand DEF QueueHolds
    <3>3. worker.pc # "running"
      BY DEF WorkerTask, Commands, Command
    <3> QED BY <3>1, <3>2, <3>3
  <2> QED BY <2>1, <2>2, <2>3, <2>4, <2>5, <2>6 DEF PoolSound
<1> QED BY <1>1, Inductive, PTL

\* A page is shown the outcome of the write it asked for in this visit, and no other.
THEOREM OwnOutcomeShown ==
    Spec => PageShownItsOwnOutcome
<1> DEFINE Own == \A o \in Ops :
                     fate[o] = "pending" /\ fate'[o] \in Outcomes =>
                        fate'[o] = outcome[o] /\ asked[o] = visit[ui.kind]
<1>1. IInv /\ [Next]_vars => [Own]_vars
  <2> SUFFICES ASSUME IInv, Next, NEW p \in Ops, fate[p] = "pending", fate'[p] \in Outcomes
               PROVE  fate'[p] = outcome[p] /\ asked[p] = visit[ui.kind]
    OBVIOUS
  <2> USE DEF IInv
  <2>1. fate'[p] # fate[p]
    BY DEF Outcomes
  <2>2. ~(\E k \in Kinds : Reserve(k))
    <3> SUFFICES ASSUME NEW k \in Kinds, Reserve(k) PROVE FALSE
      OBVIOUS
    <3>1. fate' = [fate EXCEPT ![ops + 1] = "pending"] /\ fate \in [Ops -> STRING]
      BY DEF Reserve, Typed, Outcomes
    <3> QED BY <3>1, <2>1 DEF Outcomes
  <2>3. ~CancelPersistReservation
    <3> SUFFICES ASSUME CancelPersistReservation PROVE FALSE
      OBVIOUS
    <3>1. fate' = [fate EXCEPT ![ui.op] = "cancelled"] /\ fate \in [Ops -> STRING]
      BY DEF CancelPersistReservation, Typed, Outcomes
    <3> QED BY <3>1, <2>1 DEF Outcomes
  <2>4. ~Sleep
    BY DEF Sleep, Outcomes
  <2>5. ApplyResult
    BY <2>1, <2>2, <2>3, <2>4 DEF Next, UiStep, WorkerStep, Confirm, ResetPage, EnqueueReserved,
       TakeGeneration, TakeFields, AckFreesSlot, AckGeneration, ReleaseKind, WorkerReceive,
       ExecutePersistCommand, ReleaseLease, MarkResultPending, FillMailbox, PublishGeneration,
       MoveGate, poolVars
  <2>6. PICK k \in Kinds, o \in Ops :
           ui.kind = k /\ ui.op = o /\ outcome[o] = ui.result /\ ui.pc = "applying"
    BY <2>5, UisCommand DEF ApplyResult
  <2>7. fate' = [fate EXCEPT ![o] = IF Awaited(k, o) THEN ui.result ELSE "dropped"]
    BY <2>5, <2>6 DEF ApplyResult
  <2>8. p = o /\ Awaited(k, o) /\ fate'[p] = ui.result
    BY <2>1, <2>7 DEF Outcomes, Typed
  <2>9. asked[o] = visit[k]
    BY <2>8, Bounds DEF Awaited, Pages, Ops
  <2> QED BY <2>6, <2>8, <2>9
<1> QED BY <1>1, Inductive, PTL DEF Spec, PageShownItsOwnOutcome

--------------------------------------------------------------------------------
(* The refinement: each operation is a call of StorageCall. *)

\* One operation changes phase, as StorageCall allows, and the others stay.
LEMMA OnePhase ==
    ASSUME NEW o \in Ops,
           \A q \in Ops \ {o} : PhaseOf(q)' = PhaseOf(q),
           \/ /\ outcome' = outcome
              /\ \/ PhaseOf(o) = "none" /\ PhaseOf(o)' = "submitted"
                 \/ PhaseOf(o) = "run" /\ PhaseOf(o)' = "returned"
                 \/ PhaseOf(o) = "submitted" /\ PhaseOf(o)' = "refused"
           \/ /\ PhaseOf(o) = "submitted" /\ PhaseOf(o)' = "run"
              /\ \E result \in Outcomes : outcome' = [outcome EXCEPT ![o] = result]
    PROVE  Operation!Next
<1> DEFINE phase == [q \in Ops |-> PhaseOf(q)]
<1>1. phase' = [phase EXCEPT ![o] = PhaseOf(o)'] /\ phase[o] = PhaseOf(o)
  OBVIOUS
<1> HIDE DEF phase
<1>2. \/ Operation!Submit(o) \/ Operation!Return(o) \/ Operation!Refuse(o)
      \/ \E result \in Outcomes : Operation!Run(o, result)
  <2> USE DEF phase
  <2>1. CASE outcome' = outcome /\ PhaseOf(o) = "none" /\ PhaseOf(o)' = "submitted"
    BY <2>1, <1>1 DEF Operation!Submit, Operation!Step
  <2>2. CASE outcome' = outcome /\ PhaseOf(o) = "run" /\ PhaseOf(o)' = "returned"
    BY <2>2, <1>1 DEF Operation!Return, Operation!Step
  <2>3. CASE outcome' = outcome /\ PhaseOf(o) = "submitted" /\ PhaseOf(o)' = "refused"
    BY <2>3, <1>1 DEF Operation!Refuse, Operation!Step
  <2>4. CASE /\ PhaseOf(o) = "submitted" /\ PhaseOf(o)' = "run"
             /\ \E result \in Outcomes : outcome' = [outcome EXCEPT ![o] = result]
    BY <2>4, <1>1 DEF Operation!Run, Operation!Step
  <2> QED BY <2>1, <2>2, <2>3, <2>4
<1> QED BY <1>2 DEF Operation!Next

\* The phase of an operation follows from its outcome and its fate.
LEMMA SamePhase ==
    ASSUME NEW o \in Ops, outcome'[o] = outcome[o],
           fate'[o] = fate[o] \/ (fate[o] = "pending" /\ fate'[o] = "lost")
    PROVE  PhaseOf(o)' = PhaseOf(o)
BY DEF PhaseOf

\* Each operation is written at most once, its outcome is shown at most once, and one
\* that was cancelled is never written.
THEOREM WorkerImplementsOperation ==
    Spec => ImplementsOperation
<1>1. Init => Operation!Init
  BY DEF Init, Operation!Init, PhaseOf
<1>2. IInv /\ [Next]_vars => [Operation!Next]_(Operation!vars)
  <2> SUFFICES ASSUME IInv, [Next]_vars
               PROVE  Operation!Next \/ UNCHANGED Operation!vars
    OBVIOUS
  <2> USE DEF IInv
  <2>1. ASSUME outcome' = outcome,
               \A o \in Ops : fate'[o] = fate[o] \/ (fate[o] = "pending" /\ fate'[o] = "lost")
        PROVE  UNCHANGED Operation!vars
    <3>1. \A o \in Ops : PhaseOf(o)' = PhaseOf(o)
      BY <2>1, SamePhase
    <3> QED BY <3>1, <2>1 DEF Operation!vars
  <2>2. ASSUME NEW o \in Ops, NEW to \in STRING, fate' = [fate EXCEPT ![o] = to]
        PROVE  \A q \in Ops \ {o} : fate'[q] = fate[q]
    BY <2>2 DEF Typed
  <2>3. ASSUME NEW k \in Kinds, Reserve(k)
        PROVE  Operation!Next
    <3>1. PICK o \in Ops : o = ops + 1 /\ o > ops
      BY <2>3, Bounds DEF Reserve, Typed, Ops
    <3>2. fate' = [fate EXCEPT ![o] = "pending"] /\ outcome' = outcome
      BY <2>3, <3>1 DEF Reserve
    <3>3. fate[o] = "none" /\ outcome[o] = "none" /\ outcome'[o] = "none" /\ fate'[o] = "pending"
      BY <3>1, <3>2 DEF Counted, Typed
    <3>4. PhaseOf(o) = "none" /\ PhaseOf(o)' = "submitted"
      BY <3>3 DEF PhaseOf
    <3>5. \A q \in Ops \ {o} : PhaseOf(q)' = PhaseOf(q)
      BY <3>2, <2>2, SamePhase
    <3> QED BY <3>2, <3>4, <3>5, OnePhase
  <2>4. ASSUME CancelPersistReservation
        PROVE  Operation!Next
    <3>1. PICK o \in Ops : o = ui.op /\ fate[o] = "pending" /\ outcome[o] = "none"
      BY <2>4, ReservedCommand DEF CancelPersistReservation, Reserved
    <3>2. fate' = [fate EXCEPT ![o] = "cancelled"] /\ outcome' = outcome
      BY <2>4, <3>1 DEF CancelPersistReservation
    <3>3. PhaseOf(o) = "submitted" /\ PhaseOf(o)' = "refused"
      <4>1. outcome'[o] = "none" /\ fate'[o] = "cancelled"
        BY <3>1, <3>2 DEF Typed
      <4> QED BY <3>1, <4>1 DEF PhaseOf
    <3>4. \A q \in Ops \ {o} : PhaseOf(q)' = PhaseOf(q)
      BY <3>2, <2>2, SamePhase
    <3> QED BY <3>2, <3>3, <3>4, OnePhase
  <2>5. ASSUME ExecutePersistCommand
        PROVE  Operation!Next
    <3>1. PICK r \in Slots, o \in Ops :
             /\ r = worker.slot /\ o = slot[r].op /\ fate[o] = "pending" /\ outcome[o] = "none"
      BY <2>5, WorkersCommand, RunningCommand DEF ExecutePersistCommand
    <3>2. PICK result \in Outcomes : outcome' = [outcome EXCEPT ![o] = result] /\ fate' = fate
      BY <2>5, <3>1 DEF ExecutePersistCommand, Working
    <3>3. outcome'[o] = result /\ result # "none" /\ \A q \in Ops \ {o} : outcome'[q] = outcome[q]
      BY <3>2 DEF Typed, Outcomes
    <3>4. PhaseOf(o) = "submitted" /\ PhaseOf(o)' = "run"
      BY <3>1, <3>2, <3>3 DEF PhaseOf
    <3>5. \A q \in Ops \ {o} : PhaseOf(q)' = PhaseOf(q)
      BY <3>2, <3>3, SamePhase
    <3> QED BY <3>2, <3>4, <3>5, OnePhase
  <2>6. ASSUME ApplyResult
        PROVE  Operation!Next
    <3>1. PICK o \in Ops : /\ o = ui.op /\ fate[o] = "pending" /\ outcome[o] = ui.result
                           /\ ui.result \in Outcomes
      BY <2>6, UisCommand DEF ApplyResult, Typed, UiType
    <3>2. PICK to \in Outcomes \cup {"dropped"} : fate' = [fate EXCEPT ![o] = to]
      BY <2>6, <3>1 DEF ApplyResult
    <3>3. outcome' = outcome
      BY <2>6 DEF ApplyResult
    <3>4. PhaseOf(o) = "run" /\ PhaseOf(o)' = "returned"
      <4>1. outcome[o] # "none" /\ fate'[o] \in {"ok", "failed", "dropped"}
        BY <3>1, <3>2 DEF Typed, Outcomes
      <4> QED BY <3>1, <4>1 DEF PhaseOf
    <3>5. \A q \in Ops \ {o} : PhaseOf(q)' = PhaseOf(q)
      BY <3>2, <3>3, <2>2, SamePhase DEF Outcomes
    <3> QED BY <3>3, <3>4, <3>5, OnePhase
  <2>7. ASSUME Sleep
        PROVE  UNCHANGED Operation!vars
    BY <2>7, <2>1 DEF Sleep
  <2>8. CASE \/ \E k \in Kinds : Confirm(k) \/ ResetPage(k) \/ TakeGeneration(k)
             \/ EnqueueReserved \/ TakeFields \/ AckFreesSlot \/ AckGeneration \/ ReleaseKind
             \/ WorkerReceive \/ ReleaseLease \/ MarkResultPending \/ FillMailbox
             \/ PublishGeneration \/ MoveGate \/ UNCHANGED vars
    <3>1. outcome' = outcome /\ fate' = fate
      BY <2>8 DEF Confirm, ResetPage, TakeGeneration, EnqueueReserved, TakeFields, AckFreesSlot,
         AckGeneration, ReleaseKind, WorkerReceive, ReleaseLease, MarkResultPending,
         FillMailbox, PublishGeneration, MoveGate, vars
    <3> QED BY <3>1, <2>1
  <2> QED BY <2>3, <2>4, <2>5, <2>6, <2>7, <2>8 DEF Next, UiStep, WorkerStep
<1> QED BY <1>1, <1>2, Inductive, PTL DEF Spec, ImplementsOperation, Operation!Spec
================================================================================
