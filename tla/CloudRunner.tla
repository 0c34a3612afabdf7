------------------------------ MODULE CloudRunner ------------------------------
(***************************************************************************)
(* The cloud runner (main/ui/cloud_runner.cpp) and the part of the domain  *)
(* files that is the same in each of them (main/ui/note_cloud.cpp and its  *)
(* siblings).  A domain has one request under way at a time: the UI task   *)
(* takes the busy flag and a sleep lease and queues a job; the task of the *)
(* job's lane resets the result slot of the domain, works, fills the slot  *)
(* and publishes its generation; the UI task applies the slot, writes the  *)
(* acknowledgement, and gives lease and flag back at the end of its round. *)
(*                                                                         *)
(* A step is one store that another task can see, or several that none can *)
(* tell apart: the flag, the lease and the queue are written by the UI     *)
(* task alone, and the lane only reads the queue.                          *)
(***************************************************************************)
EXTENDS Naturals, Sequences, FiniteSets

CONSTANTS
    Domains,        \* the cloud domains: todo, word, note, problem
    LaneDepth,      \* depth of a lane's queue (4 in the code)
    MaxCloudRequests,  \* bound on the requests of a behaviour
    Nil             \* no job, no result

Lanes == {"interactive", "bulk"}

\* A job asks for a kind of work; its argument is nothing (0), the id of a new session,
\* or a list and how much of it is there.
Operations == {"packSync", "image", "start", "page"}
Jobs == [domain : Domains, op : Operations, arg : Nat \cup [session : Nat, cursor : Nat]]

\* There is room in a lane for a job of each domain: four of both in the code.
ASSUME CloudAssumption ==
    /\ IsFiniteSet(Domains) /\ {LaneDepth, MaxCloudRequests} \subseteq Nat
    /\ Cardinality(Domains) <= LaneDepth
    /\ Nil \notin Jobs \cup Operations \cup {"done"}

VARIABLES
    busy,           \* g_*_cloud_busy
    leased,         \* g_*_sleep_lease is held
    lanes,          \* g_lane_queue
    running,        \* the job a lane's task executes
    slot,           \* g_*_result_slot and g_*_result_generation
    pending,        \* pending_generation of a domain's mailbox
    acked,          \* acked_generation of a domain's mailbox
    completed,      \* the UI task's *_cloud_completed of this round
    requests        \* number of requests accepted

cloudVars == <<busy, leased, lanes, running, slot, pending, acked, completed, requests>>

Job(d, kind, arg) == [domain |-> d, op |-> kind, arg |-> arg]

EmptySlot(generation) == [generation |-> generation, op |-> Nil, result |-> Nil]

CloudIdle ==
    [busy |-> [d \in Domains |-> FALSE],
     lanes |-> [l \in Lanes |-> <<>>],
     running |-> [l \in Lanes |-> Nil],
     slot |-> [d \in Domains |-> EmptySlot(0)],
     zero |-> [d \in Domains |-> 0]]

\* The globals as a start of the program leaves them.
CloudInit ==
    /\ busy = CloudIdle.busy /\ leased = CloudIdle.busy /\ completed = CloudIdle.busy
    /\ lanes = CloudIdle.lanes /\ running = CloudIdle.running /\ slot = CloudIdle.slot
    /\ pending = CloudIdle.zero /\ acked = CloudIdle.zero
    /\ requests = 0

CloudReset ==
    /\ busy' = CloudIdle.busy /\ leased' = CloudIdle.busy /\ completed' = CloudIdle.busy
    /\ lanes' = CloudIdle.lanes /\ running' = CloudIdle.running /\ slot' = CloudIdle.slot
    /\ pending' = CloudIdle.zero /\ acked' = CloudIdle.zero
    /\ UNCHANGED requests

--------------------------------------------------------------------------------
(* The UI task asks *)

\* Only pack synchronisation moves megabytes.
LaneForJob(job) == IF job.op = "packSync" THEN "bulk" ELSE "interactive"

\* Mutant of Free: a request does not look at the flag of its domain.
FreeAlways(d) == TRUE

\* The compare-and-exchange of the flag can succeed.
Free(d) == ~busy[d]

\* The request is queued: flag, lease, job.
QueueRequest(job) ==
    LET d == job.domain  l == LaneForJob(job) IN
    /\ Free(d)
    /\ Len(lanes[l]) < LaneDepth
    /\ requests < MaxCloudRequests
    /\ busy' = [busy EXCEPT ![d] = TRUE]
    /\ leased' = [leased EXCEPT ![d] = TRUE]
    /\ lanes' = [lanes EXCEPT ![l] = Append(@, job)]
    /\ requests' = requests + 1
    /\ UNCHANGED <<running, slot, pending, acked, completed>>

\* The request is refused: another one is under way, or there is no lease (sleep
\* is closing the gate), or the lane is full; flag and lease are given back.
RefuseRequest == UNCHANGED cloudVars

--------------------------------------------------------------------------------
(* The task of a lane *)

\* It takes a job and clears the slot of its domain.
StartJob(l) ==
    /\ running[l] = Nil
    /\ lanes[l] # <<>>
    /\ LET job == Head(lanes[l]) IN
        /\ running' = [running EXCEPT ![l] = job]
        /\ slot' = [slot EXCEPT ![job.domain] =
                       [EmptySlot(@.generation + 1) EXCEPT !.op = job.op]]
    /\ lanes' = [lanes EXCEPT ![l] = Tail(@)]
    /\ UNCHANGED <<busy, leased, pending, acked, completed, requests>>

\* A job that is executing and has no result yet.
Working(l) == running[l] # Nil /\ slot[running[l].domain].result = Nil

\* The work of a job is done: its result is in the slot.
FillSlot(l, answer) ==
    /\ Working(l)
    /\ slot' = [slot EXCEPT ![running[l].domain].result = answer]
    /\ UNCHANGED <<busy, leased, lanes, running, pending, acked, completed, requests>>

\* PublishCloudResult, the last thing an Execute* function does.
PublishResult(l) ==
    /\ running[l] # Nil
    /\ LET d == running[l].domain IN
        /\ slot[d].result # Nil
        /\ pending' = [pending EXCEPT ![d] = slot[d].generation]
    /\ running' = [running EXCEPT ![l] = Nil]
    /\ UNCHANGED <<busy, leased, lanes, slot, acked, completed, requests>>

--------------------------------------------------------------------------------
(* The UI task collects *)

\* TakeCloudResultToApply: a generation that is not acknowledged.
HasResult(d) == pending[d] # 0 /\ pending[d] # acked[d]

\* Peek*CloudResult: the slot still belongs to the generation that was taken.
PeekedSlot(d) == IF pending[d] = slot[d].generation THEN slot[d] ELSE EmptySlot(0)

\* The result was applied, and what is left of it in the slot is not read again:
\* acknowledge, and remember to finish.
AckResult(d) ==
    /\ HasResult(d)
    /\ slot' = [slot EXCEPT ![d] = EmptySlot(@.generation)]
    /\ acked' = [acked EXCEPT ![d] = pending[d]]
    /\ completed' = [completed EXCEPT ![d] = TRUE]
    /\ UNCHANGED <<busy, leased, lanes, running, pending, requests>>

\* At the end of the round the completed domains are free again.
FinishRequests ==
    /\ busy' = [d \in Domains |-> busy[d] /\ ~completed[d]]
    /\ leased' = [d \in Domains |-> leased[d] /\ ~completed[d]]
    /\ completed' = CloudIdle.busy
    /\ UNCHANGED <<lanes, running, slot, pending, acked, requests>>

--------------------------------------------------------------------------------
(* The runner alone: any page of a domain may ask, the result means nothing. *)

CloudNext ==
    \/ \E d \in Domains, kind \in {"packSync", "image"} : QueueRequest(Job(d, kind, 0))
    \/ \E l \in Lanes : StartJob(l) \/ FillSlot(l, "done") \/ PublishResult(l)
    \/ \E d \in Domains : AckResult(d)
    \/ FinishRequests

CloudSpec == CloudInit /\ [][CloudNext]_cloudVars

CloudTypeOK ==
    /\ busy \in [Domains -> BOOLEAN]
    /\ leased \in [Domains -> BOOLEAN]
    /\ completed \in [Domains -> BOOLEAN]
    /\ \A l \in Lanes : Len(lanes[l]) \in 0..LaneDepth
    /\ \A d \in Domains :
        /\ slot[d].generation \in 0..MaxCloudRequests
        /\ pending[d] \in 0..MaxCloudRequests
        /\ acked[d] \in 0..MaxCloudRequests
    /\ requests \in 0..MaxCloudRequests

\* The job at a place of a lane: the task has place 0, the queue the others.
JobAt(p) == IF p[2] = 0 THEN running[p[1]] ELSE lanes[p[1]][p[2]]
JobPlaces ==
    {p \in Lanes \X (0..LaneDepth) : p[2] <= Len(lanes[p[1]]) /\ JobAt(p) # Nil}

\* The places of the jobs of a domain that are queued or executing.
JobsUnderWay(d) == {p \in JobPlaces : JobAt(p).domain = d}

\* A domain that is busy has exactly one cause: a job that is queued or executing, a
\* result that waits for the UI task, or the end of the round that applied it.  Its
\* lease covers all of that time, its slot is written by nobody while the result
\* waits, and a domain that is free finds room in both lanes.
OneRequestPerDomain ==
    /\ \A d \in Domains :
        LET causes == Cardinality(JobsUnderWay(d)) + (IF HasResult(d) THEN 1 ELSE 0)
                        + (IF completed[d] THEN 1 ELSE 0) IN
        /\ causes = IF busy[d] THEN 1 ELSE 0
        /\ leased[d] = busy[d]
        /\ HasResult(d) => slot[d].generation = pending[d] /\ slot[d].result # Nil
    /\ (\E d \in Domains : ~busy[d]) => \A l \in Lanes : Len(lanes[l]) < LaneDepth
================================================================================
